-------------------------------- MODULE FPUProofs --------------------------------
(***************************************************************************)
(* Proofs about FPU: for any number of registers, any values and any       *)
(* tables of arithmetic, the ring of registers does to the guest's stack   *)
(* what RegisterStack says, but for the listed exceptions.                 *)
(***************************************************************************)
EXTENDS FPU, SequenceTheorems, TLAPS

LEMMA OffsetInRing ==
  ASSUME NEW t \in Index, NEW i \in Index
  PROVE  Offset(t, i) \in Index
  BY RegistersAssumption DEF Offset, Index

\* Two places on the stack are two registers.
LEMMA OffsetInjective ==
  ASSUME NEW t \in Index, NEW i \in Index, NEW j \in Index, Offset(t, i) = Offset(t, j)
  PROVE  i = j
  BY RegistersAssumption DEF Offset, Index

\* The registers from t on, read as a stack, are a sequence.
LEMMA StackAtIsSequence ==
  ASSUME NEW t \in Index, NEW d \in [Index -> Value], NEW n \in 0..Registers
  PROVE  /\ StackAt(t, d, n) \in Seq(Value) /\ Len(StackAt(t, d, n)) = n
         /\ \A k \in 1..n : StackAt(t, d, n)[k] = d[Offset(t, k - 1)]
<1>1. n \in Nat /\ \A k \in 1..n : k - 1 \in Index
  BY RegistersAssumption DEF Index
<1>2. \A k \in 1..n : d[Offset(t, k - 1)] \in Value
  BY <1>1, OffsetInRing
<1>3. StackAt(t, d, n) \in [1..n -> Value]
  BY <1>2 DEF StackAt
<1>4. StackAt(t, d, n) \in Seq(Value)
  BY <1>1, <1>3, SeqDef
<1>5. Len(StackAt(t, d, n)) = n
  BY <1>1, <1>4, LenProperties DEF StackAt
<1> QED
  BY <1>4, <1>5 DEF StackAt

\* Writing to the register below t pushes.
LEMMA PushAt ==
  ASSUME NEW t \in Index, NEW d \in [Index -> Value], NEW n \in 0..(Registers - 1), NEW v \in Value
  PROVE  StackAt(DecrementTop(t), [d EXCEPT ![Offset(DecrementTop(t), 0)] = v], n + 1) = <<v>> \o StackAt(t, d, n)
<1> DEFINE u == DecrementTop(t)
           e == [d EXCEPT ![Offset(u, 0)] = v]
           s == StackAt(t, d, n)
<1>1. u \in Index /\ 0 \in Index /\ n \in 0..Registers
  BY RegistersAssumption DEF DecrementTop, Index
<1>2. e[Offset(u, 0)] = v
  BY <1>1, OffsetInRing
<1>3. ASSUME NEW k \in 1..n
      PROVE  e[Offset(u, k)] = d[Offset(t, k - 1)]
  <2>1. k \in Index /\ k # 0
    BY RegistersAssumption DEF Index
  <2>2. Offset(u, k) # Offset(u, 0)
    BY <1>1, <2>1, OffsetInjective
  <2>3. Offset(u, k) = Offset(t, k - 1)
    BY <2>1, RegistersAssumption DEF Offset, DecrementTop, Index
  <2> QED
    BY <1>1, <2>1, <2>2, <2>3, OffsetInRing
<1>4. s \in Seq(Value) /\ Len(s) = n /\ \A k \in 1..n : s[k] = d[Offset(t, k - 1)]
  BY <1>1, StackAtIsSequence
<1>5. StackAt(u, e, n + 1) = [k \in 1..(n + 1) |-> e[Offset(u, k - 1)]]
  BY DEF StackAt
<1> HIDE DEF u, e, s
<1>6. <<v>> \o s = [k \in 1..(n + 1) |-> IF k = 1 THEN v ELSE s[k - 1]]
  BY <1>4
<1>7. ASSUME NEW k \in 1..(n + 1)
      PROVE  e[Offset(u, k - 1)] = IF k = 1 THEN v ELSE s[k - 1]
  <2>1. CASE k = 1
    BY <1>2, <2>1
  <2>2. CASE k # 1
    <3>1. k - 1 \in 1..n
      BY <2>2
    <3>2. e[Offset(u, k - 1)] = d[Offset(t, (k - 1) - 1)]
      BY <1>3, <3>1
    <3> QED
      BY <1>4, <2>2, <3>1, <3>2
  <2> QED
    BY <2>1, <2>2
<1>8. StackAt(u, e, n + 1) = <<v>> \o s
  BY <1>5, <1>6, <1>7
<1> QED
  BY <1>8 DEF u, e, s

\* A register file after a write, and a stack after one.
Written(f, j, v) == [f EXCEPT ![j] = v]

\* Writing to a register in use changes that place of the stack and no other.
LEMMA WriteAt ==
  ASSUME NEW t \in Index, NEW d \in [Index -> Value], NEW n \in 0..Registers,
         NEW i \in 0..(n - 1), NEW v \in Value
  PROVE  /\ Written(d, Offset(t, i), v) \in [Index -> Value]
         /\ StackAt(t, Written(d, Offset(t, i), v), n) = Written(StackAt(t, d, n), i + 1, v)
<1> DEFINE e == Written(d, Offset(t, i), v)
<1>1. e \in [Index -> Value] /\ \A j \in Index : e[j] = IF j = Offset(t, i) THEN v ELSE d[j]
  BY DEF Written
<1> HIDE DEF e
<1>2. ASSUME NEW k \in 1..n
      PROVE  e[Offset(t, k - 1)] = IF k = i + 1 THEN v ELSE d[Offset(t, k - 1)]
  <2>1. i \in Index /\ k - 1 \in Index /\ i \in Int /\ k \in Int
    BY RegistersAssumption DEF Index
  <2>2. Offset(t, k - 1) \in Index
    BY <2>1, OffsetInRing
  <2>3. CASE k = i + 1
    <3>1. k - 1 = i
      BY <2>1, <2>3
    <3> QED
      BY <1>1, <2>2, <2>3, <3>1
  <2>4. CASE k # i + 1
    <3>1. k - 1 # i
      BY <2>1, <2>4
    <3>2. Offset(t, k - 1) # Offset(t, i)
      BY <2>1, <3>1, OffsetInjective
    <3> QED
      BY <1>1, <2>2, <2>4, <3>2
  <2> QED
    BY <2>3, <2>4
<1>3. StackAt(t, e, n) = Written(StackAt(t, d, n), i + 1, v)
  BY <1>2 DEF StackAt, Written
<1> QED
  BY <1>1, <1>3 DEF e

\* Leaving a register behind pops.
LEMMA PopAt ==
  ASSUME NEW t \in Index, NEW d \in [Index -> Value], NEW n \in 1..Registers
  PROVE  StackAt(IncrementTop(t), d, n - 1) = Tail(StackAt(t, d, n)) /\ IncrementTop(t) \in Index
<1> DEFINE s == StackAt(t, d, n)
<1>1. ASSUME NEW k \in 1..(n - 1)
      PROVE  Offset(IncrementTop(t), k - 1) = Offset(t, k) /\ k + 1 \in 1..n
  BY RegistersAssumption DEF Offset, IncrementTop, Index
<1>2. n \in 0..Registers /\ n - 1 \in Nat
  BY RegistersAssumption
<1>3. s \in Seq(Value) /\ Len(s) = n /\ \A k \in 1..n : s[k] = d[Offset(t, k - 1)]
  BY <1>2, StackAtIsSequence
<1> HIDE DEF s
<1>4. Tail(s) \in Seq(Value) /\ Len(Tail(s)) = n - 1 /\ \A k \in 1..(n - 1) : Tail(s)[k] = s[k + 1]
  BY <1>2, <1>3, HeadTailProperties, EmptySeq
<1>5. Tail(s) = [k \in 1..(n - 1) |-> s[k + 1]]
  <2>1. Tail(s) \in [1..(n - 1) -> Value]
    BY <1>4, LenProperties
  <2> QED
    BY <1>4, <2>1
<1>6. \A k \in 1..(n - 1) : s[k + 1] = d[Offset(IncrementTop(t), k - 1)]
  BY <1>1, <1>3
<1>7. StackAt(IncrementTop(t), d, n - 1) = Tail(s)
  BY <1>5, <1>6 DEF StackAt
<1>8. IncrementTop(t) \in Index
  BY RegistersAssumption DEF IncrementTop, Index
<1> QED
  BY <1>7, <1>8 DEF s

--------------------------------------------------------------------------------
(* What the instructions have in common, as steps of the stack. *)

USE DEF Stack

LEMMA DepthTyped ==
  ASSUME TypeOK
  PROVE  /\ top \in Index /\ data \in [Index -> Value] /\ depth \in 0..Registers
         /\ \A i \in 0..(depth - 1) : i \in Index
  BY RegistersAssumption DEF TypeOK, Index

\* The guest's view of its stack is the unit's.
LEMMA View ==
  ASSUME TypeOK
  PROVE  /\ \A n \in Nat : Has(n) <=> S!Has(n)
         /\ depth < Registers <=> S!HasRoom
         /\ \A i \in 0..(depth - 1) : S!ST(i) = Register(i) /\ Register(i) \in Value
         /\ DOMAIN Stack = 1..depth
<1>1. Stack \in Seq(Value) /\ Len(Stack) = depth /\ \A k \in 1..depth : Stack[k] = data[Offset(top, k - 1)]
  BY DepthTyped, StackAtIsSequence
<1>2. ASSUME NEW i \in 0..(depth - 1)
      PROVE  S!ST(i) = Register(i) /\ Register(i) \in Value
  <2>1. i + 1 \in 1..depth /\ (i + 1) - 1 = i
    BY DepthTyped
  <2>2. S!ST(i) = Register(i)
    BY <1>1, <2>1 DEF S!ST, Register
  <2>3. Register(i) \in Value
    BY DepthTyped, OffsetInRing DEF Register
  <2> QED
    BY <2>2, <2>3
<1>3. \A n \in Nat : Has(n) <=> S!Has(n)
  BY <1>1 DEF Has, S!Has
<1>4. depth < Registers <=> S!HasRoom
  BY <1>1 DEF S!HasRoom
<1>5. DOMAIN Stack = 1..depth
  BY <1>1, LenProperties
<1> QED
  BY <1>2, <1>3, <1>4, <1>5

LEMMA Pushes ==
  ASSUME TypeOK, NEW v \in Value, Push(v)
  PROVE  S!Push(v) /\ TypeOK'
<1>1. DecrementTop(top) \in Index /\ 0 \in Index /\ depth \in 0..(Registers - 1)
  BY DepthTyped, RegistersAssumption DEF Push, DecrementTop, Index
<1>2. Stack' = <<v>> \o Stack
  BY <1>1, DepthTyped, PushAt DEF Push, SetRegister
<1>3. S!Push(v)
  BY <1>2, View DEF Push, S!Push, S!Nothing
<1>4. data' \in [Index -> Value]
  BY <1>1, DepthTyped, OffsetInRing DEF Push, SetRegister
<1>5. depth' \in 0..Registers
  BY <1>1, RegistersAssumption DEF Push
<1>6. TypeOK'
  BY <1>1, <1>4, <1>5 DEF Push, TypeOK
<1> QED
  BY <1>3, <1>6

LEMMA Replaces ==
  ASSUME TypeOK, NEW i \in 0..(depth - 1), NEW v \in Value, Replace(i, v)
  PROVE  S!Replace(i, v) /\ TypeOK'
<1>1. top \in Index /\ data \in [Index -> Value] /\ depth \in 0..Registers
  BY DepthTyped
<1>2. data' = Written(data, Offset(top, i), v) /\ top' = top /\ depth' = depth
  BY DEF Replace, SetRegister, Written
<1>3. /\ Written(data, Offset(top, i), v) \in [Index -> Value]
      /\ StackAt(top, Written(data, Offset(top, i), v), depth) = Written(Stack, i + 1, v)
  BY <1>1, WriteAt
<1>4. data' \in [Index -> Value]
  BY <1>2, <1>3
<1>5. StackAt(top, data', depth) = [Stack EXCEPT ![i + 1] = v]
  BY <1>2, <1>3 DEF Written
<1>6. S!Replace(i, v)
  BY <1>2, <1>5 DEF Replace, S!Replace, S!Put, S!Nothing
<1>7. TypeOK'
  BY <1>2, <1>4 DEF Replace, TypeOK
<1> QED
  BY <1>6, <1>7

LEMMA ReplacesAndPops ==
  ASSUME TypeOK, NEW i \in 0..(depth - 1), NEW v \in Value, ReplaceAndPop(i, v)
  PROVE  S!ReplaceAndPop(i, v) /\ TypeOK'
<1>1. depth \in 1..Registers /\ top \in Index /\ data \in [Index -> Value] /\ depth \in 0..Registers
  BY DepthTyped
<1>2. data' = Written(data, Offset(top, i), v) /\ top' = IncrementTop(top) /\ depth' = depth - 1
  BY DEF ReplaceAndPop, SetRegister, Written
<1>3. /\ Written(data, Offset(top, i), v) \in [Index -> Value]
      /\ StackAt(top, Written(data, Offset(top, i), v), depth) = Written(Stack, i + 1, v)
  BY <1>1, WriteAt
<1>4. data' \in [Index -> Value]
  BY <1>2, <1>3
<1>5. StackAt(top, data', depth) = [Stack EXCEPT ![i + 1] = v]
  BY <1>2, <1>3 DEF Written
<1>6. /\ StackAt(IncrementTop(top), data', depth - 1) = Tail(StackAt(top, data', depth))
      /\ IncrementTop(top) \in Index
  BY <1>1, <1>4, PopAt
<1>7. S!ReplaceAndPop(i, v)
  BY <1>2, <1>5, <1>6 DEF ReplaceAndPop, S!ReplaceAndPop, S!Put, S!Nothing
<1>8. TypeOK'
  BY <1>1, <1>2, <1>4, <1>6, RegistersAssumption DEF ReplaceAndPop, TypeOK
<1> QED
  BY <1>7, <1>8

LEMMA Stores ==
  ASSUME TypeOK, NEW x, Store(x)
  PROVE  S!Store(x) /\ TypeOK'
  BY DEF Store, S!Store, TypeOK

LEMMA Shrinks ==
  ASSUME TypeOK, Has(1), PopOne, data' = data, flags' \in Flags, control' = control
  PROVE  Stack' = Tail(Stack) /\ TypeOK'
<1>1. depth \in 1..Registers
  BY DepthTyped DEF Has
<1>2. Stack' = Tail(Stack) /\ top' \in Index
  BY <1>1, DepthTyped, PopAt DEF PopOne
<1> QED
  BY <1>1, <1>2, RegistersAssumption DEF PopOne, TypeOK

LEMMA ShrinksTwice ==
  ASSUME TypeOK, Has(2), PopTwo, data' = data, flags' \in Flags, control' = control
  PROVE  Stack' = Tail(Tail(Stack)) /\ TypeOK'
<1>1. depth \in 1..Registers /\ depth - 1 \in 1..Registers /\ (depth - 1) - 1 = depth - 2
  BY DepthTyped, RegistersAssumption DEF Has
<1>2. StackAt(IncrementTop(top), data, depth - 1) = Tail(Stack) /\ IncrementTop(top) \in Index
  BY <1>1, DepthTyped, PopAt
<1>3. /\ StackAt(IncrementTop(IncrementTop(top)), data, (depth - 1) - 1) = Tail(StackAt(IncrementTop(top), data, depth - 1))
      /\ IncrementTop(IncrementTop(top)) \in Index
  BY <1>1, <1>2, DepthTyped, PopAt
<1>4. Stack' = Tail(Tail(Stack)) /\ top' \in Index
  BY <1>1, <1>2, <1>3 DEF PopTwo
<1> QED
  BY <1>1, <1>4, RegistersAssumption DEF PopTwo, TypeOK

LEMMA StoresAndPops ==
  ASSUME TypeOK, NEW x, Has(1), StoreAndPop(x)
  PROVE  S!StoreAndPop(x) /\ TypeOK'
<1>1. Stack' = Tail(Stack) /\ TypeOK'
  BY Shrinks DEF StoreAndPop, PopOne, TypeOK
<1> QED
  BY <1>1 DEF StoreAndPop, S!StoreAndPop

LEMMA ComparesTyped ==
  ASSUME TypeOK, NEW x, NEW y, Compares(x, y)
  PROVE  flags' \in Flags /\ data' = data /\ control' = control
  BY DEF Compares, Compared, Flags

LEMMA ComparesInOrder ==
  ASSUME TypeOK, NEW x \in Value, NEW y \in Value, Ordered(x, y), Compares(x, y)
  PROVE  S!Compares(x, y)
<1>1. Compare[<<x, y>>] \in {"greater", "less", "equal"}
  BY TablesAssumption DEF Ordered, Order
<1> QED
  BY <1>1 DEF Compares, Compared, S!Compares, S!Condition, S!Nothing

--------------------------------------------------------------------------------
(* Types. *)

\* The tables give values.
LEMMA TablesTyped ==
  /\ \A f \in Arithmetic \cup {"scale", "yl2x"}, x \in Value, y \in Value : Binary[f][<<x, y>>] \in Value
  /\ \A f \in DOMAIN Unary, x \in Value : Unary[f][x] \in Value
  /\ \A x \in Value : Single(x) \in Value /\ Double(x) \in Value
  /\ \A w \in Word : Signed[w] \in Value /\ Unsigned[w] \in Value
  /\ \A x \in Value : Integers(x) \subseteq Value
  BY TablesAssumption, ValueAssumption DEF Single, Double, Integers, Mode

LEMMA OperandsTyped ==
  Singles \subseteq Value /\ Doubles \subseteq Value /\ Constants \subseteq Value /\ Zero \in Value
  BY TablesTyped, ValueAssumption DEF Singles, Doubles

LEMMA RegisterTyped ==
  ASSUME TypeOK, NEW i \in Index
  PROVE  Register(i) \in Value
  BY OffsetInRing DEF TypeOK, Register

\* A write outside the guest's stack keeps the types, too.
LEMMA ReplaceTyped ==
  ASSUME TypeOK, NEW i \in Index, NEW v \in Value, Replace(i, v)
  PROVE  TypeOK'
  BY OffsetInRing DEF TypeOK, Replace, SetRegister

LEMMA ReplaceAndPopTyped ==
  ASSUME TypeOK, NEW i \in Index, NEW v \in Value, Has(1), ReplaceAndPop(i, v)
  PROVE  TypeOK'
<1>1. top' \in Index
  BY RegistersAssumption DEF TypeOK, ReplaceAndPop, IncrementTop, Index
<1>2. depth' \in 0..Registers
  BY RegistersAssumption DEF TypeOK, ReplaceAndPop, Has
<1>3. data' \in [Index -> Value]
  BY OffsetInRing DEF TypeOK, ReplaceAndPop, SetRegister
<1> QED
  BY <1>1, <1>2, <1>3 DEF TypeOK, ReplaceAndPop

LEMMA OnRegisterTyped ==
  ASSUME TypeOK, NEW i \in Index, OnRegister(i)
  PROVE  TypeOK'
<1>1. 0 \in Index /\ 1 \in Index
  BY RegistersAssumption DEF Index
<1>2. Register(0) \in Value /\ Register(1) \in Value /\ Register(i) \in Value
  BY <1>1, RegisterTyped
<1>3. Has(i + 1) => Has(1)
  BY DEF Has, Index, TypeOK
<1>4. CASE FldRegister(i)
  BY <1>2, <1>4, Pushes DEF FldRegister
<1>5. CASE FstpRegister(i)
  BY <1>2, <1>3, <1>5, ReplaceAndPopTyped DEF FstpRegister
<1>6. CASE Fxch(i)
  BY <1>1, <1>2, <1>6, OffsetInRing DEF Fxch, TypeOK
<1>7. CASE FmulTop(i) \/ FdivTop(i) \/ FsubTop(i)
  BY <1>1, <1>2, <1>7, ReplaceTyped, TablesTyped DEF FmulTop, FdivTop, FsubTop, Arithmetic
<1>8. CASE FsubRegister(i)
  BY <1>2, <1>8, ReplaceTyped, TablesTyped DEF FsubRegister, Arithmetic
<1>9. CASE Faddp(i) \/ Fdivp(i)
  BY <1>2, <1>3, <1>9, ReplaceAndPopTyped, TablesTyped DEF Faddp, Fdivp, Arithmetic
<1>10. CASE Fmulp(i) \/ Fsubp(i)
  BY <1>1, <1>2, <1>3, <1>10, ReplaceAndPopTyped, TablesTyped DEF Fmulp, Fsubp, Arithmetic
<1>11. CASE FcompRegister(i)
  BY <1>3, <1>11, ComparesTyped, Shrinks DEF FcompRegister
<1> QED
  BY <1>4, <1>5, <1>6, <1>7, <1>8, <1>9, <1>10, <1>11 DEF OnRegister

LEMMA OnMemoryTyped ==
  ASSUME TypeOK, OnMemory
  PROVE  TypeOK'
<1>1. 0 \in Index /\ Register(0) \in Value
  BY RegistersAssumption, RegisterTyped DEF Index
<1>2. ASSUME NEW v \in Singles \cup Doubles, FldMemory(v)
      PROVE  TypeOK'
  BY <1>2, OperandsTyped, Pushes DEF FldMemory
<1>3. ASSUME NEW w \in Word, Fild(w)
      PROVE  TypeOK'
  BY <1>3, TablesTyped, Pushes DEF Fild
<1>4. ASSUME NEW bits \in {32, 64}, FstMemory(bits)
      PROVE  TypeOK'
  BY <1>4, Stores DEF FstMemory
<1>5. CASE FstpMemory
  BY <1>5, StoresAndPops DEF FstpMemory
<1>6. CASE Fistp
  BY <1>6, StoresAndPops DEF Fistp
<1>7. ASSUME NEW f \in Arithmetic, NEW v \in Value, ArithSingle(f, v) \/ ArithDouble(f, v)
      PROVE  TypeOK'
  <2>1. \E r \in Value : Replace(0, r)
    BY <1>1, <1>7, TablesTyped DEF ArithSingle, ArithDouble
  <2> QED
    BY <1>1, <2>1, ReplaceTyped
<1>8. ASSUME NEW v \in Doubles, FdivrMemory(v) \/ FcomMemory(v) \/ FcompMemory(v)
      PROVE  TypeOK'
  <2>1. CASE FdivrMemory(v)
    BY <1>1, <2>1, OperandsTyped, ReplaceTyped, TablesTyped DEF FdivrMemory, Arithmetic
  <2>2. CASE FcomMemory(v)
    BY <2>2, ComparesTyped DEF FcomMemory, Keep, TypeOK
  <2>3. CASE FcompMemory(v)
    BY <2>3, ComparesTyped, Shrinks DEF FcompMemory
  <2> QED
    BY <1>8, <2>1, <2>2, <2>3
<1> QED
  BY <1>2, <1>3, <1>4, <1>5, <1>6, <1>7, <1>8, OperandsTyped DEF OnMemory

LEMMA OnTopTyped ==
  ASSUME TypeOK, OnTop
  PROVE  TypeOK'
<1>1. 0 \in Index /\ 1 \in Index /\ Register(0) \in Value /\ Register(1) \in Value
  BY RegistersAssumption, RegisterTyped DEF Index
<1>2. ASSUME NEW v \in Constants, FldConstant(v)
      PROVE  TypeOK'
  BY <1>2, OperandsTyped, Pushes DEF FldConstant
<1>3. ASSUME NEW f \in DOMAIN Unary, UnaryTop(f)
      PROVE  TypeOK'
  BY <1>1, <1>3, ReplaceTyped, TablesTyped DEF UnaryTop
<1>4. CASE Frndint
  BY <1>1, <1>4, ReplaceTyped, TablesTyped DEF Frndint
<1>5. CASE Fscale
  BY <1>1, <1>5, ReplaceTyped, TablesTyped DEF Fscale
<1>6. CASE Fyl2x
  <2>1. Binary["yl2x"][<<Register(1), Register(0)>>] \in Value
    BY <1>1, TablesTyped
  <2>2. data' \in [Index -> Value]
    BY <1>1, <1>6, <2>1, OffsetInRing DEF Fyl2x, SetRegister, TypeOK
  <2>3. depth' \in 0..Registers
    BY <1>6, RegistersAssumption DEF Fyl2x, Has, TypeOK
  <2> QED
    BY <1>6, <2>2, <2>3 DEF Fyl2x, TypeOK
<1>7. CASE Fcompp
  BY <1>7, ComparesTyped, ShrinksTwice DEF Fcompp
<1>8. CASE Ftst
  BY <1>8, ComparesTyped DEF Ftst, Keep, TypeOK
<1> QED
  BY <1>2, <1>3, <1>4, <1>5, <1>6, <1>7, <1>8 DEF OnTop

LEMMA OnControlTyped ==
  ASSUME TypeOK, OnControl
  PROVE  TypeOK'
<1>1. CASE Fnstsw \/ Fnstcw
  BY <1>1, Stores DEF Fnstsw, Fnstcw
<1>2. CASE Fninit
  BY <1>2, RegistersAssumption DEF Fninit, TypeOK, Index, Flags, Mode
<1>3. ASSUME NEW m \in Mode, Fldcw(m)
      PROVE  TypeOK'
  BY <1>3 DEF Fldcw, TypeOK
<1> QED
  BY <1>1, <1>2, <1>3 DEF OnControl

\* The registers, ST(0)'s number, the condition bits and the guest's depth keep
\* their types, whatever instructions run.
THEOREM FPUTypeCorrect == Spec => []TypeOK
<1>1. Init => TypeOK
  BY RegistersAssumption, GarbageAssumption DEF Init, TypeOK
<1>2. TypeOK /\ [Next]_fpuVars => TypeOK'
  <2> SUFFICES ASSUME TypeOK, [Next]_fpuVars PROVE TypeOK'
    OBVIOUS
  <2>1. CASE UNCHANGED fpuVars
    BY <2>1 DEF fpuVars, TypeOK
  <2>2. CASE Next
    BY <2>2, OnRegisterTyped, OnMemoryTyped, OnTopTyped, OnControlTyped DEF Next
  <2> QED
    BY <2>1, <2>2
<1> QED
  BY <1>1, <1>2, PTL DEF Spec

--------------------------------------------------------------------------------
(* Every instruction but the exceptions is an instruction of the stack. *)

\* The exchange writes two registers.
LEMMA Exchanges ==
  ASSUME TypeOK, Fxch(1)
  PROVE  S!Fxch(1)
<1>1. /\ top \in Index /\ data \in [Index -> Value] /\ depth \in 0..Registers
      /\ 0 \in 0..(depth - 1) /\ 1 \in 0..(depth - 1) /\ 0 \in Index /\ 1 \in Index
  BY DepthTyped, RegistersAssumption DEF Fxch, Has, Index
<1>2. /\ S!Has(1 + 1) /\ S!ST(0) = Register(0) /\ S!ST(1) = Register(1)
      /\ Register(0) \in Value /\ Register(1) \in Value
  BY <1>1, View DEF Fxch
<1>3. ASSUME NEW k \in 1..depth
      PROVE  data'[Offset(top, k - 1)] =
               IF k = 1 + 1 THEN Register(0) ELSE IF k = 1 THEN Register(1) ELSE data[Offset(top, k - 1)]
  <2>1. k - 1 \in Index
    BY <1>1, RegistersAssumption DEF Index
  <2>2. Offset(top, k - 1) \in Index /\ Offset(top, 0) # Offset(top, 1)
    BY <1>1, <2>1, OffsetInRing, OffsetInjective
  <2>3. CASE k = 1
    BY <1>1, <2>2, <2>3 DEF Fxch
  <2>4. CASE k = 1 + 1
    BY <1>1, <2>2, <2>4 DEF Fxch
  <2>5. CASE k # 1 /\ k # 1 + 1
    <3>1. Offset(top, k - 1) # Offset(top, 0) /\ Offset(top, k - 1) # Offset(top, 1)
      BY <1>1, <2>1, <2>5, OffsetInjective
    <3> QED
      BY <1>1, <2>2, <2>5, <3>1 DEF Fxch
  <2> QED
    BY <2>3, <2>4, <2>5
<1>4. StackAt(top, data', depth) = [StackAt(top, data, depth) EXCEPT ![1] = Register(1), ![1 + 1] = Register(0)]
  BY <1>1, <1>3 DEF StackAt
<1> QED
  BY <1>2, <1>4 DEF Fxch, S!Fxch, S!Nothing

LEMMA RegisterStepsHold ==
  ASSUME TypeOK, NEW i \in Index
  PROVE  RegisterSteps(i)
<1>1. i \in Nat /\ i + 1 \in Nat /\ 0 \in Index /\ 1 \in Index
  BY RegistersAssumption DEF Index
<1>2. ASSUME Has(i + 1)
      PROVE  /\ S!Has(i + 1) /\ Has(1) /\ 0 \in 0..(depth - 1) /\ i \in 0..(depth - 1)
             /\ S!ST(i) = Register(i) /\ S!ST(0) = Register(0)
             /\ Register(i) \in Value /\ Register(0) \in Value
  <2>1. 0 \in 0..(depth - 1) /\ i \in 0..(depth - 1) /\ Has(1)
    BY <1>1, <1>2, DepthTyped DEF Has
  <2> QED
    BY <1>1, <1>2, <2>1, View
<1>3. FldRegister(i) /\ i = 0 => S!FldRegister(i)
  BY <1>1, <1>2, Pushes DEF FldRegister, S!FldRegister
<1>4. FstpRegister(i) => S!FstpRegister(i)
  BY <1>1, <1>2, ReplacesAndPops DEF FstpRegister, S!FstpRegister
<1>5. FmulTop(i) => S!ArithTop("mul", i)
  BY <1>1, <1>2, Replaces, TablesTyped DEF FmulTop, S!ArithTop, Arithmetic
<1>6. FdivTop(i) => S!ArithTop("div", i)
  BY <1>1, <1>2, Replaces, TablesTyped DEF FdivTop, S!ArithTop, Arithmetic
<1>7. FsubTop(i) /\ i = 0 => S!ArithTop("sub", i)
  BY <1>1, <1>2, Replaces, TablesTyped DEF FsubTop, S!ArithTop, Arithmetic
<1>8. FsubRegister(i) => S!FsubRegister(i)
  BY <1>1, <1>2, Replaces, TablesTyped DEF FsubRegister, S!FsubRegister, Arithmetic
<1>9. Faddp(i) => S!ArithPop("add", i)
  BY <1>1, <1>2, ReplacesAndPops, TablesTyped DEF Faddp, S!ArithPop, Arithmetic
<1>10. Fdivp(i) => S!ArithPop("div", i)
  BY <1>1, <1>2, ReplacesAndPops, TablesTyped DEF Fdivp, S!ArithPop, Arithmetic
<1>11. Fmulp(i) /\ i = 1 => S!ArithPop("mul", i)
  <2> SUFFICES ASSUME Fmulp(1), i = 1 PROVE S!ArithPop("mul", 1)
    BY <1>1
  <2>1. Has(1 + 1)
    BY DEF Fmulp
  <2>2. Binary["mul"][<<Register(0), Register(1)>>] = Binary["mul"][<<Register(1), Register(0)>>]
    BY <1>2, <2>1, CommutativeAssumption
  <2> QED
    BY <1>2, <2>1, <2>2, ReplacesAndPops, TablesTyped DEF Fmulp, S!ArithPop, Arithmetic
<1>12. Fsubp(i) /\ i = 1 => S!ArithPop("sub", i)
  BY <1>1, <1>2, ReplacesAndPops, TablesTyped DEF Fsubp, S!ArithPop, Arithmetic
<1>13. FcompRegister(i) /\ Ordered(Register(0), Register(i)) => S!FcompRegister(i)
  <2> SUFFICES ASSUME FcompRegister(i), Ordered(Register(0), Register(i)) PROVE S!FcompRegister(i)
    OBVIOUS
  <2>1. Has(i + 1) /\ PopOne /\ Compares(Register(0), Register(i))
    BY DEF FcompRegister
  <2>2. Stack' = Tail(Stack)
    BY <1>2, <2>1, ComparesTyped, Shrinks
  <2>3. S!Compares(Register(0), Register(i))
    BY <1>2, <2>1, ComparesInOrder
  <2> QED
    BY <1>2, <2>1, <2>2, <2>3 DEF S!FcompRegister
<1>14. Fxch(i) /\ i = 1 => S!Fxch(i)
  BY Exchanges
<1> QED
  BY <1>3, <1>4, <1>5, <1>6, <1>7, <1>8, <1>9, <1>10, <1>11, <1>12, <1>13, <1>14 DEF RegisterSteps

LEMMA MemoryStepsHold ==
  ASSUME TypeOK
  PROVE  MemorySteps
<1>1. ASSUME Has(1)
      PROVE  /\ S!Has(1) /\ 0 \in 0..(depth - 1)
             /\ S!ST(0) = Register(0) /\ Register(0) \in Value
  <2>1. 0 \in 0..(depth - 1)
    BY <1>1, DepthTyped DEF Has
  <2> QED
    BY <1>1, <2>1, View
<1>2. ASSUME NEW v \in Singles \cup Doubles, FldMemory(v)
      PROVE  S!FldMemory(v)
  BY <1>2, OperandsTyped, Pushes DEF FldMemory, S!FldMemory
<1>3. ASSUME NEW w \in Word, Fild(w), Unsigned[w] = Signed[w]
      PROVE  S!Fild(w)
  BY <1>3, TablesTyped, Pushes DEF Fild, S!Fild
<1>4. ASSUME NEW bits \in {32, 64}, FstMemory(bits)
      PROVE  S!FstMemory(bits)
  BY <1>1, <1>4, Stores DEF FstMemory, S!FstMemory
<1>5. ASSUME FstpMemory
      PROVE  S!FstpMemory
  BY <1>1, <1>5, StoresAndPops DEF FstpMemory, S!FstpMemory, Double
<1>6. ASSUME Fistp, Exact(Register(0))
      PROVE  S!Fistp
  BY <1>1, <1>6, StoresAndPops DEF Fistp, S!Fistp, Words, Exact
<1>7. ASSUME NEW f \in Arithmetic, NEW v \in Singles, ArithSingle(f, v), f = "mul" \/ SingleResult(f, v)
      PROVE  S!ArithMemory(f, v)
  <2>1. v \in Value /\ Has(1)
    BY <1>7, OperandsTyped DEF ArithSingle
  <2>2. Replace(0, Binary[f][<<Register(0), v>>])
    BY <1>7 DEF ArithSingle, SingleResult
  <2> QED
    BY <1>1, <2>1, <2>2, Replaces, TablesTyped DEF S!ArithMemory
<1>8. ASSUME NEW f \in Arithmetic, NEW v \in Doubles, ArithDouble(f, v), f # "sub" \/ DoubleResult(f, v)
      PROVE  S!ArithMemory(f, v)
  <2>1. v \in Value /\ Has(1)
    BY <1>8, OperandsTyped DEF ArithDouble
  <2>2. Replace(0, Binary[f][<<Register(0), v>>])
    BY <1>8 DEF ArithDouble, DoubleResult
  <2> QED
    BY <1>1, <2>1, <2>2, Replaces, TablesTyped DEF S!ArithMemory
<1>9. ASSUME NEW v \in Doubles, FdivrMemory(v)
      PROVE  S!FdivrMemory(v)
  BY <1>1, <1>9, OperandsTyped, Replaces, TablesTyped DEF FdivrMemory, S!FdivrMemory, Arithmetic
<1>10. ASSUME NEW v \in Doubles, FcomMemory(v), Ordered(Register(0), v)
       PROVE  S!FcomMemory(v)
  <2>1. Has(1) /\ v \in Value /\ S!Compares(Register(0), v)
    BY <1>1, <1>10, OperandsTyped, ComparesInOrder DEF FcomMemory
  <2> QED
    BY <1>1, <1>10, <2>1 DEF FcomMemory, Keep, Compares, S!FcomMemory
<1>11. ASSUME NEW v \in Doubles, FcompMemory(v), Ordered(Register(0), v)
       PROVE  S!FcompMemory(v)
  <2>1. Has(1) /\ v \in Value /\ PopOne /\ Compares(Register(0), v)
    BY <1>11, OperandsTyped DEF FcompMemory
  <2>2. Stack' = Tail(Stack)
    BY <2>1, ComparesTyped, Shrinks
  <2>3. S!Compares(Register(0), v)
    BY <1>1, <1>11, <2>1, ComparesInOrder
  <2> QED
    BY <1>1, <2>1, <2>2, <2>3 DEF S!FcompMemory
<1> QED
  BY <1>2, <1>3, <1>4, <1>5, <1>6, <1>7, <1>8, <1>9, <1>10, <1>11 DEF MemorySteps

LEMMA TopStepsHold ==
  ASSUME TypeOK
  PROVE  TopSteps
<1>1. ASSUME Has(1)
      PROVE  /\ S!Has(1) /\ 0 \in 0..(depth - 1)
             /\ S!ST(0) = Register(0) /\ Register(0) \in Value
  <2>1. 0 \in 0..(depth - 1)
    BY <1>1, DepthTyped DEF Has
  <2> QED
    BY <1>1, <2>1, View
<1>2. ASSUME Has(2)
      PROVE  /\ S!Has(2) /\ Has(1) /\ S!ST(1) = Register(1) /\ Register(1) \in Value
  <2>1. 1 \in 0..(depth - 1) /\ Has(1)
    BY <1>2, DepthTyped DEF Has
  <2> QED
    BY <1>2, <2>1, View
<1>3. ASSUME NEW v \in Constants, FldConstant(v)
      PROVE  S!FldConstant(v)
  BY <1>3, OperandsTyped, Pushes DEF FldConstant, S!FldConstant
<1>4. ASSUME NEW f \in DOMAIN Unary, UnaryTop(f)
      PROVE  S!UnaryTop(f)
  BY <1>1, <1>4, Replaces, TablesTyped DEF UnaryTop, S!UnaryTop
<1>5. ASSUME Frndint, Exact(Register(0))
      PROVE  S!Frndint
  <2>1. Has(1) /\ Replace(0, Round["truncate"][Register(0)])
    BY <1>5 DEF Frndint, Exact, Integers
  <2>2. Round["truncate"][Register(0)] \in Value
    BY <1>1, <2>1, TablesAssumption DEF Mode
  <2> QED
    BY <1>1, <1>5, <2>1, <2>2, Replaces DEF S!Frndint, Exact
<1>6. ASSUME Fscale
      PROVE  S!Fscale
  BY <1>1, <1>2, <1>6, Replaces, TablesTyped DEF Fscale, S!Fscale
<1>7. ASSUME Fcompp, Ordered(Register(0), Register(1))
      PROVE  S!Fcompp
  <2>1. Has(2) /\ PopTwo /\ Compares(Register(0), Register(1))
    BY <1>7 DEF Fcompp
  <2>2. Stack' = Tail(Tail(Stack))
    BY <2>1, ComparesTyped, ShrinksTwice
  <2>3. S!Compares(Register(0), Register(1))
    BY <1>1, <1>2, <1>7, <2>1, ComparesInOrder
  <2> QED
    BY <1>1, <1>2, <2>1, <2>2, <2>3 DEF S!Fcompp
<1>8. ASSUME Ftst, Ordered(Register(0), Zero)
      PROVE  S!Ftst
  <2>1. Has(1) /\ Zero \in Value /\ S!Compares(Register(0), Zero)
    BY <1>1, <1>8, OperandsTyped, ComparesInOrder DEF Ftst
  <2> QED
    BY <1>1, <1>8, <2>1 DEF Ftst, Keep, Compares, S!Ftst
<1> QED
  BY <1>3, <1>4, <1>5, <1>6, <1>7, <1>8 DEF TopSteps

LEMMA ControlStepsHold ==
  ASSUME TypeOK
  PROVE  ControlSteps
<1>1. Fnstsw => S!Fnstsw
  BY Stores DEF Fnstsw, S!Fnstsw
<1>2. Fnstcw => S!Fnstcw
  BY Stores DEF Fnstcw, S!Fnstcw
<1>3. ASSUME NEW m \in Mode, Fldcw(m)
      PROVE  S!Fldcw(m)
  BY <1>3 DEF Fldcw, S!Fldcw, S!Nothing
<1>4. Fninit => S!Fninit
  <2> SUFFICES ASSUME Fninit PROVE S!Fninit
    OBVIOUS
  <2>1. Stack' = <<>>
    BY DEF Fninit, StackAt
  <2> QED
    BY <2>1 DEF Fninit, S!Fninit, S!Nothing
<1> QED
  BY <1>1, <1>2, <1>3, <1>4 DEF ControlSteps

\* For every ring, value and table, from any garbage in the fields, every
\* instruction but the exceptions does to the guest's stack, condition and
\* memory what its compiler expects.
THEOREM FPUImplementsStack == Spec => ImplementsStack
<1>1. TypeOK => (\A i \in Index : RegisterSteps(i)) /\ MemorySteps /\ TopSteps /\ ControlSteps
  BY RegisterStepsHold, MemoryStepsHold, TopStepsHold, ControlStepsHold
<1> QED
  BY <1>1, FPUTypeCorrect, PTL DEF ImplementsStack

\* What the guest believes is on the stack and ST(0)'s number move together, in
\* every instruction but fyl2x and fninit.
THEOREM FPUOnlyLogarithmDrifts == Spec => OnlyLogarithmDrifts
<1>1. ASSUME TypeOK, [Next]_fpuVars
      PROVE  [Fyl2x \/ Fninit \/ (top' + depth') % Registers = (top + depth) % Registers]_fpuVars
  <2>1. Registers \in Nat /\ Registers > 1 /\ top \in 0..(Registers - 1) /\ depth \in 0..Registers
    BY <1>1, RegistersAssumption DEF TypeOK, Index
  <2>2. CASE top' = DecrementTop(top) /\ depth' = depth + 1
    BY <2>1, <2>2 DEF DecrementTop
  <2>3. CASE top' = IncrementTop(top) /\ depth' = depth - 1
    BY <2>1, <2>3 DEF IncrementTop
  <2>4. CASE top' = IncrementTop(IncrementTop(top)) /\ depth' = depth - 2
    BY <2>1, <2>4 DEF IncrementTop
  <2>5. CASE top' = top /\ depth' = depth
    BY <2>5
  <2>6. CASE UNCHANGED fpuVars
    BY <2>6 DEF fpuVars
  <2>7. ASSUME NEW i \in Index, OnRegister(i)
        PROVE  \/ top' = DecrementTop(top) /\ depth' = depth + 1
               \/ top' = IncrementTop(top) /\ depth' = depth - 1
               \/ top' = top /\ depth' = depth
    BY <2>7 DEF OnRegister, FldRegister, FstpRegister, Fxch, FmulTop, FdivTop, FsubTop, FsubRegister,
                Faddp, Fmulp, Fsubp, Fdivp, FcompRegister, PopOne, Push, Replace, ReplaceAndPop
  <2>8. ASSUME OnMemory
        PROVE  \/ top' = DecrementTop(top) /\ depth' = depth + 1
               \/ top' = IncrementTop(top) /\ depth' = depth - 1
               \/ top' = top /\ depth' = depth
    BY <2>8 DEF OnMemory, FldMemory, Fild, FstMemory, FstpMemory, Fistp, ArithSingle, ArithDouble,
                FdivrMemory, FcomMemory, FcompMemory, Keep, PopOne, Push, Replace, Store, StoreAndPop
  <2>9. ASSUME OnTop
        PROVE  \/ top' = DecrementTop(top) /\ depth' = depth + 1
               \/ top' = IncrementTop(IncrementTop(top)) /\ depth' = depth - 2
               \/ top' = top /\ depth' = depth
               \/ Fyl2x
    BY <2>9 DEF OnTop, FldConstant, UnaryTop, Frndint, Fscale, Fcompp, Ftst, Keep, PopTwo, Push, Replace
  <2>10. ASSUME OnControl
         PROVE  (top' = top /\ depth' = depth) \/ Fninit
    BY <2>10 DEF OnControl, Fnstsw, Fnstcw, Fldcw, Store
  <2>11. CASE Fyl2x \/ Fninit
    BY <2>11
  <2> QED
    BY <1>1, <2>2, <2>3, <2>4, <2>5, <2>6, <2>7, <2>8, <2>9, <2>10, <2>11 DEF Next
<1> QED
  BY <1>1, FPUTypeCorrect, PTL DEF Spec, OnlyLogarithmDrifts
================================================================================
