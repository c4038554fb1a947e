------------------------------ MODULE IdiomsProofs ------------------------------
(***************************************************************************)
(* The idioms stay well typed for every width table with a byte of 8 bits,  *)
(* every memory size and every choice of operands.  First which action an   *)
(* instruction is and what it leaves, then the code of each idiom and what  *)
(* it is given, then the invariant that no instruction of any of them breaks.*)
(* Last, what one instruction makes of registers and flags, and that code   *)
(* without jumps and repeats goes through such states one after the other.  *)
(***************************************************************************)
EXTENDS Idioms, AluProofs

--------------------------------------------------------------------------------
(* Which action an instruction is *)

\* Each action runs the instructions of its own names only.
LEMMA ActionNames ==
  /\ TwoOperandInstruction => Runs({"add", "adc", "sub", "sbb", "and", "or", "xor"})
  /\ CompareInstruction => Runs({"cmp", "test"})
  /\ ImmediateInstruction => Runs({"81"})
  /\ ShortImmediateInstruction => Runs({"83"})
  /\ OneOperandInstruction => Runs({"inc", "dec", "not", "neg"})
  /\ ShiftInstruction => Runs({"shl", "shr", "sar", "rol", "ror", "rcl", "rcr"})
  /\ MoveInstruction => Runs({"mov", "movzx", "movsx"})
  /\ ExchangeInstruction => Runs({"xchg"})
  /\ MultiplyInstruction => Runs({"mul", "imul"})
  /\ MultiplyToRegister => Runs({"imulTo"})
  /\ DivideInstruction => Runs({"div"})
  /\ SignedDivideInstruction => Runs({"idiv"})
  /\ ExtendInstruction => Runs({"cbw"})
  /\ SpreadInstruction => Runs({"cwd"})
  /\ DecimalInstruction => Runs({"daa", "das", "aaa", "aas", "aam", "aad"})
  /\ JumpIf => Runs({"j"})
  /\ MoveIf => Runs({"cmov"})
  /\ SetIf => Runs({"set"})
  /\ FlagInstruction => Runs({"cld", "std", "cmc"})
  /\ SkipRepeat => Runs({"movs", "stos", "lods", "scas", "cmps"})
  /\ Movs => Runs({"movs"})
  /\ Stos => Runs({"stos"})
  /\ Lods => Runs({"lods"})
  /\ Scas => Runs({"scas"})
  /\ Cmps => Runs({"cmps"})
BY Zenon DEF TwoOperandInstruction, CompareInstruction, ImmediateInstruction, ShortImmediateInstruction,
       OneOperandInstruction, ShiftInstruction, MoveInstruction, ExchangeInstruction, MultiplyInstruction,
       MultiplyToRegister, DivideInstruction, SignedDivideInstruction, ExtendInstruction, SpreadInstruction,
       DecimalInstruction, JumpIf, MoveIf, SetIf, FlagInstruction, SkipRepeat, Movs, Stos, Lods, Scas, Cmps,
       StringRuns

\* What runs when the instruction at pc has a name.
Acts(name) ==
  /\ name \in {"add", "adc", "sub", "sbb", "and", "or", "xor"} => TwoOperandInstruction
  /\ name \in {"cmp", "test"} => CompareInstruction
  /\ name \in {"81"} => ImmediateInstruction
  /\ name \in {"83"} => ShortImmediateInstruction
  /\ name \in {"inc", "dec", "not", "neg"} => OneOperandInstruction
  /\ name \in {"shl", "shr", "sar", "rol", "ror", "rcl", "rcr"} => ShiftInstruction
  /\ name \in {"mov", "movzx", "movsx"} => MoveInstruction
  /\ name \in {"xchg"} => ExchangeInstruction
  /\ name \in {"mul", "imul"} => MultiplyInstruction
  /\ name \in {"imulTo"} => MultiplyToRegister
  /\ name \in {"div"} => DivideInstruction
  /\ name \in {"idiv"} => SignedDivideInstruction
  /\ name \in {"cbw"} => ExtendInstruction
  /\ name \in {"cwd"} => SpreadInstruction
  /\ name \in {"daa", "das", "aaa", "aas", "aam", "aad"} => DecimalInstruction
  /\ name \in {"j"} => JumpIf
  /\ name \in {"cmov"} => MoveIf
  /\ name \in {"set"} => SetIf
  /\ name \in {"cld", "std", "cmc"} => FlagInstruction
  /\ name \in {"movs"} => SkipRepeat \/ Movs
  /\ name \in {"stos"} => SkipRepeat \/ Stos
  /\ name \in {"lods"} => SkipRepeat \/ Lods
  /\ name \in {"scas"} => SkipRepeat \/ Scas
  /\ name \in {"cmps"} => SkipRepeat \/ Cmps

LEMMA Executes ==
  ASSUME Execute
  PROVE  outcome = "running" /\ pc <= Len(code) /\ Acts(Instruction.op)
<1> DEFINE name == Instruction.op
<1>1. \/ TwoOperandInstruction \/ CompareInstruction
      \/ ImmediateInstruction \/ ShortImmediateInstruction
      \/ OneOperandInstruction \/ ShiftInstruction
      \/ MoveInstruction \/ ExchangeInstruction
      \/ MultiplyInstruction \/ MultiplyToRegister \/ DivideInstruction \/ SignedDivideInstruction
      \/ ExtendInstruction \/ SpreadInstruction \/ DecimalInstruction
      \/ JumpIf \/ MoveIf \/ SetIf \/ FlagInstruction
      \/ SkipRepeat \/ Movs \/ Stos \/ Lods \/ Scas \/ Cmps
  BY Zenon DEF Execute
<1>2. \A names : Runs(names) => outcome = "running" /\ pc <= Len(code) /\ name \in names
  BY DEF Runs
<1> HIDE DEF name
<1>3. TwoOperandInstruction => outcome = "running" /\ pc <= Len(code) /\ name \in {"add", "adc", "sub", "sbb", "and", "or", "xor"}
  BY <1>2, ActionNames, Zenon
<1>4. CompareInstruction => outcome = "running" /\ pc <= Len(code) /\ name \in {"cmp", "test"}
  BY <1>2, ActionNames, Zenon
<1>5. ImmediateInstruction => outcome = "running" /\ pc <= Len(code) /\ name \in {"81"}
  BY <1>2, ActionNames, Zenon
<1>6. ShortImmediateInstruction => outcome = "running" /\ pc <= Len(code) /\ name \in {"83"}
  BY <1>2, ActionNames, Zenon
<1>7. OneOperandInstruction => outcome = "running" /\ pc <= Len(code) /\ name \in {"inc", "dec", "not", "neg"}
  BY <1>2, ActionNames, Zenon
<1>8. ShiftInstruction => outcome = "running" /\ pc <= Len(code) /\ name \in {"shl", "shr", "sar", "rol", "ror", "rcl", "rcr"}
  BY <1>2, ActionNames, Zenon
<1>9. MoveInstruction => outcome = "running" /\ pc <= Len(code) /\ name \in {"mov", "movzx", "movsx"}
  BY <1>2, ActionNames, Zenon
<1>10. ExchangeInstruction => outcome = "running" /\ pc <= Len(code) /\ name \in {"xchg"}
  BY <1>2, ActionNames, Zenon
<1>11. MultiplyInstruction => outcome = "running" /\ pc <= Len(code) /\ name \in {"mul", "imul"}
  BY <1>2, ActionNames, Zenon
<1>12. MultiplyToRegister => outcome = "running" /\ pc <= Len(code) /\ name \in {"imulTo"}
  BY <1>2, ActionNames, Zenon
<1>13. DivideInstruction => outcome = "running" /\ pc <= Len(code) /\ name \in {"div"}
  BY <1>2, ActionNames, Zenon
<1>14. SignedDivideInstruction => outcome = "running" /\ pc <= Len(code) /\ name \in {"idiv"}
  BY <1>2, ActionNames, Zenon
<1>15. ExtendInstruction => outcome = "running" /\ pc <= Len(code) /\ name \in {"cbw"}
  BY <1>2, ActionNames, Zenon
<1>16. SpreadInstruction => outcome = "running" /\ pc <= Len(code) /\ name \in {"cwd"}
  BY <1>2, ActionNames, Zenon
<1>17. DecimalInstruction => outcome = "running" /\ pc <= Len(code) /\ name \in {"daa", "das", "aaa", "aas", "aam", "aad"}
  BY <1>2, ActionNames, Zenon
<1>18. JumpIf => outcome = "running" /\ pc <= Len(code) /\ name \in {"j"}
  BY <1>2, ActionNames, Zenon
<1>19. MoveIf => outcome = "running" /\ pc <= Len(code) /\ name \in {"cmov"}
  BY <1>2, ActionNames, Zenon
<1>20. SetIf => outcome = "running" /\ pc <= Len(code) /\ name \in {"set"}
  BY <1>2, ActionNames, Zenon
<1>21. FlagInstruction => outcome = "running" /\ pc <= Len(code) /\ name \in {"cld", "std", "cmc"}
  BY <1>2, ActionNames, Zenon
<1>22. SkipRepeat => outcome = "running" /\ pc <= Len(code) /\ name \in {"movs", "stos", "lods", "scas", "cmps"}
  BY <1>2, ActionNames, Zenon
<1>23. Movs => outcome = "running" /\ pc <= Len(code) /\ name \in {"movs"}
  BY <1>2, ActionNames, Zenon
<1>24. Stos => outcome = "running" /\ pc <= Len(code) /\ name \in {"stos"}
  BY <1>2, ActionNames, Zenon
<1>25. Lods => outcome = "running" /\ pc <= Len(code) /\ name \in {"lods"}
  BY <1>2, ActionNames, Zenon
<1>26. Scas => outcome = "running" /\ pc <= Len(code) /\ name \in {"scas"}
  BY <1>2, ActionNames, Zenon
<1>27. Cmps => outcome = "running" /\ pc <= Len(code) /\ name \in {"cmps"}
  BY <1>2, ActionNames, Zenon
<1>28. outcome = "running" /\ pc <= Len(code)
  BY Zenon, <1>1, <1>3, <1>4, <1>5, <1>6, <1>7, <1>8, <1>9, <1>10, <1>11, <1>12, <1>13, <1>14, <1>15, <1>16, <1>17, <1>18, <1>19, <1>20, <1>21, <1>22, <1>23, <1>24, <1>25, <1>26, <1>27
<1>29. name \in {"add", "adc", "sub", "sbb", "and", "or", "xor"} => TwoOperandInstruction
  BY <1>1, <1>3, <1>4, <1>5, <1>6, <1>7, <1>8, <1>9, <1>10, <1>11, <1>12, <1>13, <1>14, <1>15, <1>16, <1>17, <1>18, <1>19, <1>20, <1>21, <1>22, <1>23, <1>24, <1>25, <1>26, <1>27
<1>30. name \in {"cmp", "test"} => CompareInstruction
  BY <1>1, <1>3, <1>4, <1>5, <1>6, <1>7, <1>8, <1>9, <1>10, <1>11, <1>12, <1>13, <1>14, <1>15, <1>16, <1>17, <1>18, <1>19, <1>20, <1>21, <1>22, <1>23, <1>24, <1>25, <1>26, <1>27
<1>31. name \in {"81"} => ImmediateInstruction
  BY <1>1, <1>3, <1>4, <1>5, <1>6, <1>7, <1>8, <1>9, <1>10, <1>11, <1>12, <1>13, <1>14, <1>15, <1>16, <1>17, <1>18, <1>19, <1>20, <1>21, <1>22, <1>23, <1>24, <1>25, <1>26, <1>27
<1>32. name \in {"83"} => ShortImmediateInstruction
  BY <1>1, <1>3, <1>4, <1>5, <1>6, <1>7, <1>8, <1>9, <1>10, <1>11, <1>12, <1>13, <1>14, <1>15, <1>16, <1>17, <1>18, <1>19, <1>20, <1>21, <1>22, <1>23, <1>24, <1>25, <1>26, <1>27
<1>33. name \in {"inc", "dec", "not", "neg"} => OneOperandInstruction
  BY <1>1, <1>3, <1>4, <1>5, <1>6, <1>7, <1>8, <1>9, <1>10, <1>11, <1>12, <1>13, <1>14, <1>15, <1>16, <1>17, <1>18, <1>19, <1>20, <1>21, <1>22, <1>23, <1>24, <1>25, <1>26, <1>27
<1>34. name \in {"shl", "shr", "sar", "rol", "ror", "rcl", "rcr"} => ShiftInstruction
  BY <1>1, <1>3, <1>4, <1>5, <1>6, <1>7, <1>8, <1>9, <1>10, <1>11, <1>12, <1>13, <1>14, <1>15, <1>16, <1>17, <1>18, <1>19, <1>20, <1>21, <1>22, <1>23, <1>24, <1>25, <1>26, <1>27
<1>35. name \in {"mov", "movzx", "movsx"} => MoveInstruction
  BY <1>1, <1>3, <1>4, <1>5, <1>6, <1>7, <1>8, <1>9, <1>10, <1>11, <1>12, <1>13, <1>14, <1>15, <1>16, <1>17, <1>18, <1>19, <1>20, <1>21, <1>22, <1>23, <1>24, <1>25, <1>26, <1>27
<1>36. name \in {"xchg"} => ExchangeInstruction
  BY <1>1, <1>3, <1>4, <1>5, <1>6, <1>7, <1>8, <1>9, <1>10, <1>11, <1>12, <1>13, <1>14, <1>15, <1>16, <1>17, <1>18, <1>19, <1>20, <1>21, <1>22, <1>23, <1>24, <1>25, <1>26, <1>27
<1>37. name \in {"mul", "imul"} => MultiplyInstruction
  BY <1>1, <1>3, <1>4, <1>5, <1>6, <1>7, <1>8, <1>9, <1>10, <1>11, <1>12, <1>13, <1>14, <1>15, <1>16, <1>17, <1>18, <1>19, <1>20, <1>21, <1>22, <1>23, <1>24, <1>25, <1>26, <1>27
<1>38. name \in {"imulTo"} => MultiplyToRegister
  BY <1>1, <1>3, <1>4, <1>5, <1>6, <1>7, <1>8, <1>9, <1>10, <1>11, <1>12, <1>13, <1>14, <1>15, <1>16, <1>17, <1>18, <1>19, <1>20, <1>21, <1>22, <1>23, <1>24, <1>25, <1>26, <1>27
<1>39. name \in {"div"} => DivideInstruction
  BY <1>1, <1>3, <1>4, <1>5, <1>6, <1>7, <1>8, <1>9, <1>10, <1>11, <1>12, <1>13, <1>14, <1>15, <1>16, <1>17, <1>18, <1>19, <1>20, <1>21, <1>22, <1>23, <1>24, <1>25, <1>26, <1>27
<1>40. name \in {"idiv"} => SignedDivideInstruction
  BY <1>1, <1>3, <1>4, <1>5, <1>6, <1>7, <1>8, <1>9, <1>10, <1>11, <1>12, <1>13, <1>14, <1>15, <1>16, <1>17, <1>18, <1>19, <1>20, <1>21, <1>22, <1>23, <1>24, <1>25, <1>26, <1>27
<1>41. name \in {"cbw"} => ExtendInstruction
  BY <1>1, <1>3, <1>4, <1>5, <1>6, <1>7, <1>8, <1>9, <1>10, <1>11, <1>12, <1>13, <1>14, <1>15, <1>16, <1>17, <1>18, <1>19, <1>20, <1>21, <1>22, <1>23, <1>24, <1>25, <1>26, <1>27
<1>42. name \in {"cwd"} => SpreadInstruction
  BY <1>1, <1>3, <1>4, <1>5, <1>6, <1>7, <1>8, <1>9, <1>10, <1>11, <1>12, <1>13, <1>14, <1>15, <1>16, <1>17, <1>18, <1>19, <1>20, <1>21, <1>22, <1>23, <1>24, <1>25, <1>26, <1>27
<1>43. name \in {"daa", "das", "aaa", "aas", "aam", "aad"} => DecimalInstruction
  BY <1>1, <1>3, <1>4, <1>5, <1>6, <1>7, <1>8, <1>9, <1>10, <1>11, <1>12, <1>13, <1>14, <1>15, <1>16, <1>17, <1>18, <1>19, <1>20, <1>21, <1>22, <1>23, <1>24, <1>25, <1>26, <1>27
<1>44. name \in {"j"} => JumpIf
  BY <1>1, <1>3, <1>4, <1>5, <1>6, <1>7, <1>8, <1>9, <1>10, <1>11, <1>12, <1>13, <1>14, <1>15, <1>16, <1>17, <1>18, <1>19, <1>20, <1>21, <1>22, <1>23, <1>24, <1>25, <1>26, <1>27
<1>45. name \in {"cmov"} => MoveIf
  BY <1>1, <1>3, <1>4, <1>5, <1>6, <1>7, <1>8, <1>9, <1>10, <1>11, <1>12, <1>13, <1>14, <1>15, <1>16, <1>17, <1>18, <1>19, <1>20, <1>21, <1>22, <1>23, <1>24, <1>25, <1>26, <1>27
<1>46. name \in {"set"} => SetIf
  BY <1>1, <1>3, <1>4, <1>5, <1>6, <1>7, <1>8, <1>9, <1>10, <1>11, <1>12, <1>13, <1>14, <1>15, <1>16, <1>17, <1>18, <1>19, <1>20, <1>21, <1>22, <1>23, <1>24, <1>25, <1>26, <1>27
<1>47. name \in {"cld", "std", "cmc"} => FlagInstruction
  BY <1>1, <1>3, <1>4, <1>5, <1>6, <1>7, <1>8, <1>9, <1>10, <1>11, <1>12, <1>13, <1>14, <1>15, <1>16, <1>17, <1>18, <1>19, <1>20, <1>21, <1>22, <1>23, <1>24, <1>25, <1>26, <1>27
<1>48. name \in {"movs"} => SkipRepeat \/ Movs
  BY <1>1, <1>3, <1>4, <1>5, <1>6, <1>7, <1>8, <1>9, <1>10, <1>11, <1>12, <1>13, <1>14, <1>15, <1>16, <1>17, <1>18, <1>19, <1>20, <1>21, <1>22, <1>23, <1>24, <1>25, <1>26, <1>27
<1>49. name \in {"stos"} => SkipRepeat \/ Stos
  BY <1>1, <1>3, <1>4, <1>5, <1>6, <1>7, <1>8, <1>9, <1>10, <1>11, <1>12, <1>13, <1>14, <1>15, <1>16, <1>17, <1>18, <1>19, <1>20, <1>21, <1>22, <1>23, <1>24, <1>25, <1>26, <1>27
<1>50. name \in {"lods"} => SkipRepeat \/ Lods
  BY <1>1, <1>3, <1>4, <1>5, <1>6, <1>7, <1>8, <1>9, <1>10, <1>11, <1>12, <1>13, <1>14, <1>15, <1>16, <1>17, <1>18, <1>19, <1>20, <1>21, <1>22, <1>23, <1>24, <1>25, <1>26, <1>27
<1>51. name \in {"scas"} => SkipRepeat \/ Scas
  BY <1>1, <1>3, <1>4, <1>5, <1>6, <1>7, <1>8, <1>9, <1>10, <1>11, <1>12, <1>13, <1>14, <1>15, <1>16, <1>17, <1>18, <1>19, <1>20, <1>21, <1>22, <1>23, <1>24, <1>25, <1>26, <1>27
<1>52. name \in {"cmps"} => SkipRepeat \/ Cmps
  BY <1>1, <1>3, <1>4, <1>5, <1>6, <1>7, <1>8, <1>9, <1>10, <1>11, <1>12, <1>13, <1>14, <1>15, <1>16, <1>17, <1>18, <1>19, <1>20, <1>21, <1>22, <1>23, <1>24, <1>25, <1>26, <1>27
<1> QED
  BY <1>28, <1>29, <1>30, <1>31, <1>32, <1>33, <1>34, <1>35, <1>36, <1>37, <1>38, <1>39, <1>40, <1>41, <1>42, <1>43, <1>44, <1>45, <1>46, <1>47, <1>48, <1>49, <1>50, <1>51, <1>52, Zenon DEF Acts, name

--------------------------------------------------------------------------------
(* Registers, arguments and well-formed instructions *)

Widths == {"byte", "word", "dword"}
RegFile == [Register -> Number(Bits["dword"])]

\* A wider number has room for a narrower one, and every width for a byte.
LEMMA WidthFacts ==
  ASSUME NEW w \in Widths
  PROVE  /\ Bits[w] \in Nat /\ Bits[w] > 1 /\ Bits["dword"] - Bits[w] \in Nat
         /\ Bits[w] >= 8 /\ Bits[w] - 8 \in Nat
         /\ Bits["byte"] = 8 /\ 2^Bits["byte"] = 256
<1>1. /\ Bits["byte"] \in Nat /\ Bits["word"] \in Nat /\ Bits["dword"] \in Nat
      /\ Bits["byte"] = 8 /\ 8 < Bits["word"] /\ Bits["word"] < Bits["dword"]
  BY BitsAssumption
<1>2. 2^8 = 256
  OBVIOUS
<1>3. w = "byte" \/ w = "word" \/ w = "dword"
  BY DEF Widths
<1> QED
  BY <1>1, <1>2, <1>3

LEMMA NumbersNest ==
  ASSUME NEW j \in Nat, NEW k \in Nat, j <= k
  PROVE  Number(j) \subseteq Number(k)
<1>1. 2^j \in Int /\ 2^k \in Int /\ 2^j <= 2^k
  BY PowerType, PowerOrder
<1> QED
  BY <1>1 DEF Number

LEMMA NarrowNumbers ==
  ASSUME NEW w \in Widths
  PROVE  /\ Number(Bits[w]) \subseteq Number(Bits["dword"])
         /\ Number(8) \subseteq Number(Bits[w]) /\ Number(8) = 0..255
         /\ Number(Bits[w]) \subseteq Nat /\ 0..255 \subseteq Number(Bits[w])
<1>1. Bits[w] \in Nat /\ Bits["dword"] \in Nat /\ Bits[w] <= Bits["dword"] /\ 8 <= Bits[w]
  BY WidthFacts DEF Widths
<1>2. 2^8 = 256
  OBVIOUS
<1>3. 2^Bits[w] \in Int
  BY <1>1, PowerType
<1>4. Number(Bits[w]) \subseteq Number(Bits["dword"]) /\ Number(8) \subseteq Number(Bits[w])
  BY <1>1, NumbersNest
<1>5. Number(8) = 0..255
  BY <1>2 DEF Number
<1>6. Number(Bits[w]) \subseteq Nat
  BY <1>3 DEF Number
<1> QED
  BY <1>4, <1>5, <1>6

\* beu_store_value_in_arg keeps the upper bits, and puts the whole value in a
\* register that had none.
LEMMA StoredIs ==
  ASSUME NEW file \in RegFile, NEW w \in Widths, NEW arg, arg.reg \in Register,
         NEW value \in Number(Bits[w])
  PROVE  /\ Stored(file, Bits[w], arg, value) \in RegFile
         /\ file[arg.reg] \in Number(Bits[w]) => Stored(file, Bits[w], arg, value) = [file EXCEPT ![arg.reg] = value]
<1> DEFINE k == Bits[w]
           d == Bits["dword"]
           old == file[arg.reg]
           put == (old - Wrap(k, old)) + value
<1>1. k \in Nat /\ d \in Nat /\ d - k \in Nat /\ (d - k) + k = d
  BY WidthFacts DEF Widths
<1>2. old \in Number(d)
  BY DEF RegFile
<1>3. Stored(file, k, arg, value) = [file EXCEPT ![arg.reg] = put]
  BY DEF Stored
<1> HIDE DEF k, d, old
<1>4. put \in Number(d)
  <2>1. CutAt(old, d - k, k, old \div 2^k, old % 2^k)
    BY <1>1, <1>2, Cuts
  <2> DEFINE high == old \div 2^k
             low == old % 2^k
             p == 2^k
  <2>2. high \in Number(d - k) /\ old = high * p + low /\ low \in 0..(p - 1) /\ p \in Int
    BY <1>1, <2>1, PowerType DEF CutAt, Number
  <2>3. value \in Number(k)
    BY DEF k
  <2>4. high * 2^k + value \in Number((d - k) + k)
    BY <1>1, <2>2, <2>3, Joins
  <2>5. high \in Int /\ value \in Int
    BY <1>1, <2>2, <2>3, PowerType DEF Number
  <2>6. put = (old - low) + value
    BY DEF Wrap
  <2> HIDE DEF high, low, p, put
  <2>7. put = high * p + value
    <3> DEFINE e == high * p
    <3>1. e \in Int
      BY <2>2, <2>5
    <3> HIDE DEF e
    <3>2. old = e + low
      BY <2>2 DEF e
    <3>3. put = e + value
      BY <2>2, <2>5, <2>6, <3>1, <3>2
    <3> QED
      BY <3>3 DEF e
  <2> QED
    BY <1>1, <2>4, <2>7 DEF p
<1>5. old \in Number(k) => put = value
  <2> SUFFICES ASSUME old \in Number(k) PROVE put = value
    OBVIOUS
  <2>1. Wrap(k, old) = old
    BY <1>1, WrapSmall
  <2>2. old \in Int /\ value \in Int
    BY <1>1, PowerType DEF Number, k
  <2> QED
    BY <2>1, <2>2
<1> HIDE DEF put
<1>6. [file EXCEPT ![arg.reg] = put] \in RegFile
  BY <1>4 DEF RegFile, d
<1>7. Stored(file, Bits[w], arg, value) = [file EXCEPT ![arg.reg] = put]
  BY <1>3 DEF k
<1> QED
  BY <1>5, <1>6, <1>7 DEF old, k

\* What the interpreter can read an operand from.
RegArg(arg) == "imm" \notin DOMAIN arg /\ arg.reg \in Register
Arg(arg) == RegArg(arg) \/ ("imm" \in DOMAIN arg /\ arg.imm \in Int)

LEMMA LoadType ==
  ASSUME regs \in RegFile, NEW w \in Widths, NEW arg, Arg(arg)
  PROVE  Load(Bits[w], arg) \in Number(Bits[w])
<1>1. Bits[w] \in Nat /\ Bits["dword"] \in Nat
  BY WidthFacts DEF Widths
<1>2. CASE "imm" \in DOMAIN arg
  BY <1>1, <1>2, WrapType DEF Load, Arg, RegArg
<1>3. CASE "imm" \notin DOMAIN arg
  <2>1. arg.reg \in Register
    BY <1>3 DEF Arg, RegArg
  <2>2. regs[arg.reg] \in Number(Bits["dword"])
    BY <2>1 DEF RegFile
  <2>3. regs[arg.reg] \in Int
    BY <1>1, <2>2, PowerType DEF Number
  <2>4. Load(Bits[w], arg) = Wrap(Bits[w], regs[arg.reg])
    BY <1>3 DEF Load
  <2> QED
    BY <1>1, <2>3, <2>4, WrapType
<1> QED
  BY <1>2, <1>3

\* What each action counts on of the instruction it runs.
Bare == {"j", "set", "cld", "std", "cmc", "movs", "stos", "lods", "scas", "cmps"}
WellFormed(i, length) ==
  /\ i.op # "j" => i.w \in Widths
  /\ i.op \notin Bare => RegArg(i.dst) /\ Arg(i.src)
  /\ i.op = "set" => RegArg(i.dst)
  /\ i.op = "xchg" => RegArg(i.src)
  /\ i.op = "imulTo" => RegArg(i.left)
  /\ i.op \in {"81", "83"} => i.digit \in 0..7
  /\ i.op = "j" => i.to \in 1..(length + 1)
  /\ i.op \in {"daa", "das", "aaa", "aas", "aam", "aad"} => i.w = "byte"
Written(whole) == \A i \in 1..Len(whole) : WellFormed(whole[i], Len(whole))

LEMMA Registers ==
  /\ "ax" \in Register /\ "dx" \in Register /\ "bx" \in Register /\ "bp" \in Register
  /\ "ecx" \in Register /\ "esi" \in Register /\ "edi" \in Register
BY DEF Register

LEMMA HalfRange ==
  ASSUME NEW w \in Widths
  PROVE  /\ 2^(Bits[w] - 1) \in Int /\ 2^(Bits[w] - 1) > 0 /\ 2^Bits[w] = 2 * 2^(Bits[w] - 1)
         /\ 2^Bits[w] \in Int /\ 2^Bits[w] >= 256
         /\ 2^(Bits[w] - 1) \in Number(Bits[w]) /\ 2^(Bits[w] - 1) >= 128
<1>1. Bits[w] \in Nat /\ Bits[w] > 0 /\ 7 <= Bits[w] - 1 /\ Bits[w] - 1 \in Nat
  BY WidthFacts
<1>2. 2^7 = 128
  OBVIOUS
<1> DEFINE h == 2^(Bits[w] - 1)
           p == 2^Bits[w]
<1>3. h \in Int /\ h > 0 /\ p = 2 * h /\ h >= 128
  BY <1>1, <1>2, PowerHalf, PowerOrder
<1>4. Number(Bits[w]) = 0..(p - 1)
  BY DEF Number
<1> HIDE DEF h, p
<1>5. h \in 0..(p - 1) /\ p \in Int /\ p >= 256
  BY <1>3
<1> QED
  BY <1>3, <1>4, <1>5 DEF h, p

--------------------------------------------------------------------------------
(* The instructions of every idiom *)

LEMMA AddCode ==
  ASSUME NEW w \in Widths, NEW cc
  PROVE  LET c == Code("add", w, cc) IN
         /\ Written(c) /\ Len(c) = 3
         /\ c[1] = I("add", w, R("ax"), R("bx")) /\ c[2] = I("dec", "dword", R("ecx"), R("ecx"))
         /\ c[3] = I("adc", w, R("dx"), R("bp"))
<1> DEFINE c == Code("add", w, cc)
<1>1. c = <<I("add", w, R("ax"), R("bx")), I("dec", "dword", R("ecx"), R("ecx")),
            I("adc", w, R("dx"), R("bp"))>>
  BY DEF Code, ax, dx, bx, bp, ecx
<1> HIDE DEF c
<1>2. /\ WellFormed(I("add", w, R("ax"), R("bx")), 3)
      /\ WellFormed(I("dec", "dword", R("ecx"), R("ecx")), 3)
      /\ WellFormed(I("adc", w, R("dx"), R("bp")), 3)
  BY Registers DEF WellFormed, Bare, RegArg, Arg, Widths, I, R
<1>3. Written(c)
  BY <1>1, <1>2 DEF Written
<1> QED
  BY <1>1, <1>3 DEF c

LEMMA SubCode ==
  ASSUME NEW w \in Widths, NEW cc
  PROVE  LET c == Code("sub", w, cc) IN
         /\ Written(c) /\ Len(c) = 3
         /\ c[1] = I("sub", w, R("ax"), R("bx")) /\ c[2] = I("inc", "dword", R("ecx"), R("ecx"))
         /\ c[3] = I("sbb", w, R("dx"), R("bp"))
<1> DEFINE c == Code("sub", w, cc)
<1>1. c = <<I("sub", w, R("ax"), R("bx")), I("inc", "dword", R("ecx"), R("ecx")),
            I("sbb", w, R("dx"), R("bp"))>>
  BY DEF Code, ax, dx, bx, bp, ecx
<1> HIDE DEF c
<1>2. /\ WellFormed(I("sub", w, R("ax"), R("bx")), 3)
      /\ WellFormed(I("inc", "dword", R("ecx"), R("ecx")), 3)
      /\ WellFormed(I("sbb", w, R("dx"), R("bp")), 3)
  BY Registers DEF WellFormed, Bare, RegArg, Arg, Widths, I, R
<1>3. Written(c)
  BY <1>1, <1>2 DEF Written
<1> QED
  BY <1>1, <1>3 DEF c

LEMMA NegCode ==
  ASSUME NEW w \in Widths, NEW cc
  PROVE  LET c == Code("neg", w, cc) IN
         /\ Written(c) /\ Len(c) = 3
         /\ c[1] = I("neg", w, R("ax"), R("ax")) /\ c[2] = Digit81(2, w, R("dx"), 0)
         /\ c[3] = I("neg", w, R("dx"), R("dx"))
<1> DEFINE c == Code("neg", w, cc)
<1>1. c = <<I("neg", w, R("ax"), R("ax")), Digit81(2, w, R("dx"), 0), I("neg", w, R("dx"), R("dx"))>>
  BY DEF Code, ax, dx
<1> HIDE DEF c
<1>2. /\ WellFormed(I("neg", w, R("ax"), R("ax")), 3)
      /\ WellFormed(Digit81(2, w, R("dx"), 0), 3)
      /\ WellFormed(I("neg", w, R("dx"), R("dx")), 3)
  BY Registers DEF WellFormed, Bare, RegArg, Arg, Widths, Digit81, I, Imm, R
<1>3. Written(c)
  BY <1>1, <1>2 DEF Written
<1> QED
  BY <1>1, <1>3 DEF c

LEMMA DoubleCode ==
  ASSUME NEW w \in Widths, NEW cc
  PROVE  LET c == Code("double", w, cc) IN
         /\ Written(c) /\ Len(c) = 2
         /\ c[1] = I("shl", w, R("ax"), Imm(1)) /\ c[2] = I("rcl", w, R("dx"), Imm(1))
<1> DEFINE c == Code("double", w, cc)
<1>1. c = <<I("shl", w, R("ax"), Imm(1)), I("rcl", w, R("dx"), Imm(1))>>
  BY DEF Code, ax, dx
<1> HIDE DEF c
<1>2. /\ WellFormed(I("shl", w, R("ax"), Imm(1)), 2)
      /\ WellFormed(I("rcl", w, R("dx"), Imm(1)), 2)
  BY Registers DEF WellFormed, Bare, RegArg, Arg, Widths, I, Imm, R
<1>3. Written(c)
  BY <1>1, <1>2 DEF Written
<1> QED
  BY <1>1, <1>3 DEF c

LEMMA HalveCode ==
  ASSUME NEW w \in Widths, NEW cc
  PROVE  LET c == Code("halve", w, cc) IN
         /\ Written(c) /\ Len(c) = 2
         /\ c[1] = I("sar", w, R("dx"), Imm(1)) /\ c[2] = I("rcr", w, R("ax"), Imm(1))
<1> DEFINE c == Code("halve", w, cc)
<1>1. c = <<I("sar", w, R("dx"), Imm(1)), I("rcr", w, R("ax"), Imm(1))>>
  BY DEF Code, ax, dx
<1> HIDE DEF c
<1>2. /\ WellFormed(I("sar", w, R("dx"), Imm(1)), 2)
      /\ WellFormed(I("rcr", w, R("ax"), Imm(1)), 2)
  BY Registers DEF WellFormed, Bare, RegArg, Arg, Widths, I, Imm, R
<1>3. Written(c)
  BY <1>1, <1>2 DEF Written
<1> QED
  BY <1>1, <1>3 DEF c

LEMMA HalveUnsignedCode ==
  ASSUME NEW w \in Widths, NEW cc
  PROVE  LET c == Code("halveUnsigned", w, cc) IN
         /\ Written(c) /\ Len(c) = 2
         /\ c[1] = I("shr", w, R("dx"), Imm(1)) /\ c[2] = I("rcr", w, R("ax"), Imm(1))
<1> DEFINE c == Code("halveUnsigned", w, cc)
<1>1. c = <<I("shr", w, R("dx"), Imm(1)), I("rcr", w, R("ax"), Imm(1))>>
  BY DEF Code, ax, dx
<1> HIDE DEF c
<1>2. /\ WellFormed(I("shr", w, R("dx"), Imm(1)), 2)
      /\ WellFormed(I("rcr", w, R("ax"), Imm(1)), 2)
  BY Registers DEF WellFormed, Bare, RegArg, Arg, Widths, I, Imm, R
<1>3. Written(c)
  BY <1>1, <1>2 DEF Written
<1> QED
  BY <1>1, <1>3 DEF c

LEMMA RotateCode ==
  ASSUME NEW w \in Widths, NEW cc
  PROVE  LET c == Code("rotate", w, cc) IN
         /\ Written(c) /\ Len(c) = 2
         /\ c[1] = I("rol", w, R("ax"), R("ecx")) /\ c[2] = I("ror", w, R("ax"), R("ecx"))
<1> DEFINE c == Code("rotate", w, cc)
<1>1. c = <<I("rol", w, R("ax"), R("ecx")), I("ror", w, R("ax"), R("ecx"))>>
  BY DEF Code, ax, ecx
<1> HIDE DEF c
<1>2. /\ WellFormed(I("rol", w, R("ax"), R("ecx")), 2)
      /\ WellFormed(I("ror", w, R("ax"), R("ecx")), 2)
  BY Registers DEF WellFormed, Bare, RegArg, Arg, Widths, I, R
<1>3. Written(c)
  BY <1>1, <1>2 DEF Written
<1> QED
  BY <1>1, <1>3 DEF c

LEMMA RotateCarryCode ==
  ASSUME NEW w \in Widths, NEW cc
  PROVE  LET c == Code("rotateCarry", w, cc) IN
         /\ Written(c) /\ Len(c) = 3
         /\ c[1] = Do("cmc") /\ c[2] = I("rcl", w, R("ax"), R("ecx")) /\ c[3] = I("rcr", w, R("ax"), R("ecx"))
<1> DEFINE c == Code("rotateCarry", w, cc)
<1>1. c = <<Do("cmc"), I("rcl", w, R("ax"), R("ecx")), I("rcr", w, R("ax"), R("ecx"))>>
  BY DEF Code, ax, ecx
<1> HIDE DEF c
<1>2. /\ WellFormed(Do("cmc"), 3)
      /\ WellFormed(I("rcl", w, R("ax"), R("ecx")), 3)
      /\ WellFormed(I("rcr", w, R("ax"), R("ecx")), 3)
  BY Registers DEF WellFormed, Bare, RegArg, Arg, Widths, Do, I, R
<1>3. Written(c)
  BY <1>1, <1>2 DEF Written
<1> QED
  BY <1>1, <1>3 DEF c

LEMMA BoolCode ==
  ASSUME NEW w \in Widths, NEW cc
  PROVE  LET c == Code("bool", w, cc) IN
         /\ Written(c) /\ Len(c) = 3
         /\ c[1] = I("neg", w, R("ax"), R("ax")) /\ c[2] = I("sbb", w, R("ax"), R("ax"))
         /\ c[3] = I("neg", w, R("ax"), R("ax"))
<1> DEFINE c == Code("bool", w, cc)
<1>1. c = <<I("neg", w, R("ax"), R("ax")), I("sbb", w, R("ax"), R("ax")), I("neg", w, R("ax"), R("ax"))>>
  BY DEF Code, ax
<1> HIDE DEF c
<1>2. /\ WellFormed(I("neg", w, R("ax"), R("ax")), 3)
      /\ WellFormed(I("sbb", w, R("ax"), R("ax")), 3)
      /\ WellFormed(I("neg", w, R("ax"), R("ax")), 3)
  BY Registers DEF WellFormed, Bare, RegArg, Arg, Widths, I, R
<1>3. Written(c)
  BY <1>1, <1>2 DEF Written
<1> QED
  BY <1>1, <1>3 DEF c

LEMMA BlendCode ==
  ASSUME NEW w \in Widths, NEW cc
  PROVE  LET c == Code("blend", w, cc) IN
         /\ Written(c) /\ Len(c) = 4
         /\ c[1] = I("and", w, R("ax"), R("bx")) /\ c[2] = I("not", w, R("bx"), R("bx"))
         /\ c[3] = I("and", w, R("dx"), R("bx")) /\ c[4] = I("or", w, R("ax"), R("dx"))
<1> DEFINE c == Code("blend", w, cc)
<1>1. c = <<I("and", w, R("ax"), R("bx")), I("not", w, R("bx"), R("bx")), I("and", w, R("dx"), R("bx")),
            I("or", w, R("ax"), R("dx"))>>
  BY DEF Code, ax, dx, bx
<1> HIDE DEF c
<1>2. /\ WellFormed(I("and", w, R("ax"), R("bx")), 4)
      /\ WellFormed(I("not", w, R("bx"), R("bx")), 4)
      /\ WellFormed(I("and", w, R("dx"), R("bx")), 4)
      /\ WellFormed(I("or", w, R("ax"), R("dx")), 4)
  BY Registers DEF WellFormed, Bare, RegArg, Arg, Widths, I, R
<1>3. Written(c)
  BY <1>1, <1>2 DEF Written
<1> QED
  BY <1>1, <1>3 DEF c

LEMMA DecrementCode ==
  ASSUME NEW w \in Widths, NEW cc
  PROVE  LET c == Code("decrement", w, cc) IN
         /\ Written(c) /\ Len(c) = 2
         /\ c[1] = Digit83(0, w, R("ax"), -1) /\ c[2] = Digit83(2, w, R("dx"), -1)
<1> DEFINE c == Code("decrement", w, cc)
<1>1. c = <<Digit83(0, w, R("ax"), -1), Digit83(2, w, R("dx"), -1)>>
  BY DEF Code, ax, dx
<1> HIDE DEF c
<1>2. /\ WellFormed(Digit83(0, w, R("ax"), -1), 2)
      /\ WellFormed(Digit83(2, w, R("dx"), -1), 2)
  BY Registers DEF WellFormed, Bare, RegArg, Arg, Widths, Digit83, Imm, R
<1>3. Written(c)
  BY <1>1, <1>2 DEF Written
<1> QED
  BY <1>1, <1>3 DEF c

LEMMA AlignCode ==
  ASSUME NEW w \in Widths, NEW cc
  PROVE  LET c == Code("align", w, cc) IN
         /\ Written(c) /\ Len(c) = 2
         /\ c[1] = Digit83(0, w, R("ax"), 3) /\ c[2] = Digit83(4, w, R("ax"), -4)
<1> DEFINE c == Code("align", w, cc)
<1>1. c = <<Digit83(0, w, R("ax"), 3), Digit83(4, w, R("ax"), -4)>>
  BY DEF Code, ax
<1> HIDE DEF c
<1>2. /\ WellFormed(Digit83(0, w, R("ax"), 3), 2)
      /\ WellFormed(Digit83(4, w, R("ax"), -4), 2)
  BY Registers DEF WellFormed, Bare, RegArg, Arg, Widths, Digit83, Imm, R
<1>3. Written(c)
  BY <1>1, <1>2 DEF Written
<1> QED
  BY <1>1, <1>3 DEF c

LEMMA FullCode ==
  ASSUME NEW w \in Widths, NEW cc
  PROVE  LET c == Code("full", w, cc) IN
         /\ Written(c) /\ Len(c) = 2
         /\ c[1] = Digit83(7, w, R("ax"), -1) /\ c[2] = Set("z", R("bx"))
<1> DEFINE c == Code("full", w, cc)
<1>1. c = <<Digit83(7, w, R("ax"), -1), Set("z", R("bx"))>>
  BY DEF Code, ax, bx
<1> HIDE DEF c
<1>2. /\ WellFormed(Digit83(7, w, R("ax"), -1), 2)
      /\ WellFormed(Set("z", R("bx")), 2)
  BY Registers DEF WellFormed, Bare, RegArg, Arg, Widths, Digit83, Imm, R, Set
<1>3. Written(c)
  BY <1>1, <1>2 DEF Written
<1> QED
  BY <1>1, <1>3 DEF c

LEMMA PositiveCode ==
  ASSUME NEW w \in Widths, NEW cc
  PROVE  LET c == Code("positive", w, cc) IN
         /\ Written(c) /\ Len(c) = 2
         /\ c[1] = Digit81(1, w, R("ax"), 2^(Bits[w] - 1)) /\ c[2] = Digit81(6, w, R("ax"), 2^(Bits[w] - 1))
<1> DEFINE c == Code("positive", w, cc)
<1>1. c = <<Digit81(1, w, R("ax"), 2^(Bits[w] - 1)), Digit81(6, w, R("ax"), 2^(Bits[w] - 1))>>
  BY DEF Code, ax
<1> HIDE DEF c
<1>2. /\ WellFormed(Digit81(1, w, R("ax"), 2^(Bits[w] - 1)), 2)
      /\ WellFormed(Digit81(6, w, R("ax"), 2^(Bits[w] - 1)), 2)
  BY Registers, HalfRange DEF WellFormed, Bare, RegArg, Arg, Widths, Digit81, Imm, R
<1>3. Written(c)
  BY <1>1, <1>2 DEF Written
<1> QED
  BY <1>1, <1>3 DEF c

LEMMA ReduceCode ==
  ASSUME NEW w \in Widths, NEW cc
  PROVE  LET c == Code("reduce", w, cc) IN
         /\ Written(c) /\ Len(c) = 2
         /\ c[1] = Digit81(5, w, R("ax"), 2^(Bits[w] - 1)) /\ c[2] = Digit81(3, w, R("dx"), 1)
<1> DEFINE c == Code("reduce", w, cc)
<1>1. c = <<Digit81(5, w, R("ax"), 2^(Bits[w] - 1)), Digit81(3, w, R("dx"), 1)>>
  BY DEF Code, ax, dx
<1> HIDE DEF c
<1>2. /\ WellFormed(Digit81(5, w, R("ax"), 2^(Bits[w] - 1)), 2)
      /\ WellFormed(Digit81(3, w, R("dx"), 1), 2)
  BY Registers, HalfRange DEF WellFormed, Bare, RegArg, Arg, Widths, Digit81, Imm, R
<1>3. Written(c)
  BY <1>1, <1>2 DEF Written
<1> QED
  BY <1>1, <1>3 DEF c

LEMMA CompareCode ==
  ASSUME NEW w \in Widths, NEW cc
  PROVE  LET c == Code("compare", w, cc) IN
         /\ Written(c) /\ Len(c) = 6
         /\ c[1] = I("cmp", w, R("ax"), R("bx")) /\ c[2] = Set(cc, R("bp"))
         /\ c[3] = Cmov(cc, R("dx"), R("bx")) /\ c[4] = J(cc, 6) /\ c[5] = I("mov", "dword", R("ecx"), Imm(7))
         /\ c[6] = I("movzx", "dword", R("esi"), R("bp"))
<1> DEFINE c == Code("compare", w, cc)
<1>1. c = <<I("cmp", w, R("ax"), R("bx")), Set(cc, R("bp")), Cmov(cc, R("dx"), R("bx")), J(cc, 6),
            I("mov", "dword", R("ecx"), Imm(7)), I("movzx", "dword", R("esi"), R("bp"))>>
  BY DEF Code, ax, dx, bx, bp, ecx, esi
<1> HIDE DEF c
<1>2. /\ WellFormed(I("cmp", w, R("ax"), R("bx")), 6)
      /\ WellFormed(Set(cc, R("bp")), 6)
      /\ WellFormed(Cmov(cc, R("dx"), R("bx")), 6)
      /\ WellFormed(J(cc, 6), 6)
      /\ WellFormed(I("mov", "dword", R("ecx"), Imm(7)), 6)
      /\ WellFormed(I("movzx", "dword", R("esi"), R("bp")), 6)
  BY Registers DEF WellFormed, Bare, RegArg, Arg, Widths, Cmov, I, Imm, J, R, Set
<1>3. Written(c)
  BY <1>1, <1>2 DEF Written
<1> QED
  BY <1>1, <1>3 DEF c

LEMMA MulCode ==
  ASSUME NEW w \in Widths, NEW cc
  PROVE  LET c == Code("mul", w, cc) IN
         /\ Written(c) /\ Len(c) = 1
         /\ c[1] = I("mul", w, R("ax"), R("bx"))
<1> DEFINE c == Code("mul", w, cc)
<1>1. c = <<I("mul", w, R("ax"), R("bx"))>>
  BY DEF Code, ax, bx
<1> HIDE DEF c
<1>2. /\ WellFormed(I("mul", w, R("ax"), R("bx")), 1)
  BY Registers DEF WellFormed, Bare, RegArg, Arg, Widths, I, R
<1>3. Written(c)
  BY <1>1, <1>2 DEF Written
<1> QED
  BY <1>1, <1>3 DEF c

LEMMA MulDivCode ==
  ASSUME NEW w \in Widths, NEW cc
  PROVE  LET c == Code("mulDiv", w, cc) IN
         /\ Written(c) /\ Len(c) = 2
         /\ c[1] = I("mul", w, R("ax"), R("bx")) /\ c[2] = I("div", w, R("ax"), R("bp"))
<1> DEFINE c == Code("mulDiv", w, cc)
<1>1. c = <<I("mul", w, R("ax"), R("bx")), I("div", w, R("ax"), R("bp"))>>
  BY DEF Code, ax, bx, bp
<1> HIDE DEF c
<1>2. /\ WellFormed(I("mul", w, R("ax"), R("bx")), 2)
      /\ WellFormed(I("div", w, R("ax"), R("bp")), 2)
  BY Registers DEF WellFormed, Bare, RegArg, Arg, Widths, I, R
<1>3. Written(c)
  BY <1>1, <1>2 DEF Written
<1> QED
  BY <1>1, <1>3 DEF c

LEMMA ImulIdivCode ==
  ASSUME NEW w \in Widths, NEW cc
  PROVE  LET c == Code("imulIdiv", w, cc) IN
         /\ Written(c) /\ Len(c) = 2
         /\ c[1] = I("imul", w, R("ax"), R("bx")) /\ c[2] = I("idiv", w, R("ax"), R("bp"))
<1> DEFINE c == Code("imulIdiv", w, cc)
<1>1. c = <<I("imul", w, R("ax"), R("bx")), I("idiv", w, R("ax"), R("bp"))>>
  BY DEF Code, ax, bx, bp
<1> HIDE DEF c
<1>2. /\ WellFormed(I("imul", w, R("ax"), R("bx")), 2)
      /\ WellFormed(I("idiv", w, R("ax"), R("bp")), 2)
  BY Registers DEF WellFormed, Bare, RegArg, Arg, Widths, I, R
<1>3. Written(c)
  BY <1>1, <1>2 DEF Written
<1> QED
  BY <1>1, <1>3 DEF c

LEMMA ScaleCode ==
  ASSUME NEW w \in Widths, NEW cc
  PROVE  LET c == Code("scale", w, cc) IN
         /\ Written(c) /\ Len(c) = 2
         /\ c[1] = I("movsx", w, R("ax"), R("ax")) /\ c[2] = I("imul", w, R("ax"), R("bx"))
<1> DEFINE c == Code("scale", w, cc)
<1>1. c = <<I("movsx", w, R("ax"), R("ax")), I("imul", w, R("ax"), R("bx"))>>
  BY DEF Code, ax, bx
<1> HIDE DEF c
<1>2. /\ WellFormed(I("movsx", w, R("ax"), R("ax")), 2)
      /\ WellFormed(I("imul", w, R("ax"), R("bx")), 2)
  BY Registers DEF WellFormed, Bare, RegArg, Arg, Widths, I, R
<1>3. Written(c)
  BY <1>1, <1>2 DEF Written
<1> QED
  BY <1>1, <1>3 DEF c

LEMMA SquareCode ==
  ASSUME NEW w \in Widths, NEW cc
  PROVE  LET c == Code("square", w, cc) IN
         /\ Written(c) /\ Len(c) = 1
         /\ c[1] = [op |-> "imulTo", w |-> w, left |-> R("bx"), dst |-> R("ax"), src |-> R("bx")]
<1> DEFINE c == Code("square", w, cc)
<1>1. c = <<[op |-> "imulTo", w |-> w, left |-> R("bx"), dst |-> R("ax"), src |-> R("bx")]>>
  BY DEF Code, ax, bx
<1> HIDE DEF c
<1>2. /\ WellFormed([op |-> "imulTo", w |-> w, left |-> R("bx"), dst |-> R("ax"), src |-> R("bx")], 1)
  BY Registers DEF WellFormed, Bare, RegArg, Arg, Widths, R
<1>3. Written(c)
  BY <1>1, <1>2 DEF Written
<1> QED
  BY <1>1, <1>3 DEF c

LEMMA IdivCode ==
  ASSUME NEW w \in Widths, NEW cc
  PROVE  LET c == Code("idiv", w, cc) IN
         /\ Written(c) /\ Len(c) = 2
         /\ c[1] = I("cwd", w, R("ax"), R("ax")) /\ c[2] = I("idiv", w, R("ax"), R("bx"))
<1> DEFINE c == Code("idiv", w, cc)
<1>1. c = <<I("cwd", w, R("ax"), R("ax")), I("idiv", w, R("ax"), R("bx"))>>
  BY DEF Code, ax, bx
<1> HIDE DEF c
<1>2. /\ WellFormed(I("cwd", w, R("ax"), R("ax")), 2)
      /\ WellFormed(I("idiv", w, R("ax"), R("bx")), 2)
  BY Registers DEF WellFormed, Bare, RegArg, Arg, Widths, I, R
<1>3. Written(c)
  BY <1>1, <1>2 DEF Written
<1> QED
  BY <1>1, <1>3 DEF c

LEMMA QuarterCode ==
  ASSUME NEW w \in Widths, NEW cc
  PROVE  LET c == Code("quarter", w, cc) IN
         /\ Written(c) /\ Len(c) = 4
         /\ c[1] = I("cwd", w, R("ax"), R("ax")) /\ c[2] = Digit83(4, w, R("dx"), 3)
         /\ c[3] = I("add", w, R("ax"), R("dx")) /\ c[4] = I("sar", w, R("ax"), Imm(2))
<1> DEFINE c == Code("quarter", w, cc)
<1>1. c = <<I("cwd", w, R("ax"), R("ax")), Digit83(4, w, R("dx"), 3), I("add", w, R("ax"), R("dx")),
            I("sar", w, R("ax"), Imm(2))>>
  BY DEF Code, ax, dx
<1> HIDE DEF c
<1>2. /\ WellFormed(I("cwd", w, R("ax"), R("ax")), 4)
      /\ WellFormed(Digit83(4, w, R("dx"), 3), 4)
      /\ WellFormed(I("add", w, R("ax"), R("dx")), 4)
      /\ WellFormed(I("sar", w, R("ax"), Imm(2)), 4)
  BY Registers DEF WellFormed, Bare, RegArg, Arg, Widths, Digit83, I, Imm, R
<1>3. Written(c)
  BY <1>1, <1>2 DEF Written
<1> QED
  BY <1>1, <1>3 DEF c

LEMMA AbsCode ==
  ASSUME NEW w \in Widths, NEW cc
  PROVE  LET c == Code("abs", w, cc) IN
         /\ Written(c) /\ Len(c) = 3
         /\ c[1] = I("cwd", w, R("ax"), R("ax")) /\ c[2] = I("xor", w, R("ax"), R("dx"))
         /\ c[3] = I("sub", w, R("ax"), R("dx"))
<1> DEFINE c == Code("abs", w, cc)
<1>1. c = <<I("cwd", w, R("ax"), R("ax")), I("xor", w, R("ax"), R("dx")), I("sub", w, R("ax"), R("dx"))>>
  BY DEF Code, ax, dx
<1> HIDE DEF c
<1>2. /\ WellFormed(I("cwd", w, R("ax"), R("ax")), 3)
      /\ WellFormed(I("xor", w, R("ax"), R("dx")), 3)
      /\ WellFormed(I("sub", w, R("ax"), R("dx")), 3)
  BY Registers DEF WellFormed, Bare, RegArg, Arg, Widths, I, R
<1>3. Written(c)
  BY <1>1, <1>2 DEF Written
<1> QED
  BY <1>1, <1>3 DEF c

LEMMA ExtendCode ==
  ASSUME NEW w \in Widths, NEW cc
  PROVE  LET c == Code("extend", w, cc) IN
         /\ Written(c) /\ Len(c) = 1
         /\ c[1] = I("cbw", w, R("ax"), R("ax"))
<1> DEFINE c == Code("extend", w, cc)
<1>1. c = <<I("cbw", w, R("ax"), R("ax"))>>
  BY DEF Code, ax
<1> HIDE DEF c
<1>2. /\ WellFormed(I("cbw", w, R("ax"), R("ax")), 1)
  BY Registers DEF WellFormed, Bare, RegArg, Arg, Widths, I, R
<1>3. Written(c)
  BY <1>1, <1>2 DEF Written
<1> QED
  BY <1>1, <1>3 DEF c

LEMMA DaaCode ==
  ASSUME NEW w \in Widths, NEW cc
  PROVE  LET c == Code("daa", w, cc) IN
         /\ Written(c) /\ Len(c) = 5
         /\ c[1] = I("add", w, R("ax"), R("bx")) /\ c[2] = I("daa", "byte", R("ax"), R("ax"))
         /\ c[3] = I("xchg", w, R("ax"), R("dx")) /\ c[4] = I("adc", w, R("ax"), R("bp"))
         /\ c[5] = I("daa", "byte", R("ax"), R("ax"))
<1> DEFINE c == Code("daa", w, cc)
<1>1. c = <<I("add", w, R("ax"), R("bx")), I("daa", "byte", R("ax"), R("ax")), I("xchg", w, R("ax"), R("dx")),
            I("adc", w, R("ax"), R("bp")), I("daa", "byte", R("ax"), R("ax"))>>
  BY DEF Code, ax, dx, bx, bp, Al
<1> HIDE DEF c
<1>2. /\ WellFormed(I("add", w, R("ax"), R("bx")), 5)
      /\ WellFormed(I("daa", "byte", R("ax"), R("ax")), 5)
      /\ WellFormed(I("xchg", w, R("ax"), R("dx")), 5)
      /\ WellFormed(I("adc", w, R("ax"), R("bp")), 5)
      /\ WellFormed(I("daa", "byte", R("ax"), R("ax")), 5)
  BY Registers DEF WellFormed, Bare, RegArg, Arg, Widths, I, R
<1>3. Written(c)
  BY <1>1, <1>2 DEF Written
<1> QED
  BY <1>1, <1>3 DEF c

LEMMA DasCode ==
  ASSUME NEW w \in Widths, NEW cc
  PROVE  LET c == Code("das", w, cc) IN
         /\ Written(c) /\ Len(c) = 5
         /\ c[1] = I("sub", w, R("ax"), R("bx")) /\ c[2] = I("das", "byte", R("ax"), R("ax"))
         /\ c[3] = I("xchg", w, R("ax"), R("dx")) /\ c[4] = I("sbb", w, R("ax"), R("bp"))
         /\ c[5] = I("das", "byte", R("ax"), R("ax"))
<1> DEFINE c == Code("das", w, cc)
<1>1. c = <<I("sub", w, R("ax"), R("bx")), I("das", "byte", R("ax"), R("ax")), I("xchg", w, R("ax"), R("dx")),
            I("sbb", w, R("ax"), R("bp")), I("das", "byte", R("ax"), R("ax"))>>
  BY DEF Code, ax, dx, bx, bp, Al
<1> HIDE DEF c
<1>2. /\ WellFormed(I("sub", w, R("ax"), R("bx")), 5)
      /\ WellFormed(I("das", "byte", R("ax"), R("ax")), 5)
      /\ WellFormed(I("xchg", w, R("ax"), R("dx")), 5)
      /\ WellFormed(I("sbb", w, R("ax"), R("bp")), 5)
      /\ WellFormed(I("das", "byte", R("ax"), R("ax")), 5)
  BY Registers DEF WellFormed, Bare, RegArg, Arg, Widths, I, R
<1>3. Written(c)
  BY <1>1, <1>2 DEF Written
<1> QED
  BY <1>1, <1>3 DEF c

LEMMA AaaCode ==
  ASSUME NEW w \in Widths, NEW cc
  PROVE  LET c == Code("aaa", w, cc) IN
         /\ Written(c) /\ Len(c) = 2
         /\ c[1] = I("add", w, R("ax"), R("bx")) /\ c[2] = I("aaa", "byte", R("ax"), R("ax"))
<1> DEFINE c == Code("aaa", w, cc)
<1>1. c = <<I("add", w, R("ax"), R("bx")), I("aaa", "byte", R("ax"), R("ax"))>>
  BY DEF Code, ax, bx, Al
<1> HIDE DEF c
<1>2. /\ WellFormed(I("add", w, R("ax"), R("bx")), 2)
      /\ WellFormed(I("aaa", "byte", R("ax"), R("ax")), 2)
  BY Registers DEF WellFormed, Bare, RegArg, Arg, Widths, I, R
<1>3. Written(c)
  BY <1>1, <1>2 DEF Written
<1> QED
  BY <1>1, <1>3 DEF c

LEMMA AasCode ==
  ASSUME NEW w \in Widths, NEW cc
  PROVE  LET c == Code("aas", w, cc) IN
         /\ Written(c) /\ Len(c) = 2
         /\ c[1] = I("sub", w, R("ax"), R("bx")) /\ c[2] = I("aas", "byte", R("ax"), R("ax"))
<1> DEFINE c == Code("aas", w, cc)
<1>1. c = <<I("sub", w, R("ax"), R("bx")), I("aas", "byte", R("ax"), R("ax"))>>
  BY DEF Code, ax, bx, Al
<1> HIDE DEF c
<1>2. /\ WellFormed(I("sub", w, R("ax"), R("bx")), 2)
      /\ WellFormed(I("aas", "byte", R("ax"), R("ax")), 2)
  BY Registers DEF WellFormed, Bare, RegArg, Arg, Widths, I, R
<1>3. Written(c)
  BY <1>1, <1>2 DEF Written
<1> QED
  BY <1>1, <1>3 DEF c

LEMMA AamCode ==
  ASSUME NEW w \in Widths, NEW cc
  PROVE  LET c == Code("aam", w, cc) IN
         /\ Written(c) /\ Len(c) = 2
         /\ c[1] = I("mul", w, R("ax"), R("bx")) /\ c[2] = I("aam", "byte", R("ax"), R("ax"))
<1> DEFINE c == Code("aam", w, cc)
<1>1. c = <<I("mul", w, R("ax"), R("bx")), I("aam", "byte", R("ax"), R("ax"))>>
  BY DEF Code, ax, bx, Al
<1> HIDE DEF c
<1>2. /\ WellFormed(I("mul", w, R("ax"), R("bx")), 2)
      /\ WellFormed(I("aam", "byte", R("ax"), R("ax")), 2)
  BY Registers DEF WellFormed, Bare, RegArg, Arg, Widths, I, R
<1>3. Written(c)
  BY <1>1, <1>2 DEF Written
<1> QED
  BY <1>1, <1>3 DEF c

LEMMA AadCode ==
  ASSUME NEW w \in Widths, NEW cc
  PROVE  LET c == Code("aad", w, cc) IN
         /\ Written(c) /\ Len(c) = 2
         /\ c[1] = I("aad", "byte", R("ax"), R("ax")) /\ c[2] = I("div", w, R("ax"), R("bx"))
<1> DEFINE c == Code("aad", w, cc)
<1>1. c = <<I("aad", "byte", R("ax"), R("ax")), I("div", w, R("ax"), R("bx"))>>
  BY DEF Code, ax, bx, Al
<1> HIDE DEF c
<1>2. /\ WellFormed(I("aad", "byte", R("ax"), R("ax")), 2)
      /\ WellFormed(I("div", w, R("ax"), R("bx")), 2)
  BY Registers DEF WellFormed, Bare, RegArg, Arg, Widths, I, R
<1>3. Written(c)
  BY <1>1, <1>2 DEF Written
<1> QED
  BY <1>1, <1>3 DEF c

LEMMA StrlenCode ==
  ASSUME NEW w \in Widths, NEW cc
  PROVE  LET c == Code("strlen", w, cc) IN
         /\ Written(c) /\ Len(c) = 3
         /\ c[1] = Str("scas", "repne") /\ c[2] = I("not", "dword", R("ecx"), R("ecx"))
         /\ c[3] = I("dec", "dword", R("ecx"), R("ecx"))
<1> DEFINE c == Code("strlen", w, cc)
<1>1. c = <<Str("scas", "repne"), I("not", "dword", R("ecx"), R("ecx")), I("dec", "dword", R("ecx"), R("ecx"))>>
  BY DEF Code, ecx
<1> HIDE DEF c
<1>2. /\ WellFormed(Str("scas", "repne"), 3)
      /\ WellFormed(I("not", "dword", R("ecx"), R("ecx")), 3)
      /\ WellFormed(I("dec", "dword", R("ecx"), R("ecx")), 3)
  BY Registers DEF WellFormed, Bare, RegArg, Arg, Widths, I, R, Str
<1>3. Written(c)
  BY <1>1, <1>2 DEF Written
<1> QED
  BY <1>1, <1>3 DEF c

LEMMA MemsetCode ==
  ASSUME NEW w \in Widths, NEW cc
  PROVE  LET c == Code("memset", w, cc) IN
         /\ Written(c) /\ Len(c) = 1
         /\ c[1] = Str("stos", "rep")
<1> DEFINE c == Code("memset", w, cc)
<1>1. c = <<Str("stos", "rep")>>
  BY DEF Code
<1> HIDE DEF c
<1>2. /\ WellFormed(Str("stos", "rep"), 1)
  BY Registers DEF WellFormed, Bare, RegArg, Arg, Widths, Str
<1>3. Written(c)
  BY <1>1, <1>2 DEF Written
<1> QED
  BY <1>1, <1>3 DEF c

LEMMA MemcmpCode ==
  ASSUME NEW w \in Widths, NEW cc
  PROVE  LET c == Code("memcmp", w, cc) IN
         /\ Written(c) /\ Len(c) = 4
         /\ c[1] = I("xor", "dword", R("ax"), R("ax")) /\ c[2] = Str("cmps", "rep")
         /\ c[3] = Set("b", R("ax")) /\ c[4] = Set("nz", R("dx"))
<1> DEFINE c == Code("memcmp", w, cc)
<1>1. c = <<I("xor", "dword", R("ax"), R("ax")), Str("cmps", "rep"), Set("b", R("ax")), Set("nz", R("dx"))>>
  BY DEF Code, ax, dx
<1> HIDE DEF c
<1>2. /\ WellFormed(I("xor", "dword", R("ax"), R("ax")), 4)
      /\ WellFormed(Str("cmps", "rep"), 4)
      /\ WellFormed(Set("b", R("ax")), 4)
      /\ WellFormed(Set("nz", R("dx")), 4)
  BY Registers DEF WellFormed, Bare, RegArg, Arg, Widths, I, R, Set, Str
<1>3. Written(c)
  BY <1>1, <1>2 DEF Written
<1> QED
  BY <1>1, <1>3 DEF c

LEMMA MemmoveCode ==
  ASSUME NEW w \in Widths, NEW cc
  PROVE  LET c == Code("memmove", w, cc) IN
         /\ Written(c) /\ Len(c) = 9
         /\ c[1] = I("cmp", "dword", R("esi"), R("edi")) /\ c[2] = J("nb", 8)
         /\ c[3] = I("add", "dword", R("esi"), R("ecx")) /\ c[4] = I("add", "dword", R("edi"), R("ecx"))
         /\ c[5] = I("dec", "dword", R("esi"), R("esi")) /\ c[6] = I("dec", "dword", R("edi"), R("edi"))
         /\ c[7] = Do("std") /\ c[8] = Str("movs", "rep") /\ c[9] = Do("cld")
<1> DEFINE c == Code("memmove", w, cc)
<1>1. c = <<I("cmp", "dword", R("esi"), R("edi")), J("nb", 8), I("add", "dword", R("esi"), R("ecx")),
            I("add", "dword", R("edi"), R("ecx")), I("dec", "dword", R("esi"), R("esi")),
            I("dec", "dword", R("edi"), R("edi")), Do("std"), Str("movs", "rep"), Do("cld")>>
  BY DEF Code, ecx, esi, edi
<1> HIDE DEF c
<1>2. /\ WellFormed(I("cmp", "dword", R("esi"), R("edi")), 9)
      /\ WellFormed(J("nb", 8), 9)
      /\ WellFormed(I("add", "dword", R("esi"), R("ecx")), 9)
      /\ WellFormed(I("add", "dword", R("edi"), R("ecx")), 9)
      /\ WellFormed(I("dec", "dword", R("esi"), R("esi")), 9)
      /\ WellFormed(I("dec", "dword", R("edi"), R("edi")), 9)
      /\ WellFormed(Do("std"), 9)
      /\ WellFormed(Str("movs", "rep"), 9)
      /\ WellFormed(Do("cld"), 9)
  BY Registers DEF WellFormed, Bare, RegArg, Arg, Widths, Do, I, J, R, Str
<1>3. Written(c)
  BY <1>1, <1>2 DEF Written
<1> QED
  BY <1>1, <1>3 DEF c

LEMMA StrcpyCode ==
  ASSUME NEW w \in Widths, NEW cc
  PROVE  LET c == Code("strcpy", w, cc) IN
         /\ Written(c) /\ Len(c) = 4
         /\ c[1] = Str("lods", "none") /\ c[2] = Str("stos", "none")
         /\ c[3] = I("test", "byte", R("ax"), R("ax")) /\ c[4] = J("nz", 1)
<1> DEFINE c == Code("strcpy", w, cc)
<1>1. c = <<Str("lods", "none"), Str("stos", "none"), I("test", "byte", R("ax"), R("ax")), J("nz", 1)>>
  BY DEF Code, ax, Al
<1> HIDE DEF c
<1>2. /\ WellFormed(Str("lods", "none"), 4)
      /\ WellFormed(Str("stos", "none"), 4)
      /\ WellFormed(I("test", "byte", R("ax"), R("ax")), 4)
      /\ WellFormed(J("nz", 1), 4)
  BY Registers DEF WellFormed, Bare, RegArg, Arg, Widths, I, J, R, Str
<1>3. Written(c)
  BY <1>1, <1>2 DEF Written
<1> QED
  BY <1>1, <1>3 DEF c

--------------------------------------------------------------------------------
(* What the idioms start from *)

LEMMA OperandsAre ==
  ASSUME NEW A, NEW D, NEW B, NEW P, NEW file \in Operands(A, D, B, P)
  PROVE  /\ file["ax"] \in A /\ file["dx"] \in D /\ file["bx"] \in B /\ file["bp"] \in P
         /\ file["ecx"] = 0 /\ file["esi"] = 0 /\ file["edi"] = 0 /\ DOMAIN file = Register
<1>1. PICK a \in A, d \in D, b \in B, p \in P :
        file = [Cleared EXCEPT !["ax"] = a, !["dx"] = d, !["bx"] = b, !["bp"] = p]
  BY DEF Operands
<1> QED
  BY <1>1 DEF Cleared, Register

LEMMA PointersAre ==
  ASSUME NEW E, NEW F, NEW C, NEW file \in Pointers(E, F, C)
  PROVE  /\ file["ax"] = 0 /\ file["dx"] = 0 /\ file["bx"] = 0 /\ file["bp"] = 0
         /\ file["ecx"] \in C /\ file["esi"] \in E /\ file["edi"] \in F /\ DOMAIN file = Register
<1>1. PICK e \in E, f \in F, c \in C : file = [Cleared EXCEPT !["esi"] = e, !["edi"] = f, !["ecx"] = c]
  BY DEF Pointers
<1> QED
  BY <1>1 DEF Cleared, Register

\* Operands as wide as the idiom, and pointers and counts as wide as a register.
Fits(k, file) ==
  /\ file \in RegFile
  /\ \A r \in {"ax", "dx", "bx", "bp"} : file[r] \in Number(k)

LEMMA TwiceAsMany ==
  ASSUME NEW k \in Nat, k >= 3
  PROVE  2 * k < 2^k
<1> DEFINE T == {j \in Nat : 2 * (j + 3) < 2^(j + 3)}
<1>1. 0 \in T
  <2>1. 2^3 = 8
    OBVIOUS
  <2> QED
    BY <2>1
<1>2. ASSUME NEW j \in Nat, j \in T PROVE j + 1 \in T
  <2>1. 2^((j + 3) + 1) = 2 * 2^(j + 3) /\ 2^(j + 3) \in Nat /\ (j + 1) + 3 = (j + 3) + 1
    BY PowerNext, PowerType
  <2> DEFINE p == 2^(j + 3)
             q == 2^((j + 1) + 3)
  <2>2. 2 * (j + 3) < p /\ q = 2 * p /\ p \in Nat
    BY <1>2, <2>1
  <2> HIDE DEF p, q
  <2>3. 2 * ((j + 1) + 3) < q
    BY <2>2
  <2> QED
    BY <2>3 DEF q
<1> HIDE DEF T
<1>3. k - 3 \in T
  BY <1>1, <1>2, Induction
<1> QED
  BY <1>3, (k - 3) + 3 = k DEF T

\* Every number the inputs are made of has room in a register.
LEMMA RoomFor ==
  /\ Bits["dword"] \in Nat
  /\ 0..255 \subseteq Number(Bits["dword"])
  /\ 0..(2 * Bits["dword"]) \subseteq Number(Bits["dword"])
  /\ 0..MemSize \subseteq Number(Bits["dword"]) /\ Address \subseteq 0..MemSize
  /\ 2^Bits["dword"] - 1 \in Number(Bits["dword"])
<1> DEFINE p == 2^Bits["dword"]
<1>1. Bits["dword"] \in Nat /\ Bits["dword"] >= 8
  BY WidthFacts DEF Widths
<1>2. 2 * Bits["dword"] < p /\ p \in Nat /\ p >= 256
  BY <1>1, TwiceAsMany, HalfRange, PowerType DEF Widths
<1>3. MemSize \in Nat /\ MemSize < p
  BY MemAssumption
<1>4. Number(Bits["dword"]) = 0..(p - 1)
  BY DEF Number
<1> HIDE DEF p
<1>5. Address \subseteq 0..MemSize
  BY <1>3 DEF Address
<1>6. p - 1 \in 0..(p - 1) /\ 0..MemSize \subseteq 0..(p - 1) /\ 0..255 \subseteq 0..(p - 1)
      /\ 0..(2 * Bits["dword"]) \subseteq 0..(p - 1)
  BY <1>1, <1>2, <1>3
<1> QED
  BY <1>1, <1>4, <1>5, <1>6 DEF p

LEMMA OperandsFit ==
  ASSUME NEW w \in Widths, NEW A \in SUBSET Number(Bits[w]), NEW D \in SUBSET Number(Bits[w]),
         NEW B \in SUBSET Number(Bits[w]), NEW P \in SUBSET Number(Bits[w]), NEW file \in Operands(A, D, B, P)
  PROVE  Fits(Bits[w], file)
<1>1. PICK a \in A, d \in D, b \in B, p \in P :
        file = [Cleared EXCEPT !["ax"] = a, !["dx"] = d, !["bx"] = b, !["bp"] = p]
  BY DEF Operands
<1>2. Number(Bits[w]) \subseteq Number(Bits["dword"]) /\ 0 \in Number(Bits["dword"])
  BY NarrowNumbers, RoomFor
<1> QED
  BY <1>1, <1>2 DEF Fits, RegFile, Cleared, Register

LEMMA PointersFit ==
  ASSUME NEW w \in Widths, NEW E \in SUBSET Number(Bits["dword"]), NEW F \in SUBSET Number(Bits["dword"]),
         NEW C \in SUBSET Number(Bits["dword"]), NEW file \in Pointers(E, F, C)
  PROVE  Fits(Bits[w], file)
<1>1. PICK e \in E, f \in F, c \in C : file = [Cleared EXCEPT !["esi"] = e, !["edi"] = f, !["ecx"] = c]
  BY DEF Pointers
<1>2. 0 \in Number(Bits["dword"]) /\ 0 \in Number(Bits[w])
  BY NarrowNumbers, RoomFor, 0 \in 0..255
<1> QED
  BY <1>1, <1>2 DEF Fits, RegFile, Cleared, Register

LEMMA InputsFit ==
  ASSUME NEW task \in Idiom, NEW w \in WidthsOf(task), NEW file \in Inputs(task, w)
  PROVE  w \in Widths /\ Fits(Bits[w], file)
<1> DEFINE S == Samples[w]
           Z == {0}
           decimals == {"daa", "das", "aaa", "aas", "aam", "aad"}
           strings == {"strlen", "memset", "memcmp", "memmove", "strcpy"}
<1>1. DOMAIN Bits = Widths
  BY BitsAssumption DEF Widths
<1>2. w \in Widths
  BY <1>1 DEF WidthsOf, Widths
<1>3. S \in SUBSET Number(Bits[w])
  BY <1>1, <1>2, SamplesAssumption DEF Number
<1>4. Z \in SUBSET Number(Bits[w]) /\ {2} \in SUBSET Number(Bits[w]) /\ S \ {0} \in SUBSET Number(Bits[w])
  BY <1>2, <1>3, NarrowNumbers, 0 \in 0..255, 2 \in 0..255 DEF Z
<1>5. 0..9 \in SUBSET Number(Bits[w]) /\ 0..8 \in SUBSET Number(Bits[w]) /\ 1..9 \in SUBSET Number(Bits[w])
      /\ Digits \in SUBSET Number(Bits[w])
  <2>1. 0..255 \subseteq Number(Bits[w])
    BY <1>2, NarrowNumbers
  <2>2. Digits \subseteq 0..255 /\ 0..9 \subseteq 0..255 /\ 0..8 \subseteq 0..255 /\ 1..9 \subseteq 0..255
    BY DigitsAssumption
  <2> QED
    BY <2>1, <2>2
<1>6. /\ 0..MemSize \in SUBSET Number(Bits["dword"]) /\ Address \in SUBSET Number(Bits["dword"])
      /\ Z \in SUBSET Number(Bits["dword"]) /\ {2^Bits["dword"] - 1} \in SUBSET Number(Bits["dword"])
  BY RoomFor
<1> HIDE DEF S, Z
<1>7. CASE task \in {"add", "sub"}
  BY <1>2, <1>3, <1>7, OperandsFit DEF Inputs, S
<1>8. CASE task \in {"neg", "double", "halve", "halveUnsigned", "decrement", "reduce"}
  BY <1>2, <1>3, <1>4, <1>8, OperandsFit DEF Inputs, S, Z
<1>9. CASE task \in {"rotate", "rotateCarry"}
  <2>1. PICK a \in S, c \in 0..(2 * Bits["dword"]) : file = [Cleared EXCEPT !["ax"] = a, !["ecx"] = c]
    BY <1>9 DEF Inputs, S
  <2>2. /\ a \in Number(Bits[w]) /\ a \in Number(Bits["dword"]) /\ c \in Number(Bits["dword"])
        /\ 0 \in Number(Bits["dword"]) /\ 0 \in Number(Bits[w])
    BY <1>2, <1>3, NarrowNumbers, RoomFor, 0 \in 0..255
  <2> QED
    BY <1>2, <2>1, <2>2 DEF Fits, RegFile, Cleared, Register
<1>10. CASE task \in {"bool", "align", "full", "positive", "quarter", "abs", "extend"}
  BY <1>2, <1>3, <1>4, <1>10, OperandsFit DEF Inputs, S, Z
<1>11. CASE task = "blend"
  BY <1>2, <1>3, <1>4, <1>11, OperandsFit DEF Inputs, S, Z
<1>12. CASE task = "compare"
  BY <1>2, <1>3, <1>4, <1>12, OperandsFit DEF Inputs, S
<1>13. CASE task \in {"mul", "scale", "square"}
  BY <1>2, <1>3, <1>4, <1>13, OperandsFit DEF Inputs, S, Z
<1>14. CASE task \in {"mulDiv", "imulIdiv"}
  BY <1>2, <1>3, <1>4, <1>14, OperandsFit DEF Inputs, S, Z
<1>15. CASE task = "idiv"
  BY <1>2, <1>3, <1>4, <1>15, OperandsFit DEF Inputs, S, Z
<1>16. CASE task \in {"daa", "das"}
  BY <1>2, <1>5, <1>16, OperandsFit DEF Inputs
<1>17. CASE task \in {"aaa", "aas", "aam", "aad"}
  BY <1>2, <1>4, <1>5, <1>17, OperandsFit DEF Inputs, Z
<1>18. CASE task \in strings
  <2> DEFINE All == 0..MemSize
             Top == {2^Bits["dword"] - 1}
  <2>1. task = "strlen" => file \in Pointers(Z, Address, Top)
    BY DEF Inputs, Z
  <2>2. task = "memset" => file \in Pointers(Z, Address, All)
    BY DEF Inputs, Z
  <2>3. task = "strcpy" => file \in Pointers(Address, Address, Z)
    BY DEF Inputs, Z
  <2>4. task \in {"memcmp", "memmove"} => file \in Pointers(Address, Address, All)
    BY DEF Inputs
  <2>5. All \in SUBSET Number(Bits["dword"]) /\ Top \in SUBSET Number(Bits["dword"])
    BY <1>6
  <2> HIDE DEF All, Top
  <2> QED
    BY <1>2, <1>6, <1>18, <2>1, <2>2, <2>3, <2>4, <2>5, PointersFit
<1>19. task \in {"add", "sub"} \/ task \in {"neg", "double", "halve", "halveUnsigned", "decrement", "reduce"}
       \/ task \in {"rotate", "rotateCarry"}
       \/ task \in {"bool", "align", "full", "positive", "quarter", "abs", "extend"}
       \/ task = "blend" \/ task = "compare" \/ task \in {"mul", "scale", "square"}
       \/ task \in {"mulDiv", "imulIdiv"} \/ task = "idiv" \/ task \in {"daa", "das"}
       \/ task \in {"aaa", "aas", "aam", "aad"} \/ task \in strings
  BY DEF Idiom
<1> QED
  BY <1>7, <1>8, <1>9, <1>10, <1>11, <1>12, <1>13, <1>14, <1>15, <1>16, <1>17, <1>18, <1>19

LEMMA CodeWritten ==
  ASSUME NEW task \in Idiom, NEW w \in Widths, NEW cc
  PROVE  Written(Code(task, w, cc)) /\ Len(Code(task, w, cc)) \in Nat
<1>1. CASE task = "add"
  BY <1>1, AddCode
<1>2. CASE task = "sub"
  BY <1>2, SubCode
<1>3. CASE task = "neg"
  BY <1>3, NegCode
<1>4. CASE task = "double"
  BY <1>4, DoubleCode
<1>5. CASE task = "halve"
  BY <1>5, HalveCode
<1>6. CASE task = "halveUnsigned"
  BY <1>6, HalveUnsignedCode
<1>7. CASE task = "rotate"
  BY <1>7, RotateCode
<1>8. CASE task = "rotateCarry"
  BY <1>8, RotateCarryCode
<1>9. CASE task = "bool"
  BY <1>9, BoolCode
<1>10. CASE task = "blend"
  BY <1>10, BlendCode
<1>11. CASE task = "decrement"
  BY <1>11, DecrementCode
<1>12. CASE task = "align"
  BY <1>12, AlignCode
<1>13. CASE task = "full"
  BY <1>13, FullCode
<1>14. CASE task = "positive"
  BY <1>14, PositiveCode
<1>15. CASE task = "reduce"
  BY <1>15, ReduceCode
<1>16. CASE task = "compare"
  BY <1>16, CompareCode
<1>17. CASE task = "mul"
  BY <1>17, MulCode
<1>18. CASE task = "mulDiv"
  BY <1>18, MulDivCode
<1>19. CASE task = "imulIdiv"
  BY <1>19, ImulIdivCode
<1>20. CASE task = "scale"
  BY <1>20, ScaleCode
<1>21. CASE task = "square"
  <2>1. Written(Code("square", w, cc)) /\ Len(Code("square", w, cc)) = 1
    BY SquareCode, Zenon
  <2> QED
    BY <1>21, <2>1
<1>22. CASE task = "idiv"
  BY <1>22, IdivCode
<1>23. CASE task = "quarter"
  BY <1>23, QuarterCode
<1>24. CASE task = "abs"
  BY <1>24, AbsCode
<1>25. CASE task = "extend"
  BY <1>25, ExtendCode
<1>26. CASE task = "daa"
  BY <1>26, DaaCode
<1>27. CASE task = "das"
  BY <1>27, DasCode
<1>28. CASE task = "aaa"
  BY <1>28, AaaCode
<1>29. CASE task = "aas"
  BY <1>29, AasCode
<1>30. CASE task = "aam"
  BY <1>30, AamCode
<1>31. CASE task = "aad"
  BY <1>31, AadCode
<1>32. CASE task = "strlen"
  BY <1>32, StrlenCode
<1>33. CASE task = "memset"
  BY <1>33, MemsetCode
<1>34. CASE task = "memcmp"
  BY <1>34, MemcmpCode
<1>35. CASE task = "memmove"
  BY <1>35, MemmoveCode
<1>36. CASE task = "strcpy"
  BY <1>36, StrcpyCode
<1> QED
  BY <1>1, <1>2, <1>3, <1>4, <1>5, <1>6, <1>7, <1>8, <1>9, <1>10, <1>11, <1>12, <1>13, <1>14, <1>15, <1>16, <1>17, <1>18, <1>19, <1>20, <1>21, <1>22, <1>23, <1>24, <1>25, <1>26, <1>27, <1>28, <1>29, <1>30, <1>31, <1>32, <1>33, <1>34, <1>35, <1>36 DEF Idiom

--------------------------------------------------------------------------------
(* Type correctness *)

\* The machine of one idiom: the run never changes what it started from.
StartOK ==
  /\ start.task \in Tasks /\ start.w \in WidthsOf(start.task) /\ start.cc \in ConditionsOf(start.task)
  /\ s \in Inputs(start.task, start.w) /\ start.flags \in FlagsBefore /\ start.mem \in Memories(start.task)
  /\ Legal(start.task, n, s, start.mem)
  /\ code = Code(start.task, start.w, start.cc)

StartFits ==
  /\ start.task \in Idiom /\ start.w \in Widths /\ n \in Nat /\ n > 1
  /\ Fits(n, s)
  /\ start.flags \in FlagFile /\ start.flags.DF = 0
  /\ start.mem \in [Address -> Byte]
  /\ Written(code) /\ Len(code) \in Nat

LEMMA StartIs ==
  ASSUME StartOK
  PROVE  StartFits
<1>1. start.task \in Idiom
  BY TasksAssumption DEF StartOK
<1>2. start.w \in Widths /\ Fits(n, s)
  BY <1>1, InputsFit DEF StartOK, n
<1>3. n \in Nat /\ n > 1
  BY <1>2, WidthFacts DEF n
<1>4. start.flags \in FlagFile /\ start.flags.DF = 0
  <2>1. PICK v \in {0, 1} : start.flags = [[f \in Flag |-> v] EXCEPT !.DF = 0]
    BY DEF StartOK, FlagsBefore
  <2> QED
    BY <2>1 DEF FlagFile, Flag
<1>5. start.mem \in [Address -> Byte]
  <2> DEFINE ramp == [a \in Address |-> (a + 1) % 256]
  <2>1. ASSUME NEW a \in Address PROVE (a + 1) % 256 \in Byte
    BY DEF Address, Byte
  <2>2. ramp \in [Address -> Byte]
    BY <2>1
  <2> HIDE DEF ramp
  <2>3. \A m \in Memories(start.task) :
          m \in [Address -> {0, 1}] \/ m \in [Address -> {1, 200}] \/ m = ramp
    BY DEF Memories, ramp
  <2>4. [Address -> {0, 1}] \subseteq [Address -> Byte] /\ [Address -> {1, 200}] \subseteq [Address -> Byte]
    BY DEF Byte
  <2> QED
    BY <2>2, <2>3, <2>4 DEF StartOK
<1>6. Written(code) /\ Len(code) \in Nat
  BY <1>1, <1>2, CodeWritten DEF StartOK
<1> QED
  BY <1>1, <1>2, <1>3, <1>4, <1>5, <1>6 DEF StartFits

--------------------------------------------------------------------------------
(* What the instructions do *)

Typed == regs \in RegFile /\ flags \in FlagFile /\ mem \in [Address -> Byte]

\* An instruction that writes one register, or none, and goes on to the next.
Passes(file, g) ==
  regs' = file /\ flags' = g /\ pc' = pc + 1 /\ code' = code /\ mem' = mem /\ outcome' = outcome
Puts(k, arg, v, g) == Passes(Stored(regs, k, arg, v), g)

LEMMA Computed ==
  ASSUME Typed, NEW w \in Widths, Instruction.w = w, NEW op \in TwoOperandNames,
         NEW a \in Number(Bits[w]), NEW b \in Number(Bits[w]), Computes(op, a, b)
  PROVE  \E r \in Results(Bits[w]) :
           /\ TwoOperandsLeave(op, Bits[w], a, b, flags, r) /\ flags' = r.flags
           /\ regs' = IF op \in {"cmp", "test"} THEN regs ELSE Stored(regs, Bits[w], Instruction.dst, r.value)
<1>1. Width = Bits[w]
  BY DEF Width
<1>2. PICK r \in TwoOperands(op, Bits[w], a, b, flags) :
        /\ flags' = r.flags
        /\ regs' = IF op \in {"cmp", "test"} THEN regs ELSE Stored(regs, Bits[w], Instruction.dst, r.value)
  BY <1>1 DEF Computes
<1>3. Bits[w] \in Nat /\ Bits[w] > 0 /\ flags \in FlagFile
  BY WidthFacts DEF Typed
<1>4. TwoOperandsLeave(op, Bits[w], a, b, flags, r) /\ r \in Results(Bits[w])
  BY <1>2, <1>3, TwoOperandsIs
<1> QED
  BY <1>2, <1>4

\* a two-operand instruction, and an immediate one once its digit is read
Operates(op, k, dst, a, b) ==
  \E r \in Results(k) : /\ TwoOperandsLeave(op, k, a, b, flags, r)
                        /\ IF op \in {"cmp", "test"} THEN Passes(regs, r.flags) ELSE Puts(k, dst, r.value, r.flags)

LEMMA TwoOperandDoes ==
  ASSUME Typed, NEW w \in Widths, Instruction.w = w, RegArg(Instruction.dst), Arg(Instruction.src),
         TwoOperandInstruction \/ CompareInstruction
  PROVE  Operates(Instruction.op, Bits[w], Instruction.dst, Load(Bits[w], Instruction.dst),
                  Load(Bits[w], Instruction.src))
<1> DEFINE a == Load(Bits[w], Instruction.dst)
           b == Load(Bits[w], Instruction.src)
           op == Instruction.op
<1>1. Width = Bits[w]
  BY DEF Width
<1>2. a \in Number(Bits[w]) /\ b \in Number(Bits[w])
  BY LoadType DEF Typed, Arg
<1>3. /\ Computes(op, a, b) /\ op \in TwoOperandNames
      /\ pc' = pc + 1 /\ code' = code /\ mem' = mem /\ outcome' = outcome
  BY <1>1 DEF TwoOperandInstruction, CompareInstruction, Runs, NextInstruction, TwoOperandNames
<1> HIDE DEF a, b, op
<1>4. PICK r \in Results(Bits[w]) :
           /\ TwoOperandsLeave(op, Bits[w], a, b, flags, r) /\ flags' = r.flags
           /\ regs' = IF op \in {"cmp", "test"} THEN regs ELSE Stored(regs, Bits[w], Instruction.dst, r.value)
  BY <1>2, <1>3, Computed
<1>5. Operates(op, Bits[w], Instruction.dst, a, b)
  BY <1>3, <1>4 DEF Operates, Passes, Puts
<1> QED
  BY <1>5 DEF a, b, op

LEMMA ImmediateDoes ==
  ASSUME Typed, NEW w \in Widths, Instruction.w = w, RegArg(Instruction.dst), Arg(Instruction.src),
         Instruction.digit \in 0..7,
         NEW b \in Number(Bits[w]),
         \/ ImmediateInstruction /\ b = Load(Bits[w], Instruction.src)
         \/ ShortImmediateInstruction /\ b = Wrap(Bits[w], Signed(8, Load(8, Instruction.src)))
  PROVE  Operates(Digit[Instruction.digit + 1], Bits[w], Instruction.dst, Load(Bits[w], Instruction.dst), b)
<1> DEFINE a == Load(Bits[w], Instruction.dst)
           op == Digit[Instruction.digit + 1]
<1>1. Width = Bits[w] /\ Bits["byte"] = 8
  BY WidthFacts DEF Width
<1>2. a \in Number(Bits[w])
  BY LoadType DEF Typed, Arg
<1>3. /\ Computes(op, a, b)
      /\ pc' = pc + 1 /\ code' = code /\ mem' = mem /\ outcome' = outcome
  BY <1>1 DEF ImmediateInstruction, ShortImmediateInstruction, NextInstruction
<1>4. op \in TwoOperandNames
  BY DEF Digit, TwoOperandNames
<1> HIDE DEF a, op
<1>5. PICK r \in Results(Bits[w]) :
           /\ TwoOperandsLeave(op, Bits[w], a, b, flags, r) /\ flags' = r.flags
           /\ regs' = IF op \in {"cmp", "test"} THEN regs ELSE Stored(regs, Bits[w], Instruction.dst, r.value)
  BY <1>2, <1>3, <1>4, Computed
<1>6. Operates(op, Bits[w], Instruction.dst, a, b)
  BY <1>3, <1>5 DEF Operates, Passes, Puts
<1> QED
  BY <1>6 DEF a, op

LEMMA OneOperandDoes ==
  ASSUME Typed, NEW w \in Widths, Instruction.w = w, RegArg(Instruction.dst), OneOperandInstruction
  PROVE  \E r \in Results(Bits[w]) :
           /\ OneOperandLeaves(Instruction.op, Bits[w], Load(Bits[w], Instruction.dst), flags, r)
           /\ Puts(Bits[w], Instruction.dst, r.value, r.flags)
<1> DEFINE a == Load(Bits[w], Instruction.dst)
           op == Instruction.op
           r == OneOperand(op, Bits[w], a, flags)
<1>1. Width = Bits[w] /\ Bits[w] \in Nat /\ Bits[w] > 0
  BY WidthFacts DEF Width
<1>2. a \in Number(Bits[w])
  BY LoadType DEF Typed, Arg
<1>3. op \in {"inc", "dec", "not", "neg"} /\ Puts(Bits[w], Instruction.dst, r.value, r.flags)
  BY <1>1 DEF OneOperandInstruction, Puts, Passes, Runs, NextInstruction
<1> HIDE DEF a, op
<1>4. OneOperandLeaves(op, Bits[w], a, flags, r)
  BY <1>1, <1>2, <1>3, OneOperandIs DEF Typed
<1>5. r \in Results(Bits[w])
  BY <1>4 DEF OneOperandLeaves
<1> HIDE DEF r
<1> QED
  BY <1>3, <1>4, <1>5 DEF a, op

LEMMA ShiftDoes ==
  ASSUME Typed, NEW w \in Widths, Instruction.w = w, RegArg(Instruction.dst), Arg(Instruction.src), ShiftInstruction
  PROVE  \E r \in Results(Bits[w]) :
           /\ ShiftLeaves(Instruction.op, Bits[w], Load(Bits[w], Instruction.dst), Load(8, Instruction.src), flags, r)
           /\ Puts(Bits[w], Instruction.dst, r.value, r.flags)
<1> DEFINE a == Load(Bits[w], Instruction.dst)
           b == Load(8, Instruction.src)
           op == Instruction.op
<1>1. Width = Bits[w] /\ Bits[w] \in Nat /\ Bits[w] > 1 /\ Bits["byte"] = 8 /\ "byte" \in Widths
  BY WidthFacts DEF Width, Widths
<1>2. a \in Number(Bits[w])
  BY LoadType DEF Typed, Arg
<1>3. b \in Nat
  <2>1. Load(Bits["byte"], Instruction.src) \in Number(Bits["byte"])
    BY <1>1, LoadType DEF Typed
  <2> QED
    BY <1>1, <2>1, NarrowNumbers
<1>4. PICK r \in Shift(op, Bits[w], a, b, flags) : Puts(Bits[w], Instruction.dst, r.value, r.flags)
  BY <1>1 DEF ShiftInstruction, Puts, Passes, NextInstruction
<1>5. op \in Shiftings
  BY DEF ShiftInstruction, Runs, Shiftings, ShiftNames, RotateNames
<1> HIDE DEF a, b, op
<1>6. ShiftLeaves(op, Bits[w], a, b, flags, r)
  BY <1>1, <1>2, <1>3, <1>4, <1>5, ShiftIs DEF Typed
<1>7. r \in Results(Bits[w])
  BY <1>6 DEF ShiftLeaves
<1> QED
  BY <1>4, <1>6, <1>7 DEF a, b, op

\* mov, movzx and movsx
MoveLeaves(op, k, src, v) ==
  /\ v \in Number(k)
  /\ op = "mov" => v = Load(k, src)
  /\ op = "movzx" => v = Load(8, src)
  /\ op = "movsx" => v = Wrap(k, Signed(8, Load(8, src)))

LEMMA ByteLoads ==
  ASSUME Typed, NEW arg, Arg(arg)
  PROVE  Load(8, arg) \in 0..255 /\ Signed(8, Load(8, arg)) \in Int
<1>1. Load(8, arg) \in Number(8) /\ Number(8) = 0..255
  BY LoadType, WidthFacts, NarrowNumbers DEF Typed, Widths
<1>2. Signed(8, Load(8, arg)) \in Int
  BY <1>1, SignedIs DEF SignedTo
<1> QED
  BY <1>1, <1>2

LEMMA MoveDoes ==
  ASSUME Typed, NEW w \in Widths, Instruction.w = w, RegArg(Instruction.dst), Arg(Instruction.src), MoveInstruction
  PROVE  \E v : MoveLeaves(Instruction.op, Bits[w], Instruction.src, v) /\ Puts(Bits[w], Instruction.dst, v, flags)
<1> DEFINE op == Instruction.op
           v == Moved(op, Bits[w])
<1>1. Width = Bits[w] /\ Bits[w] \in Nat /\ Bits["byte"] = 8
  BY WidthFacts DEF Width
<1>2. op \in {"mov", "movzx", "movsx"} /\ Puts(Bits[w], Instruction.dst, v, flags)
  BY <1>1 DEF MoveInstruction, Runs, Puts, Passes, NextInstruction
<1>3. /\ op = "mov" => v = Load(Bits[w], Instruction.src)
      /\ op = "movzx" => v = Load(8, Instruction.src)
      /\ op = "movsx" => v = Wrap(Bits[w], Signed(8, Load(8, Instruction.src)))
  BY <1>1 DEF Moved
<1>4. Load(Bits[w], Instruction.src) \in Number(Bits[w])
  BY LoadType DEF Typed
<1>5. Load(8, Instruction.src) \in Number(Bits[w])
  BY ByteLoads, NarrowNumbers
<1>6. Wrap(Bits[w], Signed(8, Load(8, Instruction.src))) \in Number(Bits[w])
  BY <1>1, ByteLoads, WrapType
<1> HIDE DEF v
<1>7. v \in Number(Bits[w])
  BY <1>2, <1>3, <1>4, <1>5, <1>6
<1> QED
  BY <1>2, <1>3, <1>7 DEF MoveLeaves

LEMMA ExchangeDoes ==
  ASSUME Typed, NEW w \in Widths, Instruction.w = w, RegArg(Instruction.dst), RegArg(Instruction.src),
         ExchangeInstruction
  PROVE  /\ Passes(Stored(Stored(regs, Bits[w], Instruction.dst, Load(Bits[w], Instruction.src)),
                          Bits[w], Instruction.src, Load(Bits[w], Instruction.dst)), flags)
         /\ Load(Bits[w], Instruction.src) \in Number(Bits[w]) /\ Load(Bits[w], Instruction.dst) \in Number(Bits[w])
<1>1. Load(Bits[w], Instruction.src) \in Number(Bits[w]) /\ Load(Bits[w], Instruction.dst) \in Number(Bits[w])
  BY LoadType DEF Typed, Arg
<1> QED
  BY <1>1 DEF ExchangeInstruction, Width, Passes, NextInstruction

\* What writes the accumulator and the register paired with it.
PutsPair(k, high, low, g) == Passes(Stored(Stored(regs, k, R("ax"), low), k, R("dx"), high), g)

LEMMA PairIsPut ==
  ASSUME NEW w \in Widths, Instruction.w = w, NEW high, NEW low, NEW g,
         regs' = SetPair(regs, high, low), flags' = g, NextInstruction, UNCHANGED <<code, mem, outcome>>
  PROVE  PutsPair(Bits[w], high, low, g)
BY DEF SetPair, PutsPair, Passes, Width, R, NextInstruction

LEMMA AccumulatorType ==
  ASSUME Typed, NEW w \in Widths, Instruction.w = w
  PROVE  Low \in Number(Bits[w]) /\ High \in Number(Bits[w])
<1>1. Load(Bits[w], R("ax")) \in Number(Bits[w]) /\ Load(Bits[w], R("dx")) \in Number(Bits[w])
  BY LoadType DEF Typed, Arg, RegArg, R, Register
<1>2. Load(Bits[w], R("ax")) = Low /\ Load(Bits[w], R("dx")) = High
  BY DEF Load, R, Low, High, Width
<1> QED
  BY <1>1, <1>2

\* mul and imul, on two operands
MultiplyLeaves(op, k, a, b, r) ==
  /\ r.flags \in FlagFile /\ r.value \in Number(2 * k)
  /\ op = "mul" => ProductLeaves(k, a * b, a * b >= 2^k, flags, r) /\ r.value = a * b
  /\ op = "imul" => LET x == Signed(k, a) * Signed(k, b) IN
                    ProductLeaves(k, x, Signed(k, Wrap(k, x)) # x, flags, r)

LEMMA HalvesType ==
  ASSUME NEW k \in Nat, k > 0, NEW v \in Number(2 * k)
  PROVE  /\ v \div 2^k \in Number(k) /\ Wrap(k, v) \in Number(k)
         /\ Pair(k, v \div 2^k, Wrap(k, v)) = v
<1>1. k + k = 2 * k
  OBVIOUS
<1>2. CutAt(v, k, k, v \div 2^k, v % 2^k)
  BY <1>1, Cuts
<1> QED
  BY <1>2 DEF CutAt, Number, Wrap, Pair

LEMMA MultiplyDoes ==
  ASSUME Typed, NEW w \in Widths, Instruction.w = w, Arg(Instruction.src), MultiplyInstruction
  PROVE  \E r : /\ MultiplyLeaves(Instruction.op, Bits[w], Low, Load(Bits[w], Instruction.src), r)
                /\ r.value \div 2^Bits[w] \in Number(Bits[w]) /\ Wrap(Bits[w], r.value) \in Number(Bits[w])
                /\ Pair(Bits[w], r.value \div 2^Bits[w], Wrap(Bits[w], r.value)) = r.value
                /\ PutsPair(Bits[w], r.value \div 2^Bits[w], Wrap(Bits[w], r.value), r.flags)
<1> DEFINE k == Bits[w]
           op == Instruction.op
           a == Low
           b == Load(k, Instruction.src)
           r == IF op = "mul" THEN Mul32(k, a, b, flags) ELSE Imul32(k, a, b, flags)
<1>1. k = Width /\ k \in Nat /\ k > 0
  BY WidthFacts DEF Width
<1>2. a \in Number(k) /\ b \in Number(k)
  BY AccumulatorType, LoadType DEF Typed
<1>3. /\ op \in {"mul", "imul"} /\ regs' = SetPair(regs, r.value \div 2^k, Wrap(k, r.value)) /\ flags' = r.flags
      /\ NextInstruction /\ UNCHANGED <<code, mem, outcome>>
  BY <1>1 DEF MultiplyInstruction, Runs
<1> HIDE DEF r
<1>4. PutsPair(k, r.value \div 2^k, Wrap(k, r.value), r.flags)
  BY <1>3, PairIsPut
<1> HIDE DEF a, b, op, k
<1>5. MultiplyLeaves(op, k, a, b, r)
  <2>1. CASE op = "mul"
    <3>1. r = Mul32(k, a, b, flags)
      BY <2>1 DEF r
    <3>2. ProductLeaves(k, a * b, a * b >= 2^k, flags, r) /\ a * b \in Number(2 * k)
      BY <1>1, <1>2, <3>1, Mul32Is DEF Typed
    <3>3. Wrap(2 * k, a * b) = a * b
      BY <1>1, <3>2, WrapSmall, 2 * k \in Nat
    <3> QED
      BY <2>1, <3>2, <3>3 DEF MultiplyLeaves, ProductLeaves
  <2>2. CASE op = "imul"
    <3>1. r = Imul32(k, a, b, flags)
      BY <2>2 DEF r
    <3> DEFINE x == Signed(k, a) * Signed(k, b)
    <3>2. ProductLeaves(k, x, Signed(k, Wrap(k, x)) # x, flags, r)
      BY <1>1, <1>2, <3>1, Imul32Is DEF Typed
    <3>3. r.flags \in FlagFile /\ r.value \in Number(2 * k)
      BY <3>2 DEF ProductLeaves
    <3> QED
      BY <2>2, <3>2, <3>3 DEF MultiplyLeaves
  <2> QED
    BY <1>3, <2>1, <2>2
<1>6. r.value \in Number(2 * k)
  BY <1>5 DEF MultiplyLeaves
<1>7. /\ r.value \div 2^k \in Number(k) /\ Wrap(k, r.value) \in Number(k)
      /\ Pair(k, r.value \div 2^k, Wrap(k, r.value)) = r.value
  BY <1>1, <1>6, HalvesType
<1> QED
  BY <1>4, <1>5, <1>7 DEF op, k, a, b

LEMMA MultiplyToDoes ==
  ASSUME Typed, NEW w \in Widths, Instruction.w = w, Arg(Instruction.src), RegArg(Instruction.left),
         MultiplyToRegister
  PROVE  \E r : /\ LET x == Signed(Bits[w], Load(Bits[w], Instruction.left))
                              * Signed(Bits[w], Load(Bits[w], Instruction.src)) IN
                   ProductLeaves(Bits[w], x, Signed(Bits[w], Wrap(Bits[w], x)) # x, flags, r)
                /\ Wrap(Bits[w], r.value) \in Number(Bits[w])
                /\ Puts(Bits[w], Instruction.dst, Wrap(Bits[w], r.value), r.flags)
<1> DEFINE k == Bits[w]
           a == Load(k, Instruction.left)
           b == Load(k, Instruction.src)
           r == Imul32(k, a, b, flags)
           x == Signed(k, a) * Signed(k, b)
<1>1. k = Width /\ k \in Nat /\ k > 0
  BY WidthFacts DEF Width
<1>2. a \in Number(k) /\ b \in Number(k)
  BY LoadType DEF Typed, Arg
<1>3. Puts(k, Instruction.dst, Wrap(k, r.value), r.flags)
  BY <1>1 DEF MultiplyToRegister, Puts, Passes, NextInstruction
<1> HIDE DEF a, b, k, r
<1>4. ProductLeaves(k, x, Signed(k, Wrap(k, x)) # x, flags, r)
  BY <1>1, <1>2, Imul32Is DEF Typed, r
<1> HIDE DEF x
<1>5. r.value \in Number(2 * k)
  BY <1>4 DEF ProductLeaves
<1>6. Wrap(k, r.value) \in Number(k)
  BY <1>1, <1>5, HalvesType
<1> QED
  BY <1>3, <1>4, <1>6 DEF a, b, x, k

\* A quotient that fits, or the end of the emulator.
Quits == outcome' = "aborted" /\ UNCHANGED <<code, pc, regs, flags, mem>>
Quotes(k, x, y) == PutsPair(k, Wrap(k, Remainder(x, y)), Wrap(k, Quotient(x, y)), flags)

LEMMA DivideDoes ==
  ASSUME Typed, NEW w \in Widths, Instruction.w = w, Arg(Instruction.src)
  PROVE  /\ Load(Bits[w], Instruction.src) \in Number(Bits[w])
         /\ DivideInstruction =>
              LET y == Load(Bits[w], Instruction.src) IN
              IF Div32Accepts(Bits[w], UnsignedDividend, y) THEN Quotes(Bits[w], UnsignedDividend, y) ELSE Quits
         /\ SignedDivideInstruction =>
              LET y == Signed(Bits[w], Load(Bits[w], Instruction.src)) IN
              IF Idiv32Accepts(Bits[w], SignedDividend, y) THEN Quotes(Bits[w], SignedDividend, y) ELSE Quits
<1>1. Load(Bits[w], Instruction.src) \in Number(Bits[w])
  BY LoadType DEF Typed
<1>2. ASSUME NEW x, NEW y, NEW accepted, Divides(accepted, x, y)
      PROVE  IF accepted THEN Quotes(Bits[w], x, y) ELSE Quits
  <2>1. CASE accepted
    <3>1. /\ regs' = SetPair(regs, Wrap(Bits[w], Remainder(x, y)), Wrap(Bits[w], Quotient(x, y)))
          /\ NextInstruction /\ UNCHANGED <<code, mem, outcome>> /\ flags' = flags
      BY <1>2, <2>1 DEF Divides, QuotientAndRemainder, Width
    <3>2. PutsPair(Bits[w], Wrap(Bits[w], Remainder(x, y)), Wrap(Bits[w], Quotient(x, y)), flags)
      BY <3>1, PairIsPut
    <3> QED
      BY <2>1, <3>2 DEF Quotes
  <2>2. CASE ~ accepted
    BY <1>2, <2>2 DEF Divides, Quits
  <2> QED
    BY <2>1, <2>2
<1>3. DivideInstruction =>
        LET y == Load(Bits[w], Instruction.src) IN
        Divides(Div32Accepts(Bits[w], UnsignedDividend, y), UnsignedDividend, y)
  BY DEF DivideInstruction, Width
<1>4. SignedDivideInstruction =>
        LET y == Signed(Bits[w], Load(Bits[w], Instruction.src)) IN
        Divides(Idiv32Accepts(Bits[w], SignedDividend, y), SignedDividend, y)
  BY DEF SignedDivideInstruction, Width
<1> QED
  BY <1>1, <1>2, <1>3, <1>4

LEMMA DividendType ==
  ASSUME Typed, NEW w \in Widths, Instruction.w = w
  PROVE  UnsignedDividend \in Int /\ SignedDividend \in Int
<1> DEFINE k == Bits[w]
           d == Bits["dword"]
           whole == Pair(k, High, Low)
<1>1. k = Width /\ k \in Nat /\ k > 0 /\ 2 * k \in Nat /\ 2 * k > 0 /\ 2 * k - 1 \in Nat /\ 2 * d \in Nat
  BY WidthFacts DEF Width, Widths
<1>2. 2^k \in Int /\ 2^(2 * k) \in Int
  BY <1>1, PowerType
<1>3. Low \in Int /\ High \in Int
  BY <1>1, AccumulatorType, NarrowNumbers
<1>4. whole \in Int
  <2> DEFINE p == 2^k
             high == High
             low == Low
  <2>1. whole = high * p + low
    BY DEF Pair
  <2> HIDE DEF p, high, low
  <2> QED
    BY <1>2, <1>3, <2>1 DEF p, high, low
<1>5. UnsignedDividend = IF Instruction.w = "word" THEN Wrap(2 * d, Signed(2 * k, whole)) ELSE whole
  BY <1>1 DEF UnsignedDividend
<1>6. SignedDividend = Signed(2 * k, whole)
  BY <1>1 DEF SignedDividend
<1> HIDE DEF whole, k, d
<1>7. TopBit(2 * k, whole) \in {0, 1}
  BY <1>1, <1>4, BitType DEF TopBit
<1>8. Signed(2 * k, whole) \in Int
  BY <1>2, <1>4, <1>7 DEF Signed
<1> DEFINE x == Signed(2 * k, whole)
<1> HIDE DEF x
<1>9. Wrap(2 * d, x) \in Int
  <2>1. Wrap(2 * d, x) \in Number(2 * d)
    BY <1>1, <1>8, WrapType DEF x
  <2> QED
    BY <1>1, <2>1, PowerType DEF Number
<1> QED
  BY <1>4, <1>5, <1>6, <1>8, <1>9 DEF x

LEMMA SpreadDoes ==
  ASSUME Typed, NEW w \in Widths, Instruction.w = w
  PROVE  /\ SignSpread(Bits[w], Low) \in Number(Bits[w])
         /\ SpreadInstruction => PutsPair(Bits[w], SignSpread(Bits[w], Low), Low, flags)
<1>1. Width = Bits[w] /\ Bits[w] \in Nat /\ Bits[w] > 0 /\ Low \in Number(Bits[w])
  BY WidthFacts, AccumulatorType DEF Width
<1>2. SignSpread(Bits[w], Low) \in Number(Bits[w])
  BY <1>1, ExtendedType
<1>3. ASSUME SpreadInstruction PROVE PutsPair(Bits[w], SignSpread(Bits[w], Low), Low, flags)
  <2>1. /\ regs' = SetPair(regs, SignSpread(Bits[w], Low), Low) /\ flags' = flags
        /\ NextInstruction /\ UNCHANGED <<code, mem, outcome>>
    BY <1>1, <1>3 DEF SpreadInstruction
  <2> QED
    BY <2>1, PairIsPut
<1> QED
  BY <1>2, <1>3

LEMMA ExtendDoes ==
  ASSUME Typed, NEW w \in Widths, Instruction.w = w
  PROVE  LET v == SignExtended(Bits[w], Low) IN
         /\ v \div 2^Bits[w] \in Number(Bits[w]) /\ Wrap(Bits[w], v) \in Number(Bits[w])
         /\ Pair(Bits[w], v \div 2^Bits[w], Wrap(Bits[w], v)) = v
         /\ ExtendInstruction => PutsPair(Bits[w], v \div 2^Bits[w], Wrap(Bits[w], v), flags)
<1> DEFINE v == SignExtended(Bits[w], Low)
<1>1. Width = Bits[w] /\ Bits[w] \in Nat /\ Bits[w] > 0 /\ Low \in Number(Bits[w])
  BY WidthFacts, AccumulatorType DEF Width
<1>2. v \in Number(2 * Bits[w])
  BY <1>1, ExtendedType
<1>3. ASSUME ExtendInstruction
      PROVE  /\ regs' = SetPair(regs, v \div 2^Bits[w], Wrap(Bits[w], v)) /\ flags' = flags
             /\ NextInstruction /\ UNCHANGED <<code, mem, outcome>>
  BY <1>1, <1>3 DEF ExtendInstruction
<1> HIDE DEF v
<1>4. ASSUME ExtendInstruction PROVE PutsPair(Bits[w], v \div 2^Bits[w], Wrap(Bits[w], v), flags)
  BY <1>3, <1>4, PairIsPut
<1>5. /\ v \div 2^Bits[w] \in Number(Bits[w]) /\ Wrap(Bits[w], v) \in Number(Bits[w])
      /\ Pair(Bits[w], v \div 2^Bits[w], Wrap(Bits[w], v)) = v
  BY <1>1, <1>2, HalvesType
<1> QED
  BY <1>4, <1>5 DEF v

LEMMA DecimalDoes ==
  ASSUME Typed, Instruction.w = "byte"
  PROVE  /\ Low \in Byte /\ High \in Byte
         /\ DecimalInstruction =>
              \E r : /\ DecimalLeaves(Instruction.op, High, Low, flags, r)
                     /\ PutsPair(Bits["byte"], r.ah, r.al, r.flags)
<1> DEFINE op == Instruction.op
           r == DecimalResult(op, High, Low, flags)
<1>1. "byte" \in Widths /\ Bits["byte"] = 8
  BY WidthFacts DEF Widths
<1>2. Low \in Byte /\ High \in Byte
  BY <1>1, AccumulatorType, NarrowNumbers DEF Byte
<1>3. ASSUME DecimalInstruction
      PROVE  \E v : DecimalLeaves(op, High, Low, flags, v) /\ PutsPair(Bits["byte"], v.ah, v.al, v.flags)
  <2>1. /\ op \in {"daa", "das", "aaa", "aas", "aam", "aad"}
        /\ regs' = SetPair(regs, r.ah, r.al) /\ flags' = r.flags
        /\ NextInstruction /\ UNCHANGED <<code, mem, outcome>>
    BY <1>3 DEF DecimalInstruction, Runs
  <2>2. /\ op = "daa" => r = Daa(High, Low, flags)
        /\ op = "das" => r = Das(High, Low, flags)
        /\ op = "aaa" => r = Aaa(High, Low, flags)
        /\ op = "aas" => r = Aas(High, Low, flags)
        /\ op = "aam" => r = Aam(High, Low, flags)
        /\ op = "aad" => r = Aad(High, Low, flags)
    BY DEF DecimalResult
  <2> HIDE DEF r
  <2>3. PutsPair(Bits["byte"], r.ah, r.al, r.flags)
    BY <1>1, <2>1, PairIsPut
  <2>4. flags \in FlagFile
    BY DEF Typed
  <2> HIDE DEF op
  <2>5. DecimalLeaves(op, High, Low, flags, r)
    <3>1. CASE op = "daa"
      BY <1>2, <2>2, <2>4, <3>1, DaaIs
    <3>2. CASE op = "das"
      BY <1>2, <2>2, <2>4, <3>2, DasIs
    <3>3. CASE op = "aaa"
      BY <1>2, <2>2, <2>4, <3>3, AaaIs
    <3>4. CASE op = "aas"
      BY <1>2, <2>2, <2>4, <3>4, AasIs
    <3>5. CASE op = "aam"
      BY <1>2, <2>2, <2>4, <3>5, AamIs
    <3>6. CASE op = "aad"
      BY <1>2, <2>2, <2>4, <3>6, AadIs
    <3> QED
      BY <2>1, <3>1, <3>2, <3>3, <3>4, <3>5, <3>6
  <2> QED
    BY <2>3, <2>5
<1> QED
  BY <1>2, <1>3

\* jcc, cmovcc, setcc and the instructions of single flags
LEMMA ConditionsDo ==
  /\ JumpIf => /\ pc' = IF Holds(Instruction.cc, flags) THEN Instruction.to ELSE pc + 1
               /\ UNCHANGED <<code, regs, flags, mem, outcome>>
  /\ \A w : Instruction.w = w /\ MoveIf =>
       IF Holds(Instruction.cc, flags)
       THEN Puts(Bits[w], Instruction.dst, Load(Bits[w], Instruction.src), flags) ELSE Passes(regs, flags)
  /\ SetIf => Puts(Bits["byte"], Instruction.dst, Bit(Holds(Instruction.cc, flags)), flags)
<1>1. JumpIf => /\ pc' = IF Holds(Instruction.cc, flags) THEN Instruction.to ELSE pc + 1
                /\ UNCHANGED <<code, regs, flags, mem, outcome>>
  BY DEF JumpIf
<1>2. ASSUME NEW w, Instruction.w = w, MoveIf
      PROVE  IF Holds(Instruction.cc, flags)
             THEN Puts(Bits[w], Instruction.dst, Load(Bits[w], Instruction.src), flags) ELSE Passes(regs, flags)
  BY <1>2 DEF MoveIf, Width, Puts, Passes, NextInstruction
<1>3. SetIf => Puts(Bits["byte"], Instruction.dst, Bit(Holds(Instruction.cc, flags)), flags)
  BY DEF SetIf, Puts, Passes, NextInstruction
<1> QED
  BY <1>1, <1>2, <1>3

LEMMA FlagDoes ==
  ASSUME Typed, FlagInstruction
  PROVE  \E g \in FlagFile :
           /\ Passes(regs, g)
           /\ Instruction.op = "cld" => g.DF = 0 /\ g.CF = flags.CF
           /\ Instruction.op = "std" => g.DF = 1 /\ g.CF = flags.CF
           /\ Instruction.op = "cmc" => g.CF = 1 - flags.CF /\ g.DF = flags.DF
<1>1. Passes(regs, flags') /\ Instruction.op \in {"cld", "std", "cmc"}
  BY DEF FlagInstruction, Passes, NextInstruction, Runs
<1>2. /\ Instruction.op = "cld" => flags' = [flags EXCEPT !.DF = 0]
      /\ Instruction.op = "std" => flags' = [flags EXCEPT !.DF = 1]
      /\ Instruction.op = "cmc" => flags' = [flags EXCEPT !.CF = 1 - @]
  BY DEF FlagInstruction
<1>3. flags \in FlagFile
  BY DEF Typed
<1>4. CASE Instruction.op = "cld"
  BY <1>1, <1>2, <1>3, <1>4 DEF FlagFile, Flag
<1>5. CASE Instruction.op = "std"
  BY <1>1, <1>2, <1>3, <1>5 DEF FlagFile, Flag
<1>6. CASE Instruction.op = "cmc"
  <2>1. 1 - flags.CF \in {0, 1}
    BY <1>3 DEF FlagFile, Flag
  <2> QED
    BY <1>1, <1>2, <1>3, <1>6, <2>1 DEF FlagFile, Flag
<1> QED
  BY <1>1, <1>4, <1>5, <1>6

LEMMA MovingType ==
  ASSUME Typed, NEW pointers
  PROVE  Moving(pointers) \in RegFile
<1>1. Bits["dword"] \in Nat /\ Step(flags) \in Int
  BY RoomFor DEF Step
<1>2. ASSUME NEW r \in Register
      PROVE  regs[r] \in Number(Bits["dword"]) /\ Wrap(Bits["dword"], regs[r] + Step(flags)) \in Number(Bits["dword"])
  <2>1. regs[r] \in Number(Bits["dword"])
    BY DEF Typed, RegFile
  <2>2. regs[r] \in Int
    BY <1>1, <2>1, PowerType DEF Number
  <2> QED
    BY <1>1, <2>1, <2>2, WrapType
<1> QED
  BY <1>2 DEF Moving, RegFile

LEMMA RepeatType ==
  ASSUME Typed, NEW file \in RegFile, NEW g \in FlagFile, Repeat(file, g)
  PROVE  regs' \in RegFile /\ flags' \in FlagFile /\ pc' \in {pc, pc + 1}
<1>1. Bits["dword"] \in Nat /\ file["ecx"] \in Number(Bits["dword"])
  BY RoomFor, Registers DEF RegFile
<1>2. file["ecx"] \in Int
  BY <1>1, PowerType DEF Number
<1>3. Wrap(Bits["dword"], file["ecx"] - 1) \in Number(Bits["dword"])
  BY <1>1, <1>2, WrapType
<1> QED
  BY <1>3 DEF Repeat, RegFile

LEMMA ComparedFlags ==
  ASSUME Typed, NEW a \in Byte, NEW b \in Byte
  PROVE  DifferenceLeaves(8, a, b, 0, flags, Difference(8, a, b, 0, flags))
<1>1. Number(8) = 0..255
  BY WidthFacts, NarrowNumbers DEF Widths
<1>2. 8 \in Nat /\ 8 > 0 /\ 0 \in {0, 1} /\ a \in Number(8) /\ b \in Number(8) /\ flags \in FlagFile
  BY <1>1 DEF Byte, Typed
<1> QED
  BY <1>2, DifferenceIs, Zenon

LEMMA ElementType ==
  ASSUME Typed
  PROVE  /\ AL \in Byte
         /\ regs["esi"] \in DOMAIN mem => Source \in Byte
         /\ regs["edi"] \in DOMAIN mem => Target \in Byte
<1>1. Bits["byte"] = 8 /\ "byte" \in Widths
  BY WidthFacts DEF Widths
<1>2. Load(Bits["byte"], R("ax")) \in Number(Bits["byte"])
  BY <1>1, LoadType DEF Typed, Arg, RegArg, R, Register
<1>3. AL \in Byte
  BY <1>1, <1>2, NarrowNumbers DEF AL, Load, R, Byte
<1> QED
  BY <1>3 DEF Typed, Source, Target

LEMMA StringsType ==
  ASSUME Typed, SkipRepeat \/ Movs \/ Stos \/ Lods \/ Scas \/ Cmps
  PROVE  Typed' /\ pc' \in {pc, pc + 1} /\ code' = code /\ outcome' = outcome
<1>0. Bits["byte"] = 8 /\ flags \in FlagFile
  BY WidthFacts DEF Widths, Typed
<1>1. CASE SkipRepeat
  BY <1>1 DEF SkipRepeat, Typed, NextInstruction
<1>2. CASE Movs
  <2>1. /\ regs["esi"] \in DOMAIN mem /\ regs["edi"] \in DOMAIN mem
        /\ mem' = [mem EXCEPT ![regs["edi"]] = Source]
        /\ Repeat(Moving({"esi", "edi"}), flags) /\ code' = code /\ outcome' = outcome
    BY <1>2 DEF Movs, StringRuns
  <2>2. regs' \in RegFile /\ flags' \in FlagFile /\ pc' \in {pc, pc + 1}
    BY <1>0, <2>1, MovingType, RepeatType
  <2>3. mem' \in [Address -> Byte]
    BY <2>1, ElementType DEF Typed
  <2> QED
    BY <2>1, <2>2, <2>3 DEF Typed
<1>3. CASE Stos
  <2>1. /\ mem' = [mem EXCEPT ![regs["edi"]] = AL]
        /\ Repeat(Moving({"edi"}), flags) /\ code' = code /\ outcome' = outcome
    BY <1>3 DEF Stos, StringRuns
  <2>2. regs' \in RegFile /\ flags' \in FlagFile /\ pc' \in {pc, pc + 1}
    BY <1>0, <2>1, MovingType, RepeatType
  <2>3. mem' \in [Address -> Byte]
    BY <2>1, ElementType DEF Typed
  <2> QED
    BY <2>1, <2>2, <2>3 DEF Typed
<1>4. CASE Lods
  <2> DEFINE file == Stored(Moving({"esi"}), Bits["byte"], R("ax"), Source)
  <2>1. /\ regs["esi"] \in DOMAIN mem /\ Repeat(file, flags)
        /\ code' = code /\ outcome' = outcome /\ mem' = mem
    BY <1>4 DEF Lods, StringRuns, R
  <2>2. Source \in Number(Bits["byte"]) /\ "byte" \in Widths
    BY <1>0, <2>1, ElementType, NarrowNumbers DEF Byte, Widths
  <2>3. file \in RegFile
    <3>1. R("ax").reg \in Register /\ Moving({"esi"}) \in RegFile
      BY MovingType DEF R, Register
    <3> QED
      BY <2>2, <3>1, StoredIs
  <2> HIDE DEF file
  <2>4. regs' \in RegFile /\ flags' \in FlagFile /\ pc' \in {pc, pc + 1}
    BY <1>0, <2>1, <2>3, RepeatType
  <2> QED
    BY <2>1, <2>4 DEF Typed
<1>5. CASE Scas
  <2> DEFINE g == Difference(8, AL, Target, 0, flags).flags
  <2>1. /\ regs["edi"] \in DOMAIN mem /\ Repeat(Moving({"edi"}), g)
        /\ code' = code /\ outcome' = outcome /\ mem' = mem
    BY <1>0, <1>5 DEF Scas, StringRuns
  <2>2. g \in FlagFile
    BY <2>1, ElementType, ComparedFlags DEF DifferenceLeaves, Results
  <2> HIDE DEF g
  <2>3. regs' \in RegFile /\ flags' \in FlagFile /\ pc' \in {pc, pc + 1}
    BY <2>1, <2>2, MovingType, RepeatType
  <2> QED
    BY <2>1, <2>3 DEF Typed
<1>6. CASE Cmps
  <2> DEFINE g == Difference(8, Source, Target, 0, flags).flags
  <2>1. /\ regs["esi"] \in DOMAIN mem /\ regs["edi"] \in DOMAIN mem /\ Repeat(Moving({"esi", "edi"}), g)
        /\ code' = code /\ outcome' = outcome /\ mem' = mem
    BY <1>0, <1>6 DEF Cmps, StringRuns
  <2>2. g \in FlagFile
    BY <2>1, ElementType, ComparedFlags DEF DifferenceLeaves, Results
  <2> HIDE DEF g
  <2>3. regs' \in RegFile /\ flags' \in FlagFile /\ pc' \in {pc, pc + 1}
    BY <2>1, <2>2, MovingType, RepeatType
  <2> QED
    BY <2>1, <2>3 DEF Typed
<1> QED
  BY <1>1, <1>2, <1>3, <1>4, <1>5, <1>6

LEMMA PutsType ==
  ASSUME Typed, NEW w \in Widths, NEW arg, arg.reg \in Register, NEW v \in Number(Bits[w]), NEW g \in FlagFile,
         Puts(Bits[w], arg, v, g)
  PROVE  Typed' /\ pc' = pc + 1 /\ code' = code /\ outcome' = outcome
BY StoredIs DEF Typed, Puts, Passes

LEMMA PutsPairType ==
  ASSUME Typed, NEW w \in Widths, NEW high \in Number(Bits[w]), NEW low \in Number(Bits[w]), NEW g \in FlagFile,
         PutsPair(Bits[w], high, low, g)
  PROVE  Typed' /\ pc' = pc + 1 /\ code' = code /\ outcome' = outcome
<1>1. R("ax").reg \in Register /\ R("dx").reg \in Register
  BY DEF R, Register
<1>2. Stored(regs, Bits[w], R("ax"), low) \in RegFile
  BY <1>1, StoredIs DEF Typed
<1>3. Stored(Stored(regs, Bits[w], R("ax"), low), Bits[w], R("dx"), high) \in RegFile
  BY <1>1, <1>2, StoredIs
<1> QED
  BY <1>3 DEF Typed, PutsPair, Passes

LEMMA OperatesType ==
  ASSUME Typed, NEW w \in Widths, NEW arg, arg.reg \in Register, NEW op, NEW a, NEW b,
         Operates(op, Bits[w], arg, a, b)
  PROVE  Typed' /\ pc' = pc + 1 /\ code' = code /\ outcome' = outcome
<1>1. PICK r \in Results(Bits[w]) :
         IF op \in {"cmp", "test"} THEN Passes(regs, r.flags) ELSE Puts(Bits[w], arg, r.value, r.flags)
  BY DEF Operates
<1>2. r.value \in Number(Bits[w]) /\ r.flags \in FlagFile
  BY DEF Results
<1> QED
  BY <1>1, <1>2, PutsType DEF Passes, Typed

\* Every action leaves registers, flags and memory what they are, and goes to an
\* instruction of the code or past the last one.
LEMMA StepType ==
  ASSUME Typed, pc \in 1..(Len(code) + 1), Len(code) \in Nat, Written(code), outcome \in {"running", "aborted"}, Execute
  PROVE  /\ Typed' /\ code' = code
         /\ pc' \in 1..(Len(code) + 1) /\ outcome' \in {"running", "aborted"}
<1> DEFINE w == Instruction.w
           op == Instruction.op
<1>1. outcome = "running" /\ pc \in 1..Len(code) /\ Acts(op)
  BY Executes
<1>2. WellFormed(Instruction, Len(code))
  BY <1>1 DEF Written, Instruction
<1>3. /\ op # "j" => w \in Widths
      /\ op \notin Bare => RegArg(Instruction.dst) /\ Arg(Instruction.src)
      /\ op = "set" => RegArg(Instruction.dst)
      /\ op = "xchg" => RegArg(Instruction.src)
      /\ op = "imulTo" => RegArg(Instruction.left)
      /\ op \in {"81", "83"} => Instruction.digit \in 0..7
      /\ op = "j" => Instruction.to \in 1..(Len(code) + 1)
      /\ op \in {"daa", "das", "aaa", "aas", "aam", "aad"} => w = "byte"
  BY <1>2 DEF WellFormed
<1>4. RegArg(Instruction.dst) => Instruction.dst.reg \in Register
  BY DEF RegArg
<1> DEFINE Good == /\ Typed' /\ code' = code /\ (pc' = pc + 1 \/ pc' = pc) /\ outcome' = outcome
<1>5. CASE TwoOperandInstruction \/ CompareInstruction
  <2>1. op \notin Bare /\ op # "j"
    BY <1>5, ActionNames DEF Runs, Bare
  <2>2. Good
    BY <1>3, <1>4, <1>5, <2>1, TwoOperandDoes, OperatesType
  <2> QED
    BY <1>1, <2>2
<1>6. CASE ImmediateInstruction
  <2>1. op = "81" /\ op \notin Bare /\ op # "j"
    BY <1>6, ActionNames DEF Runs, Bare
  <2>2. Load(Bits[w], Instruction.src) \in Number(Bits[w])
    BY <1>3, <2>1, LoadType DEF Typed
  <2>3. Good
    BY <1>3, <1>4, <1>6, <2>1, <2>2, ImmediateDoes, OperatesType, ZenonT(60)
  <2> QED
    BY <1>1, <2>3
<1>7. CASE ShortImmediateInstruction
  <2>1. op = "83" /\ op \notin Bare /\ op # "j"
    BY <1>7, ActionNames DEF Runs, Bare
  <2>2. Wrap(Bits[w], Signed(8, Load(8, Instruction.src))) \in Number(Bits[w])
    BY <1>3, <2>1, ByteLoads, WrapType, WidthFacts
  <2>3. Good
    BY <1>3, <1>4, <1>7, <2>1, <2>2, ImmediateDoes, OperatesType, ZenonT(60)
  <2> QED
    BY <1>1, <2>3
<1>8. CASE OneOperandInstruction
  <2>1. op \notin Bare /\ op # "j"
    BY <1>8, ActionNames DEF Runs, Bare
  <2>2. PICK r \in Results(Bits[w]) : Puts(Bits[w], Instruction.dst, r.value, r.flags)
    BY <1>3, <1>8, <2>1, OneOperandDoes
  <2>3. r.value \in Number(Bits[w]) /\ r.flags \in FlagFile
    BY DEF Results
  <2>4. Good
    BY <1>3, <1>4, <2>1, <2>2, <2>3, PutsType
  <2> QED
    BY <1>1, <2>4
<1>9. CASE ShiftInstruction
  <2>1. op \notin Bare /\ op # "j"
    BY <1>9, ActionNames DEF Runs, Bare
  <2>2. PICK r \in Results(Bits[w]) : Puts(Bits[w], Instruction.dst, r.value, r.flags)
    BY <1>3, <1>9, <2>1, ShiftDoes
  <2>3. r.value \in Number(Bits[w]) /\ r.flags \in FlagFile
    BY DEF Results
  <2>4. Good
    BY <1>3, <1>4, <2>1, <2>2, <2>3, PutsType
  <2> QED
    BY <1>1, <2>4
<1>10. CASE MoveInstruction
  <2>1. op \notin Bare /\ op # "j"
    BY <1>10, ActionNames DEF Runs, Bare
  <2>2. PICK v : MoveLeaves(op, Bits[w], Instruction.src, v) /\ Puts(Bits[w], Instruction.dst, v, flags)
    BY <1>3, <1>10, <2>1, MoveDoes
  <2>3. v \in Number(Bits[w]) /\ flags \in FlagFile
    BY <2>2 DEF MoveLeaves, Typed
  <2>4. Good
    BY <1>3, <1>4, <2>1, <2>2, <2>3, PutsType
  <2> QED
    BY <1>1, <2>4
<1>11. CASE ExchangeInstruction
  <2>1. op \notin Bare /\ op # "j" /\ op = "xchg"
    BY <1>11, ActionNames DEF Runs, Bare
  <2> DEFINE a == Load(Bits[w], Instruction.dst)
             b == Load(Bits[w], Instruction.src)
  <2>2. /\ Passes(Stored(Stored(regs, Bits[w], Instruction.dst, b), Bits[w], Instruction.src, a), flags)
        /\ a \in Number(Bits[w]) /\ b \in Number(Bits[w])
    BY <1>3, <1>11, <2>1, ExchangeDoes
  <2> HIDE DEF a, b
  <2>3. Stored(regs, Bits[w], Instruction.dst, b) \in RegFile
    BY <1>3, <1>4, <2>1, <2>2, StoredIs DEF Typed
  <2>4. Stored(Stored(regs, Bits[w], Instruction.dst, b), Bits[w], Instruction.src, a) \in RegFile
    BY <1>3, <2>1, <2>2, <2>3, StoredIs DEF RegArg
  <2> QED
    BY <1>1, <2>2, <2>4 DEF Passes, Typed
<1>12. CASE MultiplyInstruction
  <2>1. op \notin Bare /\ op # "j"
    BY <1>12, ActionNames DEF Runs, Bare
  <2>2. PICK r : /\ MultiplyLeaves(op, Bits[w], Low, Load(Bits[w], Instruction.src), r)
                 /\ r.value \div 2^Bits[w] \in Number(Bits[w]) /\ Wrap(Bits[w], r.value) \in Number(Bits[w])
                 /\ PutsPair(Bits[w], r.value \div 2^Bits[w], Wrap(Bits[w], r.value), r.flags)
    BY <1>3, <1>12, <2>1, MultiplyDoes
  <2>3. r.flags \in FlagFile
    BY <2>2 DEF MultiplyLeaves
  <2>4. Good
    BY <1>3, <2>1, <2>2, <2>3, PutsPairType
  <2> QED
    BY <1>1, <2>4
<1>13. CASE MultiplyToRegister
  <2>1. op \notin Bare /\ op # "j" /\ op = "imulTo"
    BY <1>13, ActionNames DEF Runs, Bare
  <2>2. PICK r : /\ LET x == Signed(Bits[w], Load(Bits[w], Instruction.left))
                              * Signed(Bits[w], Load(Bits[w], Instruction.src)) IN
                    ProductLeaves(Bits[w], x, Signed(Bits[w], Wrap(Bits[w], x)) # x, flags, r)
                 /\ Wrap(Bits[w], r.value) \in Number(Bits[w])
                 /\ Puts(Bits[w], Instruction.dst, Wrap(Bits[w], r.value), r.flags)
    BY <1>3, <1>13, <2>1, MultiplyToDoes
  <2>3. r.flags \in FlagFile
    BY <2>2 DEF ProductLeaves
  <2>4. Good
    BY <1>3, <1>4, <2>1, <2>2, <2>3, PutsType
  <2> QED
    BY <1>1, <2>4
<1>14. CASE DivideInstruction \/ SignedDivideInstruction
  <2>1. op \notin Bare /\ op # "j"
    BY <1>14, ActionNames DEF Runs, Bare
  <2>2. \/ Quits
        \/ \E x \in Int, y \in Int : y # 0 /\ Quotes(Bits[w], x, y)
    <3> DEFINE y == Load(Bits[w], Instruction.src)
               z == Signed(Bits[w], Load(Bits[w], Instruction.src))
    <3>1. y \in Number(Bits[w]) /\ UnsignedDividend \in Int /\ SignedDividend \in Int
      BY <1>3, <2>1, DivideDoes, DividendType
    <3>2. y \in Int /\ z \in Int
      <4>1. Bits[w] \in Nat /\ Bits[w] > 0
        BY <1>3, <2>1, WidthFacts
      <4> QED
        BY <3>1, <4>1, SignedIs, PowerType DEF Number, SignedTo
    <3>3. /\ Div32Accepts(Bits[w], UnsignedDividend, y) => y # 0
          /\ Idiv32Accepts(Bits[w], SignedDividend, z) => z # 0
      BY DEF Div32Accepts, Idiv32Accepts
    <3>4. CASE DivideInstruction
      <4>1. IF Div32Accepts(Bits[w], UnsignedDividend, y) THEN Quotes(Bits[w], UnsignedDividend, y) ELSE Quits
        BY <1>3, <2>1, <3>4, DivideDoes
      <4> QED
        BY <3>1, <3>2, <3>3, <4>1
    <3>5. CASE SignedDivideInstruction
      <4>1. IF Idiv32Accepts(Bits[w], SignedDividend, z) THEN Quotes(Bits[w], SignedDividend, z) ELSE Quits
        BY <1>3, <2>1, <3>5, DivideDoes
      <4> QED
        BY <3>1, <3>2, <3>3, <4>1
    <3> QED
      BY <1>14, <3>4, <3>5
  <2>3. CASE Quits
    BY <1>1, <2>3 DEF Quits, Typed
  <2>4. CASE \E x \in Int, y \in Int : y # 0 /\ Quotes(Bits[w], x, y)
    <3>1. PICK x \in Int, y \in Int : y # 0 /\ Quotes(Bits[w], x, y)
      BY <2>4
    <3>2. Wrap(Bits[w], Remainder(x, y)) \in Number(Bits[w]) /\ Wrap(Bits[w], Quotient(x, y)) \in Number(Bits[w])
      <4>1. Quotient(x, y) \in Int /\ Remainder(x, y) \in Int
        BY <3>1, QuotientType
      <4>2. Bits[w] \in Nat
        BY <1>3, <2>1, WidthFacts
      <4> QED
        BY <4>1, <4>2, WrapType
    <3>3. Good
      BY <1>3, <2>1, <3>1, <3>2, PutsPairType DEF Quotes, Typed
    <3> QED
      BY <1>1, <3>3
  <2> QED
    BY <2>2, <2>3, <2>4
<1>15. CASE ExtendInstruction
  <2>1. op \notin Bare /\ op # "j"
    BY <1>15, ActionNames DEF Runs, Bare
  <2> DEFINE v == SignExtended(Bits[w], Low)
  <2>2. /\ v \div 2^Bits[w] \in Number(Bits[w]) /\ Wrap(Bits[w], v) \in Number(Bits[w])
        /\ PutsPair(Bits[w], v \div 2^Bits[w], Wrap(Bits[w], v), flags)
    BY <1>3, <1>15, <2>1, ExtendDoes
  <2>3. Good
    BY <1>3, <2>1, <2>2, PutsPairType DEF Typed
  <2> QED
    BY <1>1, <2>3
<1>16. CASE SpreadInstruction
  <2>1. op \notin Bare /\ op # "j"
    BY <1>16, ActionNames DEF Runs, Bare
  <2>2. /\ SignSpread(Bits[w], Low) \in Number(Bits[w]) /\ Low \in Number(Bits[w])
        /\ PutsPair(Bits[w], SignSpread(Bits[w], Low), Low, flags)
    BY <1>3, <1>16, <2>1, SpreadDoes, AccumulatorType
  <2>3. Good
    BY <1>3, <2>1, <2>2, PutsPairType DEF Typed
  <2> QED
    BY <1>1, <2>3
<1>17. CASE DecimalInstruction
  <2>1. w = "byte" /\ "byte" \in Widths /\ Bits["byte"] = 8
    BY <1>3, <1>17, ActionNames, WidthFacts DEF Runs, Widths
  <2>2. PICK r : /\ DecimalLeaves(op, High, Low, flags, r)
                 /\ PutsPair(Bits["byte"], r.ah, r.al, r.flags)
    BY <1>17, <2>1, DecimalDoes
  <2>3. r.ah \in Number(Bits["byte"]) /\ r.al \in Number(Bits["byte"]) /\ r.flags \in FlagFile
    <3>1. 0..255 \subseteq Number(Bits["byte"])
      BY <2>1, NarrowNumbers
    <3>2. r.ah \in Byte /\ r.al \in Byte /\ r.flags \in FlagFile
      BY <2>2 DEF DecimalLeaves
    <3> QED
      BY <3>1, <3>2 DEF Byte
  <2>4. Good
    BY <2>1, <2>2, <2>3, PutsPairType
  <2> QED
    BY <1>1, <2>4
<1>18. CASE JumpIf
  <2>1. op = "j"
    BY <1>18, ActionNames DEF Runs
  <2> QED
    BY <1>1, <1>3, <1>18, <2>1, ConditionsDo DEF Typed
<1>19. CASE MoveIf
  <2>1. op \notin Bare /\ op # "j"
    BY <1>19, ActionNames DEF Runs, Bare
  <2>2. \/ Puts(Bits[w], Instruction.dst, Load(Bits[w], Instruction.src), flags)
        \/ Passes(regs, flags)
    BY <1>19, ConditionsDo
  <2>3. Load(Bits[w], Instruction.src) \in Number(Bits[w])
    BY <1>3, <2>1, LoadType DEF Typed
  <2>4. Good
    BY <1>3, <1>4, <2>1, <2>2, <2>3, PutsType DEF Passes, Typed
  <2> QED
    BY <1>1, <2>4
<1>20. CASE SetIf
  <2>1. op = "set"
    BY <1>20, ActionNames DEF Runs
  <2>2. Bit(Holds(Instruction.cc, flags)) \in Number(Bits["byte"]) /\ "byte" \in Widths
    <3>1. "byte" \in Widths
      BY DEF Widths
    <3>2. 0..255 \subseteq Number(Bits["byte"])
      BY <3>1, NarrowNumbers
    <3> QED
      BY <3>1, <3>2, 0 \in 0..255, 1 \in 0..255 DEF Bit
  <2>3. Good
    BY <1>3, <1>4, <1>20, <2>1, <2>2, ConditionsDo, PutsType DEF Typed
  <2> QED
    BY <1>1, <2>3
<1>21. CASE FlagInstruction
  <2>1. PICK g \in FlagFile : Passes(regs, g)
    BY <1>21, FlagDoes
  <2> QED
    BY <1>1, <2>1 DEF Passes, Typed
<1>22. CASE SkipRepeat \/ Movs \/ Stos \/ Lods \/ Scas \/ Cmps
  <2>1. Typed' /\ pc' \in {pc, pc + 1} /\ code' = code /\ outcome' = outcome
    BY <1>22, StringsType
  <2> QED
    BY <1>1, <2>1
<1> QED
  BY <1>5, <1>6, <1>7, <1>8, <1>9, <1>10, <1>11, <1>12, <1>13, <1>14, <1>15, <1>16, <1>17, <1>18, <1>19, <1>20,
     <1>21, <1>22 DEF Execute

LEMMA TypedIs ==
  TypeOK <=> /\ start.task \in Tasks /\ start.w \in WidthsOf(start.task)
             /\ code = Code(start.task, start.w, start.cc) /\ pc \in 1..(Len(code) + 1)
             /\ Typed /\ outcome \in {"running", "aborted"}
BY DEF TypeOK, Typed, RegFile, FlagFile, Number, Byte

\* What every step starts from.
Running == StartOK /\ Typed /\ pc \in 1..(Len(code) + 1) /\ outcome \in {"running", "aborted"}

LEMMA RunningInit ==
  ASSUME Init
  PROVE  Running
<1>1. PICK task \in Tasks : \E w \in WidthsOf(task), cc \in ConditionsOf(task), m \in Memories(task) :
        \E file \in Inputs(task, w), f \in FlagsBefore :
          /\ Legal(task, Bits[w], file, m)
          /\ start = [task |-> task, w |-> w, cc |-> cc, regs |-> file, flags |-> f, mem |-> m]
          /\ code = Code(task, w, cc)
          /\ pc = 1
          /\ regs = file /\ flags = f /\ mem = m
          /\ outcome = "running"
  BY DEF Init
<1>2. PICK w \in WidthsOf(task), cc \in ConditionsOf(task), m \in Memories(task) :
        \E file \in Inputs(task, w), f \in FlagsBefore :
          /\ Legal(task, Bits[w], file, m)
          /\ start = [task |-> task, w |-> w, cc |-> cc, regs |-> file, flags |-> f, mem |-> m]
          /\ code = Code(task, w, cc)
          /\ pc = 1
          /\ regs = file /\ flags = f /\ mem = m
          /\ outcome = "running"
  BY <1>1
<1>3. PICK file \in Inputs(task, w), f \in FlagsBefore :
          /\ Legal(task, Bits[w], file, m)
          /\ start = [task |-> task, w |-> w, cc |-> cc, regs |-> file, flags |-> f, mem |-> m]
          /\ code = Code(task, w, cc)
          /\ pc = 1
          /\ regs = file /\ flags = f /\ mem = m
          /\ outcome = "running"
  BY <1>2
<1>4. StartOK /\ regs = s /\ flags = start.flags /\ mem = start.mem
  BY <1>3 DEF StartOK, s, n
<1>5. StartFits
  BY <1>4, StartIs
<1> QED
  BY <1>3, <1>4, <1>5 DEF Running, Typed, StartFits, Fits

LEMMA RunningStep ==
  ASSUME Running, Next
  PROVE  Running'
<1>1. StartFits /\ Execute /\ start' = start
  BY StartIs DEF Running, Next
<1>2. /\ Typed' /\ code' = code
      /\ pc' \in 1..(Len(code) + 1) /\ outcome' \in {"running", "aborted"}
  BY <1>1, StepType DEF Running, StartFits
<1>3. StartOK'
  BY <1>1, <1>2 DEF Running, StartOK, s, n
<1> QED
  BY <1>2, <1>3 DEF Running

LEMMA RunningAlways == Spec => []Running
<1>1. Init => Running
  BY RunningInit
<1>2. Running /\ [Next]_vars => Running'
  <2> SUFFICES ASSUME Running, UNCHANGED vars PROVE Running'
    BY RunningStep
  <2> QED
    BY DEF vars, machine, Running, StartOK, Typed, s, n
<1> QED
  BY <1>1, <1>2, PTL DEF Spec

\* Whatever an idiom computes, the interpreter keeps every register within 32 bits,
\* every flag a bit, every byte a byte, and eip at an instruction or at the end.
THEOREM TypeCorrect == Spec => []TypeOK
<1>1. Running => TypeOK
  BY TypedIs DEF Running, StartOK
<1> QED
  BY <1>1, RunningAlways, PTL

--------------------------------------------------------------------------------
(* A step of an idiom *)

LEMMA Stepping ==
  ASSUME Running, Next
  PROVE  /\ Execute /\ Typed /\ Typed' /\ StartFits /\ StartOK /\ code = Code(start.task, start.w, start.cc)
         /\ start' = start /\ n' = n /\ s' = s /\ n = Bits[start.w] /\ code' = code
         /\ pc \in 1..Len(code) /\ outcome = "running"
<1>1. Execute /\ start' = start
  BY DEF Next
<1>2. StartFits
  BY StartIs DEF Running
<1>3. pc \in 1..Len(code) /\ outcome = "running"
  BY <1>1, <1>2, Executes DEF Running, StartFits
<1>4. Typed' /\ code' = code
  BY <1>1, <1>2, StepType DEF Running, StartFits
<1> QED
  BY <1>1, <1>2, <1>3, <1>4 DEF Running, StartOK, n, s

--------------------------------------------------------------------------------
(* What one instruction of straight code makes of registers and flags *)

DecimalNames == {"daa", "das", "aaa", "aas", "aam", "aad"}
State == [regs : RegFile, flags : FlagFile]
Now == [regs |-> regs, flags |-> flags]

\* an operand of k bits, read from the registers x
In(x, k, arg) == IF "imm" \in DOMAIN arg THEN Wrap(k, arg.imm) ELSE Wrap(k, x[arg.reg])

\* From a to b, one register or the pair is written.
Writes(a, b, k, dst, v, g) == b.flags = g /\ b.regs = Stored(a.regs, k, dst, v)
WritesPair(a, b, k, high, low, g) ==
  b.flags = g /\ b.regs = Stored(Stored(a.regs, k, R("ax"), low), k, R("dx"), high)

DoesTwo(op, k, dst, x, y, a, b) ==
  \E r \in Results(k) :
    /\ TwoOperandsLeave(op, k, x, y, a.flags, r)
    /\ IF op \in {"cmp", "test"} THEN b.regs = a.regs /\ b.flags = r.flags ELSE Writes(a, b, k, dst, r.value, r.flags)
DoesOne(op, k, dst, x, a, b) ==
  \E r \in Results(k) : OneOperandLeaves(op, k, x, a.flags, r) /\ Writes(a, b, k, dst, r.value, r.flags)
DoesShift(op, k, dst, x, y, a, b) ==
  \E r \in Results(k) : ShiftLeaves(op, k, x, y, a.flags, r) /\ Writes(a, b, k, dst, r.value, r.flags)
DoesMultiply(op, k, x, y, a, b) ==
  \E r : /\ r.flags \in FlagFile /\ r.value \in Number(2 * k)
         /\ op = "mul" => ProductLeaves(k, x * y, x * y >= 2^k, a.flags, r) /\ r.value = x * y
         /\ op = "imul" => LET p == Signed(k, x) * Signed(k, y) IN
                           ProductLeaves(k, p, Signed(k, Wrap(k, p)) # p, a.flags, r)
         /\ r.value \div 2^k \in Number(k) /\ Wrap(k, r.value) \in Number(k)
         /\ Pair(k, r.value \div 2^k, Wrap(k, r.value)) = r.value
         /\ WritesPair(a, b, k, r.value \div 2^k, Wrap(k, r.value), r.flags)
DoesMultiplyTo(k, dst, x, y, a, b) ==
  \E r : /\ LET p == Signed(k, x) * Signed(k, y) IN ProductLeaves(k, p, Signed(k, Wrap(k, p)) # p, a.flags, r)
         /\ Wrap(k, r.value) \in Number(k)
         /\ Writes(a, b, k, dst, Wrap(k, r.value), r.flags)
DoesDivide(k, x, y, a, b) == WritesPair(a, b, k, Wrap(k, Remainder(x, y)), Wrap(k, Quotient(x, y)), a.flags)
DoesDecimal(op, high, low, a, b) ==
  \E r : DecimalLeaves(op, high, low, a.flags, r) /\ WritesPair(a, b, 8, r.ah, r.al, r.flags)

UnsignedIn(x, w) ==
  LET whole == Pair(Bits[w], In(x, Bits[w], R("dx")), In(x, Bits[w], R("ax"))) IN
  IF w = "word" THEN Wrap(2 * Bits["dword"], Signed(2 * Bits[w], whole)) ELSE whole
SignedIn(x, w) == Signed(2 * Bits[w], Pair(Bits[w], In(x, Bits[w], R("dx")), In(x, Bits[w], R("ax"))))

Does(c, a, b) ==
  LET k == Bits[c.w]
      arg(x) == In(a.regs, k, x)
      short == Wrap(k, Signed(8, In(a.regs, 8, c.src)))
      low == In(a.regs, k, R("ax"))
      high == In(a.regs, k, R("dx"))
  IN
  /\ c.op \in {"add", "adc", "sub", "sbb", "and", "or", "xor"} => DoesTwo(c.op, k, c.dst, arg(c.dst), arg(c.src), a, b)
  /\ c.op = "81" => DoesTwo(Digit[c.digit + 1], k, c.dst, arg(c.dst), arg(c.src), a, b)
  /\ c.op = "83" => DoesTwo(Digit[c.digit + 1], k, c.dst, arg(c.dst), short, a, b)
  /\ c.op \in {"inc", "dec", "not", "neg"} => DoesOne(c.op, k, c.dst, arg(c.dst), a, b)
  /\ c.op \in Shiftings => DoesShift(c.op, k, c.dst, arg(c.dst), In(a.regs, 8, c.src), a, b)
  /\ c.op = "movsx" => Writes(a, b, k, c.dst, short, a.flags)
  /\ c.op = "xchg" => /\ b.flags = a.flags
                      /\ b.regs = Stored(Stored(a.regs, k, c.dst, arg(c.src)), k, c.src, arg(c.dst))
  /\ c.op \in {"mul", "imul"} => DoesMultiply(c.op, k, low, arg(c.src), a, b)
  /\ c.op = "imulTo" => DoesMultiplyTo(k, c.dst, arg(c.left), arg(c.src), a, b)
  /\ c.op = "div" => /\ Div32Accepts(k, UnsignedIn(a.regs, c.w), arg(c.src))
                     /\ DoesDivide(k, UnsignedIn(a.regs, c.w), arg(c.src), a, b)
  /\ c.op = "idiv" => /\ Idiv32Accepts(k, SignedIn(a.regs, c.w), Signed(k, arg(c.src)))
                      /\ DoesDivide(k, SignedIn(a.regs, c.w), Signed(k, arg(c.src)), a, b)
  /\ c.op = "cwd" => WritesPair(a, b, k, SignSpread(k, low), low, a.flags)
  /\ c.op = "cbw" => LET v == SignExtended(k, low) IN WritesPair(a, b, k, v \div 2^k, Wrap(k, v), a.flags)
  /\ c.op \in DecimalNames => DoesDecimal(c.op, high, low, a, b)
  /\ c.op = "set" => Writes(a, b, 8, c.dst, Bit(Holds(c.cc, a.flags)), a.flags)
  /\ c.op = "cmc" => b.regs = a.regs /\ b.flags.CF = 1 - a.flags.CF

LEMMA InIsLoad ==
  ASSUME NEW k, NEW arg
  PROVE  In(regs, k, arg) = Load(k, arg)
BY DEF In, Load

LEMMA Reads ==
  ASSUME Running, Next
  PROVE  /\ Typed /\ Typed' /\ WellFormed(Instruction, Len(code)) /\ Acts(Instruction.op)
         /\ code' = code /\ start' = start /\ StartFits
<1>1. Execute /\ Typed /\ Typed' /\ StartFits /\ pc \in 1..Len(code) /\ code' = code /\ start' = start
  BY Stepping
<1>2. Acts(Instruction.op)
  BY <1>1, Executes
<1>3. WellFormed(Instruction, Len(code))
  BY <1>1 DEF StartFits, Written, Instruction
<1> QED
  BY <1>1, <1>2, <1>3

LEMMA NowIs ==
  /\ Now.regs = regs /\ Now.flags = flags /\ Now'.regs = regs' /\ Now'.flags = flags'
  /\ Typed => Now \in State
BY DEF Now, State, Typed

LEMMA PutsWrites ==
  ASSUME NEW k, NEW arg, NEW v, NEW g, Puts(k, arg, v, g)
  PROVE  Writes(Now, Now', k, arg, v, g) /\ pc' = pc + 1
BY NowIs, Zenon DEF Puts, Passes, Writes

LEMMA PutsPairWrites ==
  ASSUME NEW k, NEW high, NEW low, NEW g, PutsPair(k, high, low, g)
  PROVE  WritesPair(Now, Now', k, high, low, g) /\ pc' = pc + 1
BY NowIs, Zenon DEF PutsPair, Passes, WritesPair

LEMMA OperatesDoes ==
  ASSUME NEW op, NEW k, NEW dst, NEW x, NEW y, Operates(op, k, dst, x, y)
  PROVE  DoesTwo(op, k, dst, x, y, Now, Now') /\ pc' = pc + 1
<1>1. PICK r \in Results(k) : /\ TwoOperandsLeave(op, k, x, y, flags, r)
                              /\ IF op \in {"cmp", "test"} THEN Passes(regs, r.flags) ELSE Puts(k, dst, r.value, r.flags)
  BY DEF Operates
<1>2. CASE op \in {"cmp", "test"}
  <2>1. Now'.regs = Now.regs /\ Now'.flags = r.flags /\ pc' = pc + 1
    BY <1>1, <1>2, NowIs, Zenon DEF Passes
  <2> QED
    BY <1>1, <1>2, <2>1, NowIs, Zenon DEF DoesTwo
<1>3. CASE op \notin {"cmp", "test"}
  <2>1. Writes(Now, Now', k, dst, r.value, r.flags) /\ pc' = pc + 1
    BY <1>1, <1>3, PutsWrites, Zenon
  <2> QED
    BY <1>1, <1>3, <2>1, NowIs, Zenon DEF DoesTwo
<1> QED
  BY <1>2, <1>3, Zenon

\* one fact per kind of instruction
LEMMA SomeWidth ==
  ASSUME Running, Next, Instruction.op # "j"
  PROVE  /\ Instruction.w \in Widths /\ Bits[Instruction.w] \in Nat
         /\ Instruction.op \notin Bare => RegArg(Instruction.dst) /\ Arg(Instruction.src)
         /\ Instruction.op = "set" => RegArg(Instruction.dst)
         /\ Instruction.op = "xchg" => RegArg(Instruction.src)
         /\ Instruction.op = "imulTo" => RegArg(Instruction.left)
         /\ Instruction.op \in {"81", "83"} => Instruction.digit \in 0..7
         /\ Instruction.op \in DecimalNames => Instruction.w = "byte"
         /\ Typed /\ Acts(Instruction.op)
BY Reads, WidthFacts DEF WellFormed, DecimalNames

LEMMA TwoStep ==
  ASSUME Running, Next, Instruction.op \in {"add", "adc", "sub", "sbb", "and", "or", "xor"}
  PROVE  LET k == Bits[Instruction.w] IN
         /\ DoesTwo(Instruction.op, k, Instruction.dst, In(regs, k, Instruction.dst), In(regs, k, Instruction.src),
                    Now, Now')
         /\ pc' = pc + 1
<1>1. Instruction.w \in Widths /\ RegArg(Instruction.dst) /\ Arg(Instruction.src) /\ Typed /\ Acts(Instruction.op)
  BY SomeWidth DEF Bare
<1>2. TwoOperandInstruction
  BY <1>1 DEF Acts
<1>3. Operates(Instruction.op, Bits[Instruction.w], Instruction.dst, Load(Bits[Instruction.w], Instruction.dst),
               Load(Bits[Instruction.w], Instruction.src))
  BY <1>1, <1>2, TwoOperandDoes
<1> QED
  BY <1>3, OperatesDoes, InIsLoad, Zenon

LEMMA ImmediateStep ==
  ASSUME Running, Next, Instruction.op \in {"81", "83"}
  PROVE  LET k == Bits[Instruction.w] IN
         /\ DoesTwo(Digit[Instruction.digit + 1], k, Instruction.dst, In(regs, k, Instruction.dst),
                    IF Instruction.op = "81" THEN In(regs, k, Instruction.src)
                    ELSE Wrap(k, Signed(8, In(regs, 8, Instruction.src))),
                    Now, Now')
         /\ pc' = pc + 1
<1> DEFINE k == Bits[Instruction.w]
           v == IF Instruction.op = "81" THEN Load(k, Instruction.src)
                ELSE Wrap(k, Signed(8, Load(8, Instruction.src)))
<1>1. /\ Instruction.w \in Widths /\ RegArg(Instruction.dst) /\ Arg(Instruction.src) /\ Typed /\ Acts(Instruction.op)
      /\ Instruction.digit \in 0..7
  BY SomeWidth DEF Bare
<1>2. \/ ImmediateInstruction /\ v = Load(k, Instruction.src)
      \/ ShortImmediateInstruction /\ v = Wrap(k, Signed(8, Load(8, Instruction.src)))
  BY <1>1 DEF Acts
<1>3. v \in Number(k)
  BY <1>1, LoadType, ByteLoads, WrapType, WidthFacts DEF Typed
<1>4. v = IF Instruction.op = "81" THEN In(regs, k, Instruction.src)
          ELSE Wrap(k, Signed(8, In(regs, 8, Instruction.src)))
  BY InIsLoad, Zenon
<1> HIDE DEF v
<1>5. Operates(Digit[Instruction.digit + 1], k, Instruction.dst, Load(k, Instruction.dst), v)
  BY <1>1, <1>2, <1>3, ImmediateDoes
<1> QED
  BY <1>4, <1>5, OperatesDoes, InIsLoad, Zenon

LEMMA OneStep ==
  ASSUME Running, Next, Instruction.op \in {"inc", "dec", "not", "neg"}
  PROVE  LET k == Bits[Instruction.w] IN
         DoesOne(Instruction.op, k, Instruction.dst, In(regs, k, Instruction.dst), Now, Now') /\ pc' = pc + 1
<1> DEFINE k == Bits[Instruction.w]
<1>1. Instruction.w \in Widths /\ RegArg(Instruction.dst) /\ Typed /\ Acts(Instruction.op)
  BY SomeWidth DEF Bare
<1>2. OneOperandInstruction
  BY <1>1 DEF Acts
<1>3. PICK r \in Results(k) : /\ OneOperandLeaves(Instruction.op, k, Load(k, Instruction.dst), flags, r)
                              /\ Puts(k, Instruction.dst, r.value, r.flags)
  BY <1>1, <1>2, OneOperandDoes
<1>4. Writes(Now, Now', k, Instruction.dst, r.value, r.flags) /\ pc' = pc + 1
  BY <1>3, PutsWrites, Zenon
<1> QED
  BY <1>3, <1>4, InIsLoad, NowIs, Zenon DEF DoesOne

LEMMA ShiftStep ==
  ASSUME Running, Next, Instruction.op \in Shiftings
  PROVE  LET k == Bits[Instruction.w] IN
         /\ DoesShift(Instruction.op, k, Instruction.dst, In(regs, k, Instruction.dst), In(regs, 8, Instruction.src),
                      Now, Now')
         /\ pc' = pc + 1
<1> DEFINE k == Bits[Instruction.w]
<1>0. Instruction.op \in {"shl", "shr", "sar", "rol", "ror", "rcl", "rcr"}
  BY DEF Shiftings, ShiftNames, RotateNames
<1>1. Instruction.w \in Widths /\ RegArg(Instruction.dst) /\ Arg(Instruction.src) /\ Typed /\ Acts(Instruction.op)
  BY <1>0, SomeWidth DEF Bare
<1>2. ShiftInstruction
  BY <1>0, <1>1 DEF Acts
<1>3. PICK r \in Results(k) :
        /\ ShiftLeaves(Instruction.op, k, Load(k, Instruction.dst), Load(8, Instruction.src), flags, r)
        /\ Puts(k, Instruction.dst, r.value, r.flags)
  BY <1>1, <1>2, ShiftDoes
<1>4. Writes(Now, Now', k, Instruction.dst, r.value, r.flags) /\ pc' = pc + 1
  BY <1>3, PutsWrites, Zenon
<1> QED
  BY <1>3, <1>4, InIsLoad, NowIs, Zenon DEF DoesShift

LEMMA MoveStep ==
  ASSUME Running, Next, Instruction.op = "movsx"
  PROVE  LET k == Bits[Instruction.w] IN
         /\ Writes(Now, Now', k, Instruction.dst, Wrap(k, Signed(8, In(regs, 8, Instruction.src))), flags)
         /\ pc' = pc + 1
<1> DEFINE k == Bits[Instruction.w]
<1>1. Instruction.w \in Widths /\ RegArg(Instruction.dst) /\ Arg(Instruction.src) /\ Typed /\ Acts(Instruction.op)
  BY SomeWidth DEF Bare
<1>2. MoveInstruction
  BY <1>1 DEF Acts
<1>3. PICK v : MoveLeaves(Instruction.op, k, Instruction.src, v) /\ Puts(k, Instruction.dst, v, flags)
  BY <1>1, <1>2, MoveDoes
<1>4. v = Wrap(k, Signed(8, In(regs, 8, Instruction.src)))
  BY <1>3, InIsLoad, Zenon DEF MoveLeaves
<1> QED
  BY <1>3, <1>4, PutsWrites, Zenon

LEMMA ExchangeStep ==
  ASSUME Running, Next, Instruction.op = "xchg"
  PROVE  LET k == Bits[Instruction.w] IN
         /\ Now'.flags = flags /\ pc' = pc + 1
         /\ Now'.regs = Stored(Stored(regs, k, Instruction.dst, In(regs, k, Instruction.src)),
                               k, Instruction.src, In(regs, k, Instruction.dst))
<1> DEFINE k == Bits[Instruction.w]
<1>1. /\ Instruction.w \in Widths /\ RegArg(Instruction.dst) /\ RegArg(Instruction.src) /\ Typed
      /\ Acts(Instruction.op)
  BY SomeWidth DEF Bare
<1>2. ExchangeInstruction
  BY <1>1 DEF Acts
<1>3. Passes(Stored(Stored(regs, k, Instruction.dst, Load(k, Instruction.src)),
                    k, Instruction.src, Load(k, Instruction.dst)), flags)
  BY <1>1, <1>2, ExchangeDoes
<1> QED
  BY <1>3, InIsLoad, NowIs, Zenon DEF Passes

LEMMA HalvesLoad ==
  ASSUME NEW w, Instruction.w = w
  PROVE  /\ Low = In(regs, Bits[w], R("ax")) /\ High = In(regs, Bits[w], R("dx"))
         /\ UnsignedDividend = UnsignedIn(regs, w) /\ SignedDividend = SignedIn(regs, w)
<1>1. Low = In(regs, Bits[w], R("ax")) /\ High = In(regs, Bits[w], R("dx")) /\ Width = Bits[w]
  BY DEF Low, High, Width, In, R
<1> QED
  BY <1>1, Zenon DEF UnsignedDividend, UnsignedIn, SignedDividend, SignedIn

LEMMA MultiplyStep ==
  ASSUME Running, Next, Instruction.op \in {"mul", "imul"}
  PROVE  LET k == Bits[Instruction.w] IN
         /\ DoesMultiply(Instruction.op, k, In(regs, k, R("ax")), In(regs, k, Instruction.src), Now, Now')
         /\ pc' = pc + 1
<1> DEFINE k == Bits[Instruction.w]
           op == Instruction.op
           x == In(regs, k, R("ax"))
           y == In(regs, k, Instruction.src)
<1>1. Instruction.w \in Widths /\ Arg(Instruction.src) /\ Typed /\ Acts(Instruction.op)
  BY SomeWidth DEF Bare
<1>2. MultiplyInstruction
  BY <1>1 DEF Acts
<1>3. PICK r : /\ MultiplyLeaves(op, k, Low, Load(k, Instruction.src), r)
               /\ r.value \div 2^k \in Number(k) /\ Wrap(k, r.value) \in Number(k)
               /\ Pair(k, r.value \div 2^k, Wrap(k, r.value)) = r.value
               /\ PutsPair(k, r.value \div 2^k, Wrap(k, r.value), r.flags)
  BY <1>1, <1>2, MultiplyDoes
<1>4. WritesPair(Now, Now', k, r.value \div 2^k, Wrap(k, r.value), r.flags) /\ pc' = pc + 1
  BY <1>3, PutsPairWrites, Zenon
<1>5. MultiplyLeaves(op, k, x, y, r)
  BY <1>3, InIsLoad, HalvesLoad, Zenon
<1> HIDE DEF k, op, x, y
<1>6. DoesMultiply(op, k, x, y, Now, Now')
  BY <1>3, <1>4, <1>5, NowIs, Zenon DEF DoesMultiply, MultiplyLeaves
<1> QED
  BY <1>4, <1>6 DEF k, op, x, y

LEMMA MultiplyToStep ==
  ASSUME Running, Next, Instruction.op = "imulTo"
  PROVE  LET k == Bits[Instruction.w] IN
         /\ DoesMultiplyTo(k, Instruction.dst, In(regs, k, Instruction.left), In(regs, k, Instruction.src), Now, Now')
         /\ pc' = pc + 1
<1> DEFINE k == Bits[Instruction.w]
           x == In(regs, k, Instruction.left)
           y == In(regs, k, Instruction.src)
<1>1. Instruction.w \in Widths /\ Arg(Instruction.src) /\ RegArg(Instruction.left) /\ Typed /\ Acts(Instruction.op)
  BY SomeWidth DEF Bare
<1>2. MultiplyToRegister
  BY <1>1 DEF Acts
<1>3. x = Load(k, Instruction.left) /\ y = Load(k, Instruction.src)
  BY InIsLoad, Zenon
<1> HIDE DEF x, y
<1>4. PICK r : /\ LET p == Signed(k, x) * Signed(k, y) IN ProductLeaves(k, p, Signed(k, Wrap(k, p)) # p, flags, r)
               /\ Wrap(k, r.value) \in Number(k)
               /\ Puts(k, Instruction.dst, Wrap(k, r.value), r.flags)
  BY <1>1, <1>2, <1>3, MultiplyToDoes
<1>5. Writes(Now, Now', k, Instruction.dst, Wrap(k, r.value), r.flags) /\ pc' = pc + 1
  BY <1>4, PutsWrites, Zenon
<1>6. DoesMultiplyTo(k, Instruction.dst, x, y, Now, Now')
  BY <1>4, <1>5, NowIs, Zenon DEF DoesMultiplyTo
<1> QED
  BY <1>5, <1>6 DEF x, y

\* A division stops the emulator when the quotient does not fit.
Divisor(c, x) == IF c.op = "div" THEN In(x, Bits[c.w], c.src) ELSE Signed(Bits[c.w], In(x, Bits[c.w], c.src))
Accepted(c, x) ==
  IF c.op = "div" THEN Div32Accepts(Bits[c.w], UnsignedIn(x, c.w), Divisor(c, x))
  ELSE Idiv32Accepts(Bits[c.w], SignedIn(x, c.w), Divisor(c, x))
Dividend(c, x) == IF c.op = "div" THEN UnsignedIn(x, c.w) ELSE SignedIn(x, c.w)

LEMMA DivideStep ==
  ASSUME Running, Next, Instruction.op \in {"div", "idiv"}
  PROVE  IF Accepted(Instruction, regs)
         THEN /\ DoesDivide(Bits[Instruction.w], Dividend(Instruction, regs), Divisor(Instruction, regs), Now, Now')
              /\ pc' = pc + 1
         ELSE Quits
<1> DEFINE k == Bits[Instruction.w]
           y == Load(k, Instruction.src)
<1>1. Instruction.w \in Widths /\ Arg(Instruction.src) /\ Typed /\ Acts(Instruction.op)
  BY SomeWidth DEF Bare
<1>2. In(regs, k, Instruction.src) = y
  BY InIsLoad, Zenon
<1>3. UnsignedDividend = UnsignedIn(regs, Instruction.w) /\ SignedDividend = SignedIn(regs, Instruction.w)
  BY HalvesLoad, Zenon
<1> HIDE DEF y
<1>4. ASSUME NEW p, NEW q, Quotes(k, p, q)
      PROVE  DoesDivide(k, p, q, Now, Now') /\ pc' = pc + 1
  <2>1. PutsPair(k, Wrap(k, Remainder(p, q)), Wrap(k, Quotient(p, q)), flags)
    BY <1>4 DEF Quotes
  <2> QED
    BY <2>1, PutsPairWrites, NowIs, Zenon DEF DoesDivide
<1>5. CASE Instruction.op = "div"
  <2>1. DivideInstruction
    BY <1>1, <1>5 DEF Acts
  <2>2. IF Div32Accepts(k, UnsignedDividend, y) THEN Quotes(k, UnsignedDividend, y) ELSE Quits
    BY <1>1, <2>1, DivideDoes DEF y
  <2>3. /\ Accepted(Instruction, regs) = Div32Accepts(k, UnsignedDividend, y)
        /\ Dividend(Instruction, regs) = UnsignedDividend /\ Divisor(Instruction, regs) = y
    BY <1>2, <1>3, <1>5, Zenon DEF Accepted, Dividend, Divisor
  <2> QED
    BY <1>4, <2>2, <2>3, Zenon
<1>6. CASE Instruction.op = "idiv"
  <2>1. SignedDivideInstruction
    BY <1>1, <1>6 DEF Acts
  <2>2. IF Idiv32Accepts(k, SignedDividend, Signed(k, y)) THEN Quotes(k, SignedDividend, Signed(k, y)) ELSE Quits
    BY <1>1, <2>1, DivideDoes DEF y
  <2>3. "div" # "idiv"
    OBVIOUS
  <2>4. /\ Accepted(Instruction, regs) = Idiv32Accepts(k, SignedDividend, Signed(k, y))
        /\ Dividend(Instruction, regs) = SignedDividend /\ Divisor(Instruction, regs) = Signed(k, y)
    BY <1>2, <1>3, <1>6, <2>3, Zenon DEF Accepted, Dividend, Divisor
  <2> QED
    BY <1>4, <2>2, <2>4, Zenon
<1> QED
  BY <1>5, <1>6

LEMMA SpreadStep ==
  ASSUME Running, Next, Instruction.op \in {"cwd", "cbw"}
  PROVE  LET k == Bits[Instruction.w]
             low == In(regs, k, R("ax"))
             v == SignExtended(k, low)
         IN
         /\ Instruction.op = "cwd" => WritesPair(Now, Now', k, SignSpread(k, low), low, flags)
         /\ Instruction.op = "cbw" => WritesPair(Now, Now', k, v \div 2^k, Wrap(k, v), flags)
         /\ pc' = pc + 1
<1> DEFINE k == Bits[Instruction.w]
<1>1. Instruction.w \in Widths /\ Typed /\ Acts(Instruction.op)
  BY SomeWidth DEF Bare
<1>2. Low = In(regs, k, R("ax"))
  BY HalvesLoad, Zenon
<1>3. CASE Instruction.op = "cwd"
  <2>1. SpreadInstruction
    BY <1>1, <1>3 DEF Acts
  <2>2. PutsPair(k, SignSpread(k, Low), Low, flags)
    BY <1>1, <2>1, SpreadDoes
  <2>3. WritesPair(Now, Now', k, SignSpread(k, Low), Low, flags) /\ pc' = pc + 1
    BY <2>2, PutsPairWrites, Zenon
  <2> QED
    BY <1>2, <1>3, <2>3
<1>4. CASE Instruction.op = "cbw"
  <2>1. ExtendInstruction
    BY <1>1, <1>4 DEF Acts
  <2>2. PutsPair(k, SignExtended(k, Low) \div 2^k, Wrap(k, SignExtended(k, Low)), flags)
    BY <1>1, <2>1, ExtendDoes
  <2>3. /\ WritesPair(Now, Now', k, SignExtended(k, Low) \div 2^k, Wrap(k, SignExtended(k, Low)), flags)
        /\ pc' = pc + 1
    BY <2>2, PutsPairWrites, Zenon
  <2> QED
    BY <1>2, <1>4, <2>3
<1> QED
  BY <1>3, <1>4

LEMMA DecimalStep ==
  ASSUME Running, Next, Instruction.op \in DecimalNames
  PROVE  LET k == Bits[Instruction.w] IN
         /\ DoesDecimal(Instruction.op, In(regs, k, R("dx")), In(regs, k, R("ax")), Now, Now')
         /\ pc' = pc + 1
<1>1. Instruction.op # "j" /\ Instruction.op \in {"daa", "das", "aaa", "aas", "aam", "aad"}
  BY DEF DecimalNames
<1>2. Instruction.w = "byte" /\ Typed /\ Acts(Instruction.op)
  BY <1>1, SomeWidth
<1>3. DecimalInstruction
  BY <1>1, <1>2 DEF Acts
<1>4. PICK r : /\ DecimalLeaves(Instruction.op, High, Low, flags, r)
               /\ PutsPair(Bits["byte"], r.ah, r.al, r.flags)
  BY <1>2, <1>3, DecimalDoes
<1>5. Bits["byte"] = 8
  BY WidthFacts DEF Widths
<1>6. WritesPair(Now, Now', 8, r.ah, r.al, r.flags) /\ pc' = pc + 1
  BY <1>4, <1>5, PutsPairWrites
<1>7. Low = In(regs, Bits[Instruction.w], R("ax")) /\ High = In(regs, Bits[Instruction.w], R("dx"))
  BY HalvesLoad, Zenon
<1> QED
  BY <1>4, <1>6, <1>7, NowIs, Zenon DEF DoesDecimal

LEMMA SetStep ==
  ASSUME Running, Next, Instruction.op = "set"
  PROVE  Writes(Now, Now', 8, Instruction.dst, Bit(Holds(Instruction.cc, flags)), flags) /\ pc' = pc + 1
<1>1. Acts(Instruction.op) /\ Bits["byte"] = 8
  BY SomeWidth, WidthFacts DEF Widths
<1>2. SetIf
  BY <1>1 DEF Acts
<1>3. Puts(Bits["byte"], Instruction.dst, Bit(Holds(Instruction.cc, flags)), flags)
  BY <1>2, ConditionsDo, Zenon
<1> QED
  BY <1>1, <1>3, PutsWrites

LEMMA ComplementStep ==
  ASSUME Running, Next, Instruction.op = "cmc"
  PROVE  Now'.regs = regs /\ Now'.flags.CF = 1 - flags.CF /\ pc' = pc + 1
<1>1. Acts(Instruction.op) /\ Typed
  BY SomeWidth
<1>2. FlagInstruction
  BY <1>1 DEF Acts
<1>3. PICK g \in FlagFile : Passes(regs, g) /\ (Instruction.op = "cmc" => g.CF = 1 - flags.CF /\ g.DF = flags.DF)
  BY <1>1, <1>2, FlagDoes
<1>4. Now'.regs = regs /\ Now'.flags = g /\ pc' = pc + 1
  BY <1>3, NowIs, Zenon DEF Passes
<1> QED
  BY <1>3, <1>4

StraightNames ==
  {"add", "adc", "sub", "sbb", "and", "or", "xor", "81", "83", "inc", "dec", "not", "neg", "movsx", "xchg",
   "mul", "imul", "imulTo", "div", "idiv", "cwd", "cbw", "set", "cmc"} \cup Shiftings \cup DecimalNames

LEMMA StraightStep ==
  ASSUME Running, Next, Instruction.op \in StraightNames
  PROVE  \/ Does(Instruction, Now, Now') /\ pc' = pc + 1
         \/ Quits /\ Instruction.op \in {"div", "idiv"} /\ ~ Accepted(Instruction, regs)
<1> DEFINE c == Instruction
           k == Bits[c.w]
           a == Now
           b == Now'
           arg(x) == In(a.regs, k, x)
           short == Wrap(k, Signed(8, In(a.regs, 8, c.src)))
           low == In(a.regs, k, R("ax"))
           high == In(a.regs, k, R("dx"))
           v == SignExtended(k, low)
<1>0. a.regs = regs /\ a.flags = flags
  BY NowIs
<1> DEFINE
     C1 == c.op \in {"add", "adc", "sub", "sbb", "and", "or", "xor"}
             => DoesTwo(c.op, k, c.dst, arg(c.dst), arg(c.src), a, b) /\ pc' = pc + 1
     C2 == c.op = "81" => DoesTwo(Digit[c.digit + 1], k, c.dst, arg(c.dst), arg(c.src), a, b) /\ pc' = pc + 1
     C3 == c.op = "83" => DoesTwo(Digit[c.digit + 1], k, c.dst, arg(c.dst), short, a, b) /\ pc' = pc + 1
     C4 == c.op \in {"inc", "dec", "not", "neg"} => DoesOne(c.op, k, c.dst, arg(c.dst), a, b) /\ pc' = pc + 1
     C5 == c.op \in Shiftings => DoesShift(c.op, k, c.dst, arg(c.dst), In(a.regs, 8, c.src), a, b) /\ pc' = pc + 1
     C6 == c.op = "movsx" => Writes(a, b, k, c.dst, short, a.flags) /\ pc' = pc + 1
     C7 == c.op = "xchg" => /\ b.flags = a.flags
                            /\ b.regs = Stored(Stored(a.regs, k, c.dst, arg(c.src)), k, c.src, arg(c.dst))
                            /\ pc' = pc + 1
     C8 == c.op \in {"mul", "imul"} => DoesMultiply(c.op, k, low, arg(c.src), a, b) /\ pc' = pc + 1
     C9 == c.op = "imulTo" => DoesMultiplyTo(k, c.dst, arg(c.left), arg(c.src), a, b) /\ pc' = pc + 1
     D1 == /\ Div32Accepts(k, UnsignedIn(a.regs, c.w), arg(c.src))
           /\ DoesDivide(k, UnsignedIn(a.regs, c.w), arg(c.src), a, b)
     D2 == /\ Idiv32Accepts(k, SignedIn(a.regs, c.w), Signed(k, arg(c.src)))
           /\ DoesDivide(k, SignedIn(a.regs, c.w), Signed(k, arg(c.src)), a, b)
     CA == c.op = "div" => (D1 /\ pc' = pc + 1) \/ (Quits /\ ~ Accepted(c, regs))
     CB == c.op = "idiv" => (D2 /\ pc' = pc + 1) \/ (Quits /\ ~ Accepted(c, regs))
     CC == c.op = "cwd" => WritesPair(a, b, k, SignSpread(k, low), low, a.flags) /\ pc' = pc + 1
     CD == c.op = "cbw" => WritesPair(a, b, k, v \div 2^k, Wrap(k, v), a.flags) /\ pc' = pc + 1
     CE == c.op \in DecimalNames => DoesDecimal(c.op, high, low, a, b) /\ pc' = pc + 1
     CF == c.op = "set" => Writes(a, b, 8, c.dst, Bit(Holds(c.cc, a.flags)), a.flags) /\ pc' = pc + 1
     CG == c.op = "cmc" => b.regs = a.regs /\ b.flags.CF = 1 - a.flags.CF /\ pc' = pc + 1
<1>1. C1
  BY <1>0, TwoStep, Zenon
<1>2. C2
  <2> SUFFICES ASSUME c.op = "81" PROVE C2
    OBVIOUS
  <2> QED
    BY <1>0, ImmediateStep
<1>3. C3
  <2> SUFFICES ASSUME c.op = "83" PROVE C3
    OBVIOUS
  <2>1. ~ (c.op = "81")
    OBVIOUS
  <2> QED
    BY <1>0, <2>1, ImmediateStep
<1>4. C4
  BY <1>0, OneStep, Zenon
<1>5. C5
  BY <1>0, ShiftStep, Zenon
<1>6. C6
  BY <1>0, MoveStep, Zenon
<1>7. C7
  BY <1>0, ExchangeStep, Zenon
<1>8. C8
  BY <1>0, MultiplyStep, Zenon
<1>9. C9
  BY <1>0, MultiplyToStep, Zenon
<1>10. CA
  BY <1>0, DivideStep, Zenon DEF Accepted, Divisor, Dividend
<1>11. CB
  <2> SUFFICES ASSUME c.op = "idiv" PROVE CB
    OBVIOUS
  <2>1. ~ (c.op = "div")
    OBVIOUS
  <2> QED
    BY <1>0, <2>1, DivideStep, Zenon DEF Accepted, Divisor, Dividend
<1>12. CC
  BY <1>0, SpreadStep, Zenon
<1>13. CD
  BY <1>0, SpreadStep, Zenon
<1>14. CE
  BY <1>0, DecimalStep, Zenon
<1>15. CF
  BY <1>0, SetStep, Zenon
<1>16. CG
  BY <1>0, ComplementStep, Zenon
<1>17. Does(c, a, b) <=>
         /\ c.op \in {"add", "adc", "sub", "sbb", "and", "or", "xor"} => DoesTwo(c.op, k, c.dst, arg(c.dst), arg(c.src), a, b)
         /\ c.op = "81" => DoesTwo(Digit[c.digit + 1], k, c.dst, arg(c.dst), arg(c.src), a, b)
         /\ c.op = "83" => DoesTwo(Digit[c.digit + 1], k, c.dst, arg(c.dst), short, a, b)
         /\ c.op \in {"inc", "dec", "not", "neg"} => DoesOne(c.op, k, c.dst, arg(c.dst), a, b)
         /\ c.op \in Shiftings => DoesShift(c.op, k, c.dst, arg(c.dst), In(a.regs, 8, c.src), a, b)
         /\ c.op = "movsx" => Writes(a, b, k, c.dst, short, a.flags)
         /\ c.op = "xchg" => /\ b.flags = a.flags
                             /\ b.regs = Stored(Stored(a.regs, k, c.dst, arg(c.src)), k, c.src, arg(c.dst))
         /\ c.op \in {"mul", "imul"} => DoesMultiply(c.op, k, low, arg(c.src), a, b)
         /\ c.op = "imulTo" => DoesMultiplyTo(k, c.dst, arg(c.left), arg(c.src), a, b)
         /\ c.op = "div" => D1
         /\ c.op = "idiv" => D2
         /\ c.op = "cwd" => WritesPair(a, b, k, SignSpread(k, low), low, a.flags)
         /\ c.op = "cbw" => WritesPair(a, b, k, v \div 2^k, Wrap(k, v), a.flags)
         /\ c.op \in DecimalNames => DoesDecimal(c.op, high, low, a, b)
         /\ c.op = "set" => Writes(a, b, 8, c.dst, Bit(Holds(c.cc, a.flags)), a.flags)
         /\ c.op = "cmc" => b.regs = a.regs /\ b.flags.CF = 1 - a.flags.CF
  BY DEF Does
<1>18. CASE (c.op = "div" \/ c.op = "idiv") /\ Quits /\ ~ Accepted(c, regs)
  BY <1>18
<1>19. CASE ~ ((c.op = "div" \/ c.op = "idiv") /\ Quits /\ ~ Accepted(c, regs))
  <2>1. pc' = pc + 1
    <3>1. \/ c.op \in {"add", "adc", "sub", "sbb", "and", "or", "xor"} \/ c.op = "81" \/ c.op = "83"
          \/ c.op \in {"inc", "dec", "not", "neg"} \/ c.op \in Shiftings \/ c.op = "movsx" \/ c.op = "xchg"
          \/ c.op \in {"mul", "imul"} \/ c.op = "imulTo" \/ c.op = "div" \/ c.op = "idiv" \/ c.op = "cwd"
          \/ c.op = "cbw" \/ c.op \in DecimalNames \/ c.op = "set" \/ c.op = "cmc"
      BY DEF StraightNames
    <3> QED
      BY <3>1, <1>1, <1>2, <1>3, <1>4, <1>5, <1>6, <1>7, <1>8, <1>9, <1>10, <1>11, <1>12, <1>13, <1>14, <1>15, <1>16,
         <1>19, Zenon
  <2>2. (c.op = "div" => D1) /\ (c.op = "idiv" => D2)
    BY <1>10, <1>11, <1>19, Zenon
  <2>3. Does(c, a, b)
    BY <2>2, <1>1, <1>2, <1>3, <1>4, <1>5, <1>6, <1>7, <1>8, <1>9, <1>12, <1>13, <1>14, <1>15, <1>16,
       <1>17, SMTT(60)
  <2> QED
    BY <2>1, <2>3
<1> QED
  BY <1>18, <1>19

--------------------------------------------------------------------------------
(* Straight code: from the start to where it is, state by state *)

StraightTasks == Idiom \ {"compare", "strlen", "memset", "memcmp", "memmove", "strcpy"}
Straight(whole) == Len(whole) \in Nat /\ \A i \in 1..Len(whole) : whole[i].op \in StraightNames

LEMMA StraightCode ==
  ASSUME NEW task \in StraightTasks, NEW w \in Widths, NEW cc
  PROVE  Straight(Code(task, w, cc))
<1>0. \A op \in {"add", "adc", "sub", "sbb", "and", "or", "xor", "inc", "dec", "not", "neg", "movsx", "xchg",
                 "mul", "imul", "imulTo", "div", "idiv", "cwd", "cbw", "set", "cmc", "shl", "shr", "sar",
                 "rol", "ror", "rcl", "rcr", "daa", "das", "aaa", "aas", "aam", "aad", "81", "83"} :
        op \in StraightNames
  BY DEF StraightNames, Shiftings, ShiftNames, RotateNames, DecimalNames
<1>1. CASE task = "add"
  <2> DEFINE c == Code("add", w, cc)
  <2>0. Len(c) = 3 /\ c[1] = I("add", w, R("ax"), R("bx"))
         /\ c[2] = I("dec", "dword", R("ecx"), R("ecx"))
         /\ c[3] = I("adc", w, R("dx"), R("bp"))
    BY AddCode, Zenon
  <2> HIDE DEF c
  <2>1. c[1].op = "add" /\ c[2].op = "dec" /\ c[3].op = "adc"
    BY <2>0 DEF I
  <2>2. Straight(c)
    BY <1>0, <2>0, <2>1 DEF Straight
  <2> QED
    BY <1>1, <2>2 DEF c
<1>2. CASE task = "sub"
  <2> DEFINE c == Code("sub", w, cc)
  <2>0. Len(c) = 3 /\ c[1] = I("sub", w, R("ax"), R("bx"))
         /\ c[2] = I("inc", "dword", R("ecx"), R("ecx"))
         /\ c[3] = I("sbb", w, R("dx"), R("bp"))
    BY SubCode, Zenon
  <2> HIDE DEF c
  <2>1. c[1].op = "sub" /\ c[2].op = "inc" /\ c[3].op = "sbb"
    BY <2>0 DEF I
  <2>2. Straight(c)
    BY <1>0, <2>0, <2>1 DEF Straight
  <2> QED
    BY <1>2, <2>2 DEF c
<1>3. CASE task = "neg"
  <2> DEFINE c == Code("neg", w, cc)
  <2>0. Len(c) = 3 /\ c[1] = I("neg", w, R("ax"), R("ax"))
         /\ c[2] = Digit81(2, w, R("dx"), 0)
         /\ c[3] = I("neg", w, R("dx"), R("dx"))
    BY NegCode, Zenon
  <2> HIDE DEF c
  <2>1. c[1].op = "neg" /\ c[2].op = "81" /\ c[3].op = "neg"
    BY <2>0 DEF Digit81, I
  <2>2. Straight(c)
    BY <1>0, <2>0, <2>1 DEF Straight
  <2> QED
    BY <1>3, <2>2 DEF c
<1>4. CASE task = "double"
  <2> DEFINE c == Code("double", w, cc)
  <2>0. Len(c) = 2 /\ c[1] = I("shl", w, R("ax"), Imm(1))
         /\ c[2] = I("rcl", w, R("dx"), Imm(1))
    BY DoubleCode, Zenon
  <2> HIDE DEF c
  <2>1. c[1].op = "shl" /\ c[2].op = "rcl"
    BY <2>0 DEF I
  <2>2. Straight(c)
    BY <1>0, <2>0, <2>1 DEF Straight
  <2> QED
    BY <1>4, <2>2 DEF c
<1>5. CASE task = "halve"
  <2> DEFINE c == Code("halve", w, cc)
  <2>0. Len(c) = 2 /\ c[1] = I("sar", w, R("dx"), Imm(1))
         /\ c[2] = I("rcr", w, R("ax"), Imm(1))
    BY HalveCode, Zenon
  <2> HIDE DEF c
  <2>1. c[1].op = "sar" /\ c[2].op = "rcr"
    BY <2>0 DEF I
  <2>2. Straight(c)
    BY <1>0, <2>0, <2>1 DEF Straight
  <2> QED
    BY <1>5, <2>2 DEF c
<1>6. CASE task = "halveUnsigned"
  <2> DEFINE c == Code("halveUnsigned", w, cc)
  <2>0. Len(c) = 2 /\ c[1] = I("shr", w, R("dx"), Imm(1))
         /\ c[2] = I("rcr", w, R("ax"), Imm(1))
    BY HalveUnsignedCode, Zenon
  <2> HIDE DEF c
  <2>1. c[1].op = "shr" /\ c[2].op = "rcr"
    BY <2>0 DEF I
  <2>2. Straight(c)
    BY <1>0, <2>0, <2>1 DEF Straight
  <2> QED
    BY <1>6, <2>2 DEF c
<1>7. CASE task = "rotate"
  <2> DEFINE c == Code("rotate", w, cc)
  <2>0. Len(c) = 2 /\ c[1] = I("rol", w, R("ax"), R("ecx"))
         /\ c[2] = I("ror", w, R("ax"), R("ecx"))
    BY RotateCode, Zenon
  <2> HIDE DEF c
  <2>1. c[1].op = "rol" /\ c[2].op = "ror"
    BY <2>0 DEF I
  <2>2. Straight(c)
    BY <1>0, <2>0, <2>1 DEF Straight
  <2> QED
    BY <1>7, <2>2 DEF c
<1>8. CASE task = "rotateCarry"
  <2> DEFINE c == Code("rotateCarry", w, cc)
  <2>0. Len(c) = 3 /\ c[1] = Do("cmc")
         /\ c[2] = I("rcl", w, R("ax"), R("ecx"))
         /\ c[3] = I("rcr", w, R("ax"), R("ecx"))
    BY RotateCarryCode, Zenon
  <2> HIDE DEF c
  <2>1. c[1].op = "cmc" /\ c[2].op = "rcl" /\ c[3].op = "rcr"
    BY <2>0 DEF Do, I
  <2>2. Straight(c)
    BY <1>0, <2>0, <2>1 DEF Straight
  <2> QED
    BY <1>8, <2>2 DEF c
<1>9. CASE task = "bool"
  <2> DEFINE c == Code("bool", w, cc)
  <2>0. Len(c) = 3 /\ c[1] = I("neg", w, R("ax"), R("ax"))
         /\ c[2] = I("sbb", w, R("ax"), R("ax"))
         /\ c[3] = I("neg", w, R("ax"), R("ax"))
    BY BoolCode, Zenon
  <2> HIDE DEF c
  <2>1. c[1].op = "neg" /\ c[2].op = "sbb" /\ c[3].op = "neg"
    BY <2>0 DEF I
  <2>2. Straight(c)
    BY <1>0, <2>0, <2>1 DEF Straight
  <2> QED
    BY <1>9, <2>2 DEF c
<1>10. CASE task = "blend"
  <2> DEFINE c == Code("blend", w, cc)
  <2>0. Len(c) = 4 /\ c[1] = I("and", w, R("ax"), R("bx"))
         /\ c[2] = I("not", w, R("bx"), R("bx"))
         /\ c[3] = I("and", w, R("dx"), R("bx"))
         /\ c[4] = I("or", w, R("ax"), R("dx"))
    BY BlendCode, Zenon
  <2> HIDE DEF c
  <2>1. c[1].op = "and" /\ c[2].op = "not" /\ c[3].op = "and" /\ c[4].op = "or"
    BY <2>0 DEF I
  <2>2. Straight(c)
    BY <1>0, <2>0, <2>1 DEF Straight
  <2> QED
    BY <1>10, <2>2 DEF c
<1>11. CASE task = "decrement"
  <2> DEFINE c == Code("decrement", w, cc)
  <2>0. Len(c) = 2 /\ c[1] = Digit83(0, w, R("ax"), -1)
         /\ c[2] = Digit83(2, w, R("dx"), -1)
    BY DecrementCode, Zenon
  <2> HIDE DEF c
  <2>1. c[1].op = "83" /\ c[2].op = "83"
    BY <2>0 DEF Digit83
  <2>2. Straight(c)
    BY <1>0, <2>0, <2>1 DEF Straight
  <2> QED
    BY <1>11, <2>2 DEF c
<1>12. CASE task = "align"
  <2> DEFINE c == Code("align", w, cc)
  <2>0. Len(c) = 2 /\ c[1] = Digit83(0, w, R("ax"), 3)
         /\ c[2] = Digit83(4, w, R("ax"), -4)
    BY AlignCode, Zenon
  <2> HIDE DEF c
  <2>1. c[1].op = "83" /\ c[2].op = "83"
    BY <2>0 DEF Digit83
  <2>2. Straight(c)
    BY <1>0, <2>0, <2>1 DEF Straight
  <2> QED
    BY <1>12, <2>2 DEF c
<1>13. CASE task = "full"
  <2> DEFINE c == Code("full", w, cc)
  <2>0. Len(c) = 2 /\ c[1] = Digit83(7, w, R("ax"), -1)
         /\ c[2] = Set("z", R("bx"))
    BY FullCode, Zenon
  <2> HIDE DEF c
  <2>1. c[1].op = "83" /\ c[2].op = "set"
    BY <2>0 DEF Digit83, Set
  <2>2. Straight(c)
    BY <1>0, <2>0, <2>1 DEF Straight
  <2> QED
    BY <1>13, <2>2 DEF c
<1>14. CASE task = "positive"
  <2> DEFINE c == Code("positive", w, cc)
  <2>0. Len(c) = 2 /\ c[1] = Digit81(1, w, R("ax"), 2^(Bits[w] - 1))
         /\ c[2] = Digit81(6, w, R("ax"), 2^(Bits[w] - 1))
    BY PositiveCode, Zenon
  <2> HIDE DEF c
  <2>1. c[1].op = "81" /\ c[2].op = "81"
    BY <2>0 DEF Digit81
  <2>2. Straight(c)
    BY <1>0, <2>0, <2>1 DEF Straight
  <2> QED
    BY <1>14, <2>2 DEF c
<1>15. CASE task = "reduce"
  <2> DEFINE c == Code("reduce", w, cc)
  <2>0. Len(c) = 2 /\ c[1] = Digit81(5, w, R("ax"), 2^(Bits[w] - 1))
         /\ c[2] = Digit81(3, w, R("dx"), 1)
    BY ReduceCode, Zenon
  <2> HIDE DEF c
  <2>1. c[1].op = "81" /\ c[2].op = "81"
    BY <2>0 DEF Digit81
  <2>2. Straight(c)
    BY <1>0, <2>0, <2>1 DEF Straight
  <2> QED
    BY <1>15, <2>2 DEF c
<1>16. CASE task = "square"
  <2> DEFINE c == Code("square", w, cc)
  <2>0. Len(c) = 1 /\ c[1] = [op |-> "imulTo", w |-> w, left |-> R("bx"), dst |-> R("ax"), src |-> R("bx")]
    BY SquareCode, Zenon
  <2> HIDE DEF c
  <2>1. c[1].op = "imulTo"
    BY <2>0
  <2>2. Straight(c)
    BY <1>0, <2>0, <2>1 DEF Straight
  <2> QED
    BY <1>16, <2>2 DEF c
<1>17. CASE task = "mul"
  <2> DEFINE c == Code("mul", w, cc)
  <2>0. Len(c) = 1 /\ c[1] = I("mul", w, R("ax"), R("bx"))
    BY MulCode, Zenon
  <2> HIDE DEF c
  <2>1. c[1].op = "mul"
    BY <2>0 DEF I
  <2>2. Straight(c)
    BY <1>0, <2>0, <2>1 DEF Straight
  <2> QED
    BY <1>17, <2>2 DEF c
<1>18. CASE task = "mulDiv"
  <2> DEFINE c == Code("mulDiv", w, cc)
  <2>0. Len(c) = 2 /\ c[1] = I("mul", w, R("ax"), R("bx"))
         /\ c[2] = I("div", w, R("ax"), R("bp"))
    BY MulDivCode, Zenon
  <2> HIDE DEF c
  <2>1. c[1].op = "mul" /\ c[2].op = "div"
    BY <2>0 DEF I
  <2>2. Straight(c)
    BY <1>0, <2>0, <2>1 DEF Straight
  <2> QED
    BY <1>18, <2>2 DEF c
<1>19. CASE task = "imulIdiv"
  <2> DEFINE c == Code("imulIdiv", w, cc)
  <2>0. Len(c) = 2 /\ c[1] = I("imul", w, R("ax"), R("bx"))
         /\ c[2] = I("idiv", w, R("ax"), R("bp"))
    BY ImulIdivCode, Zenon
  <2> HIDE DEF c
  <2>1. c[1].op = "imul" /\ c[2].op = "idiv"
    BY <2>0 DEF I
  <2>2. Straight(c)
    BY <1>0, <2>0, <2>1 DEF Straight
  <2> QED
    BY <1>19, <2>2 DEF c
<1>20. CASE task = "scale"
  <2> DEFINE c == Code("scale", w, cc)
  <2>0. Len(c) = 2 /\ c[1] = I("movsx", w, R("ax"), R("ax"))
         /\ c[2] = I("imul", w, R("ax"), R("bx"))
    BY ScaleCode, Zenon
  <2> HIDE DEF c
  <2>1. c[1].op = "movsx" /\ c[2].op = "imul"
    BY <2>0 DEF I
  <2>2. Straight(c)
    BY <1>0, <2>0, <2>1 DEF Straight
  <2> QED
    BY <1>20, <2>2 DEF c
<1>21. CASE task = "idiv"
  <2> DEFINE c == Code("idiv", w, cc)
  <2>0. Len(c) = 2 /\ c[1] = I("cwd", w, R("ax"), R("ax"))
         /\ c[2] = I("idiv", w, R("ax"), R("bx"))
    BY IdivCode, Zenon
  <2> HIDE DEF c
  <2>1. c[1].op = "cwd" /\ c[2].op = "idiv"
    BY <2>0 DEF I
  <2>2. Straight(c)
    BY <1>0, <2>0, <2>1 DEF Straight
  <2> QED
    BY <1>21, <2>2 DEF c
<1>22. CASE task = "quarter"
  <2> DEFINE c == Code("quarter", w, cc)
  <2>0. Len(c) = 4 /\ c[1] = I("cwd", w, R("ax"), R("ax"))
         /\ c[2] = Digit83(4, w, R("dx"), 3)
         /\ c[3] = I("add", w, R("ax"), R("dx"))
         /\ c[4] = I("sar", w, R("ax"), Imm(2))
    BY QuarterCode, Zenon
  <2> HIDE DEF c
  <2>1. c[1].op = "cwd" /\ c[2].op = "83" /\ c[3].op = "add" /\ c[4].op = "sar"
    BY <2>0 DEF Digit83, I
  <2>2. Straight(c)
    BY <1>0, <2>0, <2>1 DEF Straight
  <2> QED
    BY <1>22, <2>2 DEF c
<1>23. CASE task = "abs"
  <2> DEFINE c == Code("abs", w, cc)
  <2>0. Len(c) = 3 /\ c[1] = I("cwd", w, R("ax"), R("ax"))
         /\ c[2] = I("xor", w, R("ax"), R("dx"))
         /\ c[3] = I("sub", w, R("ax"), R("dx"))
    BY AbsCode, Zenon
  <2> HIDE DEF c
  <2>1. c[1].op = "cwd" /\ c[2].op = "xor" /\ c[3].op = "sub"
    BY <2>0 DEF I
  <2>2. Straight(c)
    BY <1>0, <2>0, <2>1 DEF Straight
  <2> QED
    BY <1>23, <2>2 DEF c
<1>24. CASE task = "extend"
  <2> DEFINE c == Code("extend", w, cc)
  <2>0. Len(c) = 1 /\ c[1] = I("cbw", w, R("ax"), R("ax"))
    BY ExtendCode, Zenon
  <2> HIDE DEF c
  <2>1. c[1].op = "cbw"
    BY <2>0 DEF I
  <2>2. Straight(c)
    BY <1>0, <2>0, <2>1 DEF Straight
  <2> QED
    BY <1>24, <2>2 DEF c
<1>25. CASE task = "daa"
  <2> DEFINE c == Code("daa", w, cc)
  <2>0. Len(c) = 5 /\ c[1] = I("add", w, R("ax"), R("bx"))
         /\ c[2] = I("daa", "byte", R("ax"), R("ax"))
         /\ c[3] = I("xchg", w, R("ax"), R("dx"))
         /\ c[4] = I("adc", w, R("ax"), R("bp"))
         /\ c[5] = I("daa", "byte", R("ax"), R("ax"))
    BY DaaCode, Zenon
  <2> HIDE DEF c
  <2>1. c[1].op = "add" /\ c[2].op = "daa" /\ c[3].op = "xchg" /\ c[4].op = "adc" /\ c[5].op = "daa"
    BY <2>0 DEF I
  <2>2. Straight(c)
    BY <1>0, <2>0, <2>1 DEF Straight
  <2> QED
    BY <1>25, <2>2 DEF c
<1>26. CASE task = "das"
  <2> DEFINE c == Code("das", w, cc)
  <2>0. Len(c) = 5 /\ c[1] = I("sub", w, R("ax"), R("bx"))
         /\ c[2] = I("das", "byte", R("ax"), R("ax"))
         /\ c[3] = I("xchg", w, R("ax"), R("dx"))
         /\ c[4] = I("sbb", w, R("ax"), R("bp"))
         /\ c[5] = I("das", "byte", R("ax"), R("ax"))
    BY DasCode, Zenon
  <2> HIDE DEF c
  <2>1. c[1].op = "sub" /\ c[2].op = "das" /\ c[3].op = "xchg" /\ c[4].op = "sbb" /\ c[5].op = "das"
    BY <2>0 DEF I
  <2>2. Straight(c)
    BY <1>0, <2>0, <2>1 DEF Straight
  <2> QED
    BY <1>26, <2>2 DEF c
<1>27. CASE task = "aaa"
  <2> DEFINE c == Code("aaa", w, cc)
  <2>0. Len(c) = 2 /\ c[1] = I("add", w, R("ax"), R("bx"))
         /\ c[2] = I("aaa", "byte", R("ax"), R("ax"))
    BY AaaCode, Zenon
  <2> HIDE DEF c
  <2>1. c[1].op = "add" /\ c[2].op = "aaa"
    BY <2>0 DEF I
  <2>2. Straight(c)
    BY <1>0, <2>0, <2>1 DEF Straight
  <2> QED
    BY <1>27, <2>2 DEF c
<1>28. CASE task = "aas"
  <2> DEFINE c == Code("aas", w, cc)
  <2>0. Len(c) = 2 /\ c[1] = I("sub", w, R("ax"), R("bx"))
         /\ c[2] = I("aas", "byte", R("ax"), R("ax"))
    BY AasCode, Zenon
  <2> HIDE DEF c
  <2>1. c[1].op = "sub" /\ c[2].op = "aas"
    BY <2>0 DEF I
  <2>2. Straight(c)
    BY <1>0, <2>0, <2>1 DEF Straight
  <2> QED
    BY <1>28, <2>2 DEF c
<1>29. CASE task = "aam"
  <2> DEFINE c == Code("aam", w, cc)
  <2>0. Len(c) = 2 /\ c[1] = I("mul", w, R("ax"), R("bx"))
         /\ c[2] = I("aam", "byte", R("ax"), R("ax"))
    BY AamCode, Zenon
  <2> HIDE DEF c
  <2>1. c[1].op = "mul" /\ c[2].op = "aam"
    BY <2>0 DEF I
  <2>2. Straight(c)
    BY <1>0, <2>0, <2>1 DEF Straight
  <2> QED
    BY <1>29, <2>2 DEF c
<1>30. CASE task = "aad"
  <2> DEFINE c == Code("aad", w, cc)
  <2>0. Len(c) = 2 /\ c[1] = I("aad", "byte", R("ax"), R("ax"))
         /\ c[2] = I("div", w, R("ax"), R("bx"))
    BY AadCode, Zenon
  <2> HIDE DEF c
  <2>1. c[1].op = "aad" /\ c[2].op = "div"
    BY <2>0 DEF I
  <2>2. Straight(c)
    BY <1>0, <2>0, <2>1 DEF Straight
  <2> QED
    BY <1>30, <2>2 DEF c
<1> QED
  BY <1>1, <1>2, <1>3, <1>4, <1>5, <1>6, <1>7, <1>8, <1>9, <1>10, <1>11, <1>12, <1>13, <1>14, <1>15, <1>16, <1>17, <1>18, <1>19, <1>20, <1>21, <1>22, <1>23, <1>24, <1>25, <1>26, <1>27, <1>28, <1>29, <1>30 DEF StraightTasks, Idiom

\* The states p that whole goes through on its way to its m-th instruction.
Path(whole, m, p) ==
  /\ p \in [1..m -> State]
  /\ \A j \in 1..(m - 1) : Does(whole[j], p[j], p[j + 1])
Began == [regs |-> s, flags |-> start.flags]
Passed == \E p : Path(code, pc, p) /\ p[1] = Began /\ p[pc] = Now

\* Where an idiom was stopped, its division does not fit.
Stopped ==
  outcome = "aborted" =>
    /\ pc \in 1..Len(code) /\ code[pc].op \in {"div", "idiv"}
    /\ ~ Accepted(code[pc], regs)
Traced == start.task \in StraightTasks => Passed /\ Stopped

LEMMA PathGrows ==
  ASSUME NEW whole, NEW m \in Nat, m > 0, NEW p, Path(whole, m, p), NEW b \in State, Does(whole[m], p[m], b)
  PROVE  \E q : Path(whole, m + 1, q) /\ q[1] = p[1] /\ q[m + 1] = b
<1> DEFINE q == [j \in 1..(m + 1) |-> IF j = m + 1 THEN b ELSE p[j]]
<1>1. p \in [1..m -> State] /\ \A j \in 1..(m - 1) : Does(whole[j], p[j], p[j + 1])
  BY DEF Path
<1>2. q \in [1..(m + 1) -> State] /\ q[1] = p[1] /\ q[m + 1] = b
  BY <1>1
<1>3. ASSUME NEW j \in 1..m PROVE q[j] = p[j]
  BY <1>3
<1>4. ASSUME NEW j \in 1..m PROVE Does(whole[j], q[j], q[j + 1])
  <2>1. CASE j = m
    <3>1. q[j] = p[m] /\ q[j + 1] = b
      BY <1>2, <1>3, <2>1
    <3> HIDE DEF q
    <3> QED
      BY <2>1, <3>1
  <2>2. CASE j # m
    <3>1. j \in 1..(m - 1) /\ j + 1 \in 1..m
      BY <2>2
    <3>2. q[j] = p[j] /\ q[j + 1] = p[j + 1]
      BY <1>3, <3>1
    <3> HIDE DEF q
    <3> QED
      BY <1>1, <3>1, <3>2
  <2> QED
    BY <2>1, <2>2
<1> HIDE DEF q
<1>5. (m + 1) - 1 = m
  OBVIOUS
<1> QED
  BY <1>2, <1>4, <1>5 DEF Path

LEMMA TracedInit ==
  ASSUME Init
  PROVE  Traced
<1>1. PICK task \in Tasks : \E w \in WidthsOf(task), cc \in ConditionsOf(task), m \in Memories(task) :
        \E file \in Inputs(task, w), f \in FlagsBefore :
          /\ start = [task |-> task, w |-> w, cc |-> cc, regs |-> file, flags |-> f, mem |-> m]
          /\ pc = 1
          /\ regs = file /\ flags = f
          /\ outcome = "running"
  BY DEF Init
<1>2. PICK w \in WidthsOf(task), cc \in ConditionsOf(task), m \in Memories(task) :
        \E file \in Inputs(task, w), f \in FlagsBefore :
          /\ start = [task |-> task, w |-> w, cc |-> cc, regs |-> file, flags |-> f, mem |-> m]
          /\ pc = 1
          /\ regs = file /\ flags = f
          /\ outcome = "running"
  BY <1>1
<1>3. pc = 1 /\ regs = s /\ flags = start.flags /\ outcome = "running"
  BY <1>2 DEF s
<1>4. Now = Began /\ Now \in State
  <2>1. Typed
    BY RunningInit DEF Running
  <2> QED
    BY <1>3, <2>1, NowIs DEF Now, Began
<1> DEFINE p == [j \in 1..1 |-> Began]
<1>5. p \in [1..1 -> State] /\ p[1] = Began
  BY <1>4
<1> HIDE DEF p
<1>6. Path(code, 1, p)
  BY <1>5 DEF Path
<1>7. Passed
  BY <1>3, <1>4, <1>5, <1>6 DEF Passed
<1> QED
  BY <1>3, <1>7 DEF Traced, Stopped

\* Only a division stops the emulator, and then it stays where it is.
LEMMA OnlyDivisionsQuit ==
  ASSUME Running, Next
  PROVE  outcome' = "running" \/ (Instruction.op \in {"div", "idiv"} /\ pc' = pc)
<1>1. Execute /\ outcome = "running"
  BY Stepping
<1>2. CASE DivideInstruction \/ SignedDivideInstruction
  BY <1>1, <1>2 DEF DivideInstruction, SignedDivideInstruction, Divides, Runs
<1>3. CASE ~ (DivideInstruction \/ SignedDivideInstruction)
  <2>1. outcome' = outcome
    BY <1>1, <1>3, Zenon DEF Execute, TwoOperandInstruction, CompareInstruction, ImmediateInstruction,
       ShortImmediateInstruction, OneOperandInstruction, ShiftInstruction, MoveInstruction, ExchangeInstruction,
       MultiplyInstruction, MultiplyToRegister, ExtendInstruction, SpreadInstruction, DecimalInstruction, JumpIf,
       MoveIf, SetIf, FlagInstruction, SkipRepeat, Movs, Stos, Lods, Scas, Cmps
  <2> QED
    BY <1>1, <2>1
<1> QED
  BY <1>2, <1>3

LEMMA TracedStep ==
  ASSUME Running, Traced, Next
  PROVE  Traced'
<1>1. /\ start' = start /\ code' = code /\ pc \in 1..Len(code) /\ outcome = "running" /\ s' = s
      /\ code = Code(start.task, start.w, start.cc) /\ start.w \in Widths /\ Len(code) \in Nat
  BY Stepping DEF StartFits
<1> SUFFICES ASSUME start.task \in StraightTasks
             PROVE  Passed' /\ Stopped'
  BY <1>1 DEF Traced
<1>2. Instruction.op \in StraightNames
  BY <1>1, StraightCode DEF Straight, Instruction
<1>3. PICK p : Path(code, pc, p) /\ p[1] = Began /\ p[pc] = Now
  BY DEF Traced, Passed
<1>4. Began' = Began /\ Now' \in State
  BY <1>1, Stepping, NowIs DEF Began, Now, State, Typed
<1>5. CASE Does(Instruction, Now, Now') /\ pc' = pc + 1
  <2>1. pc \in Nat /\ pc > 0 /\ Does(code[pc], p[pc], Now')
    BY <1>1, <1>3, <1>5 DEF Instruction
  <2>2. \E q : Path(code, pc + 1, q) /\ q[1] = p[1] /\ q[pc + 1] = Now'
    BY <1>3, <1>4, <2>1, PathGrows
  <2>3. Passed'
    BY <1>1, <1>3, <1>4, <1>5, <2>2, Zenon DEF Passed
  <2>4. outcome' = "running"
    BY <1>1, <1>5, OnlyDivisionsQuit
  <2> QED
    BY <2>3, <2>4 DEF Stopped
<1>6. CASE Quits /\ Instruction.op \in {"div", "idiv"} /\ ~ Accepted(Instruction, regs)
  <2>1. pc' = pc /\ Now' = Now /\ regs' = regs
    BY <1>6 DEF Quits, Now
  <2>2. Passed'
    BY <1>1, <1>3, <1>4, <2>1, Zenon DEF Passed
  <2>3. Stopped'
    BY <1>1, <1>6, <2>1 DEF Stopped, Instruction
  <2> QED
    BY <2>2, <2>3
<1> QED
  BY <1>2, <1>5, <1>6, StraightStep

LEMMA TracedAlways == Spec => []Traced
<1>1. Init => Traced
  BY TracedInit
<1>2. Running /\ Traced /\ [Next]_vars => Traced'
  <2> SUFFICES ASSUME Traced, UNCHANGED vars PROVE Traced'
    BY TracedStep
  <2>1. /\ start' = start /\ code' = code /\ pc' = pc /\ regs' = regs /\ outcome' = outcome
        /\ Now' = Now /\ Began' = Began
    BY DEF vars, machine, Now, Began, s
  <2> QED
    BY <2>1, Zenon DEF Traced, Passed, Stopped
<1> QED
  BY <1>1, <1>2, RunningAlways, PTL DEF Spec

--------------------------------------------------------------------------------
(* An instruction on registers that hold no more than its width *)

Kept(a, b, d) == \A e \in Register : e # d => b.regs[e] = a.regs[e]
Becomes(a, b, d, v) == b.regs[d] = v /\ Kept(a, b, d)
Narrow(a, k, d) == d \in Register /\ a.regs[d] \in Number(k)

LEMMA InIs ==
  ASSUME NEW k \in Nat, NEW a, NEW d, Narrow(a, k, d)
  PROVE  In(a.regs, k, R(d)) = a.regs[d] /\ RegArg(R(d)) /\ R(d).reg = d
<1>1. In(a.regs, k, R(d)) = Wrap(k, a.regs[d]) /\ RegArg(R(d)) /\ R(d).reg = d
  BY DEF In, R, RegArg, Narrow
<1> QED
  BY <1>1, WrapSmall DEF Narrow

LEMMA ImmIs ==
  ASSUME NEW k \in Nat, NEW x, NEW v \in Int
  PROVE  In(x, k, Imm(v)) = Wrap(k, v)
BY DEF In, Imm

\* the register file with v in register d
With(file, d, v) == [file EXCEPT ![d] = v]

LEMMA WithIs ==
  ASSUME NEW file \in RegFile, NEW d \in Register, NEW v \in Number(Bits["dword"])
  PROVE  /\ With(file, d, v) \in RegFile /\ With(file, d, v)[d] = v
         /\ \A e \in Register : e # d => With(file, d, v)[e] = file[e]
BY DEF With, RegFile

LEMMA StoredNarrow ==
  ASSUME NEW file \in RegFile, NEW w \in Widths, NEW d \in Register, file[d] \in Number(Bits[w]),
         NEW v \in Number(Bits[w])
  PROVE  Stored(file, Bits[w], R(d), v) = With(file, d, v) /\ v \in Number(Bits["dword"])
<1> DEFINE arg == R(d)
<1>1. arg.reg = d
  BY DEF R
<1> HIDE DEF arg
<1>2. arg.reg \in Register /\ file[arg.reg] \in Number(Bits[w])
  BY <1>1
<1>3. Stored(file, Bits[w], arg, v) = [file EXCEPT ![arg.reg] = v]
  BY <1>2, StoredIs
<1>4. v \in Number(Bits["dword"])
  BY NarrowNumbers
<1> QED
  BY <1>1, <1>3, <1>4 DEF With, arg

LEMMA WritesBecomes ==
  ASSUME NEW a \in State, NEW b \in State, NEW w \in Widths, NEW d, Narrow(a, Bits[w], d),
         NEW v \in Number(Bits[w]), NEW g, Writes(a, b, Bits[w], R(d), v, g)
  PROVE  Becomes(a, b, d, v) /\ b.flags = g
<1>1. a.regs \in RegFile /\ d \in Register /\ a.regs[d] \in Number(Bits[w])
  BY DEF State, Narrow
<1>2. b.regs = With(a.regs, d, v) /\ b.flags = g /\ v \in Number(Bits["dword"])
  BY <1>1, StoredNarrow DEF Writes
<1> QED
  BY <1>1, <1>2, WithIs DEF Becomes, Kept

LEMMA StoredBoth ==
  ASSUME NEW file \in RegFile, NEW w \in Widths, NEW d \in Register, NEW e \in Register, d # e,
         file[d] \in Number(Bits[w]), file[e] \in Number(Bits[w]),
         NEW v \in Number(Bits[w]), NEW u \in Number(Bits[w]), NEW both,
         both = Stored(Stored(file, Bits[w], R(d), v), Bits[w], R(e), u)
  PROVE  both[d] = v /\ both[e] = u /\ \A q \in Register : q # d /\ q # e => both[q] = file[q]
<1> DEFINE x == With(file, d, v)
<1>1. Stored(file, Bits[w], R(d), v) = x /\ v \in Number(Bits["dword"])
  BY StoredNarrow
<1>2. x \in RegFile /\ x[d] = v /\ \A q \in Register : q # d => x[q] = file[q]
  BY <1>1, WithIs
<1> HIDE DEF x
<1>3. x[e] = file[e]
  BY <1>2
<1>4. Stored(x, Bits[w], R(e), u) = With(x, e, u) /\ u \in Number(Bits["dword"])
  BY <1>2, <1>3, StoredNarrow
<1>5. both = With(x, e, u)
  BY <1>1, <1>4
<1>6. /\ With(x, e, u)[e] = u
      /\ \A q \in Register : q # e => With(x, e, u)[q] = x[q]
  BY <1>2, <1>4, WithIs
<1> QED
  BY <1>2, <1>5, <1>6

\* What a product, a quotient or an extension leaves in ax and dx.
BecomesPair(a, b, high, low) ==
  /\ b.regs["ax"] = low /\ b.regs["dx"] = high
  /\ \A e \in Register : e # "ax" /\ e # "dx" => b.regs[e] = a.regs[e]

LEMMA WritesPairBecomes ==
  ASSUME NEW a \in State, NEW b \in State, NEW w \in Widths, Narrow(a, Bits[w], "ax"), Narrow(a, Bits[w], "dx"),
         NEW high \in Number(Bits[w]), NEW low \in Number(Bits[w]), NEW g, WritesPair(a, b, Bits[w], high, low, g)
  PROVE  BecomesPair(a, b, high, low) /\ b.flags = g
<1> DEFINE d == "ax"
           e == "dx"
           x == a.regs
           y == b.regs
<1>1. x \in RegFile /\ d \in Register /\ e \in Register /\ d # e /\ x[d] \in Number(Bits[w]) /\ x[e] \in Number(Bits[w])
  BY Registers DEF State, Narrow
<1>2. y = Stored(Stored(x, Bits[w], R(d), low), Bits[w], R(e), high) /\ b.flags = g
  BY DEF WritesPair
<1> HIDE DEF d, e, x, y
<1>3. y[d] = low /\ y[e] = high /\ \A q \in Register : q # d /\ q # e => y[q] = x[q]
  BY <1>1, <1>2, StoredBoth
<1> QED
  BY <1>2, <1>3 DEF d, e, x, y, BecomesPair

TwoNames == {"add", "adc", "sub", "sbb", "and", "or", "xor"}

LEMMA DoesTwoBecomes ==
  ASSUME NEW a \in State, NEW b \in State, NEW w \in Widths, NEW d, Narrow(a, Bits[w], d),
         NEW op \in TwoNames, NEW x, NEW y, DoesTwo(op, Bits[w], R(d), x, y, a, b)
  PROVE  \E r \in Results(Bits[w]) : /\ TwoOperandsLeave(op, Bits[w], x, y, a.flags, r)
                                     /\ Becomes(a, b, d, r.value) /\ b.flags = r.flags
<1>1. op \notin {"cmp", "test"}
  BY DEF TwoNames
<1>2. PICK r \in Results(Bits[w]) : /\ TwoOperandsLeave(op, Bits[w], x, y, a.flags, r)
                                    /\ Writes(a, b, Bits[w], R(d), r.value, r.flags)
  BY <1>1, Zenon DEF DoesTwo
<1>3. r.value \in Number(Bits[w])
  BY DEF Results
<1>4. Becomes(a, b, d, r.value) /\ b.flags = r.flags
  BY <1>2, <1>3, WritesBecomes
<1> QED
  BY <1>2, <1>4

LEMMA TwoRegisters ==
  ASSUME NEW a \in State, NEW b \in State, NEW w \in Widths, NEW d, Narrow(a, Bits[w], d), NEW e, Narrow(a, Bits[w], e),
         NEW op \in TwoNames, Does(I(op, w, R(d), R(e)), a, b)
  PROVE  \E r \in Results(Bits[w]) : /\ TwoOperandsLeave(op, Bits[w], a.regs[d], a.regs[e], a.flags, r)
                                     /\ Becomes(a, b, d, r.value) /\ b.flags = r.flags
<1> DEFINE c == I(op, w, R(d), R(e))
<1>1. c.op = op /\ c.w = w /\ c.dst = R(d) /\ c.src = R(e)
  BY DEF I
<1> HIDE DEF c
<1>2. DoesTwo(c.op, Bits[c.w], c.dst, In(a.regs, Bits[c.w], c.dst), In(a.regs, Bits[c.w], c.src), a, b)
  BY <1>1, Zenon DEF Does, TwoNames, c
<1>3. Bits[w] \in Nat
  BY WidthFacts
<1>4. In(a.regs, Bits[w], R(d)) = a.regs[d] /\ In(a.regs, Bits[w], R(e)) = a.regs[e]
  BY <1>3, InIs
<1>5. DoesTwo(op, Bits[w], R(d), a.regs[d], a.regs[e], a, b)
  BY <1>1, <1>2, <1>4
<1> QED
  BY <1>5, DoesTwoBecomes

LEMMA DigitNames ==
  /\ Digit[0 + 1] = "add" /\ Digit[1 + 1] = "or" /\ Digit[2 + 1] = "adc" /\ Digit[3 + 1] = "sbb"
  /\ Digit[4 + 1] = "and" /\ Digit[5 + 1] = "sub" /\ Digit[6 + 1] = "xor" /\ Digit[7 + 1] = "cmp"
BY DEF Digit

LEMMA WithImmediate ==
  ASSUME NEW a \in State, NEW b \in State, NEW w \in Widths, NEW d, Narrow(a, Bits[w], d),
         NEW digit \in 0..6, NEW v \in Int, Does(Digit81(digit, w, R(d), v), a, b)
  PROVE  \E r \in Results(Bits[w]) :
           /\ TwoOperandsLeave(Digit[digit + 1], Bits[w], a.regs[d], Wrap(Bits[w], v), a.flags, r)
           /\ Becomes(a, b, d, r.value) /\ b.flags = r.flags
<1> DEFINE c == Digit81(digit, w, R(d), v)
<1>1. c.op = "81" /\ c.w = w /\ c.dst = R(d) /\ c.src = Imm(v) /\ c.digit = digit
  BY DEF Digit81
<1> HIDE DEF c
<1>2. DoesTwo(Digit[c.digit + 1], Bits[c.w], c.dst, In(a.regs, Bits[c.w], c.dst), In(a.regs, Bits[c.w], c.src), a, b)
  BY <1>1, Zenon DEF Does, c
<1>3. Bits[w] \in Nat
  BY WidthFacts
<1>4. In(a.regs, Bits[w], R(d)) = a.regs[d] /\ In(a.regs, Bits[w], Imm(v)) = Wrap(Bits[w], v)
  BY <1>3, InIs, ImmIs
<1>5. DoesTwo(Digit[digit + 1], Bits[w], R(d), a.regs[d], Wrap(Bits[w], v), a, b)
  BY <1>1, <1>2, <1>4
<1>6. Digit[digit + 1] \in TwoNames
  BY DigitNames DEF TwoNames
<1> QED
  BY <1>5, <1>6, DoesTwoBecomes

\* The immediate of 83 is a signed byte.
LEMMA ShortIs ==
  ASSUME NEW w \in Widths, NEW x, NEW v \in Int, -128 <= v, v < 128
  PROVE  Wrap(Bits[w], Signed(8, In(x, 8, Imm(v)))) = Wrap(Bits[w], v)
<1>1. In(x, 8, Imm(v)) = Wrap(8, v)
  BY ImmIs
<1>2. 2^(8 - 1) = 128
  OBVIOUS
<1>3. Signed(8, Wrap(8, v)) = v
  <2>1. 8 \in Nat /\ 8 > 0 /\ -2^(8 - 1) <= v /\ v < 2^(8 - 1)
    BY <1>2
  <2> QED
    BY <2>1, SignedWrap
<1> QED
  BY <1>1, <1>3

LEMMA WithShortImmediate ==
  ASSUME NEW a \in State, NEW b \in State, NEW w \in Widths, NEW d, Narrow(a, Bits[w], d),
         NEW digit \in 0..7, NEW v \in Int, -128 <= v, v < 128, Does(Digit83(digit, w, R(d), v), a, b)
  PROVE  /\ digit # 7 => \E r \in Results(Bits[w]) :
              /\ TwoOperandsLeave(Digit[digit + 1], Bits[w], a.regs[d], Wrap(Bits[w], v), a.flags, r)
              /\ Becomes(a, b, d, r.value) /\ b.flags = r.flags
         /\ digit = 7 => \E r \in Results(Bits[w]) :
              /\ DifferenceLeaves(Bits[w], a.regs[d], Wrap(Bits[w], v), 0, a.flags, r)
              /\ b.regs = a.regs /\ b.flags = r.flags
<1> DEFINE c == Digit83(digit, w, R(d), v)
<1>1. c.op = "83" /\ c.w = w /\ c.dst = R(d) /\ c.src = Imm(v) /\ c.digit = digit
  BY DEF Digit83
<1> HIDE DEF c
<1>2. DoesTwo(Digit[c.digit + 1], Bits[c.w], c.dst, In(a.regs, Bits[c.w], c.dst),
              Wrap(Bits[c.w], Signed(8, In(a.regs, 8, c.src))), a, b)
  BY <1>1, Zenon DEF Does, c
<1>3. Bits[w] \in Nat /\ Wrap(Bits[w], Signed(8, In(a.regs, 8, Imm(v)))) = Wrap(Bits[w], v)
  BY WidthFacts, ShortIs
<1>4. In(a.regs, Bits[w], R(d)) = a.regs[d]
  BY <1>3, InIs
<1>5. DoesTwo(Digit[digit + 1], Bits[w], R(d), a.regs[d], Wrap(Bits[w], v), a, b)
  BY <1>1, <1>2, <1>3, <1>4
<1>6. CASE digit # 7
  <2>1. Digit[digit + 1] \in TwoNames
    BY <1>6, DigitNames DEF TwoNames
  <2> QED
    BY <1>5, <1>6, <2>1, DoesTwoBecomes
<1>7. CASE digit = 7
  <2>1. Digit[digit + 1] = "cmp"
    BY <1>7, DigitNames
  <2>2. PICK r \in Results(Bits[w]) : /\ TwoOperandsLeave("cmp", Bits[w], a.regs[d], Wrap(Bits[w], v), a.flags, r)
                                      /\ b.regs = a.regs /\ b.flags = r.flags
    BY <1>5, <2>1 DEF DoesTwo
  <2> QED
    BY <1>7, <2>2 DEF TwoOperandsLeave
<1> QED
  BY <1>6, <1>7

LEMMA OneRegister ==
  ASSUME NEW a \in State, NEW b \in State, NEW w \in Widths, NEW d, Narrow(a, Bits[w], d),
         NEW op \in {"inc", "dec", "not", "neg"}, Does(I(op, w, R(d), R(d)), a, b)
  PROVE  \E r \in Results(Bits[w]) : /\ OneOperandLeaves(op, Bits[w], a.regs[d], a.flags, r)
                                     /\ Becomes(a, b, d, r.value) /\ b.flags = r.flags
<1> DEFINE c == I(op, w, R(d), R(d))
<1>1. c.op = op /\ c.w = w /\ c.dst = R(d)
  BY DEF I
<1> HIDE DEF c
<1>2. DoesOne(c.op, Bits[c.w], c.dst, In(a.regs, Bits[c.w], c.dst), a, b)
  BY <1>1, Zenon DEF Does, c
<1>3. Bits[w] \in Nat
  BY WidthFacts
<1>4. In(a.regs, Bits[w], R(d)) = a.regs[d]
  BY <1>3, InIs
<1>5. DoesOne(op, Bits[w], R(d), a.regs[d], a, b)
  BY <1>1, <1>2, <1>4
<1>6. PICK r \in Results(Bits[w]) : /\ OneOperandLeaves(op, Bits[w], a.regs[d], a.flags, r)
                                    /\ Writes(a, b, Bits[w], R(d), r.value, r.flags)
  BY <1>5, Zenon DEF DoesOne
<1>7. r.value \in Number(Bits[w])
  BY DEF Results
<1>8. Becomes(a, b, d, r.value) /\ b.flags = r.flags
  BY <1>6, <1>7, WritesBecomes
<1> QED
  BY <1>6, <1>8

\* A shift by the byte y: an immediate, or the low byte of ecx.
LEMMA ShiftedRegister ==
  ASSUME NEW a \in State, NEW b \in State, NEW w \in Widths, NEW d, Narrow(a, Bits[w], d),
         NEW op \in Shiftings, NEW src, Does(I(op, w, R(d), src), a, b)
  PROVE  \E r \in Results(Bits[w]) : /\ ShiftLeaves(op, Bits[w], a.regs[d], In(a.regs, 8, src), a.flags, r)
                                     /\ Becomes(a, b, d, r.value) /\ b.flags = r.flags
<1> DEFINE c == I(op, w, R(d), src)
           y == In(a.regs, 8, src)
<1>1. c.op = op /\ c.w = w /\ c.dst = R(d) /\ c.src = src
  BY DEF I
<1> HIDE DEF c
<1>2. DoesShift(c.op, Bits[c.w], c.dst, In(a.regs, Bits[c.w], c.dst), In(a.regs, 8, c.src), a, b)
  BY <1>1, Zenon DEF Does, c
<1>3. Bits[w] \in Nat
  BY WidthFacts
<1>4. In(a.regs, Bits[w], R(d)) = a.regs[d]
  BY <1>3, InIs
<1>5. DoesShift(op, Bits[w], R(d), a.regs[d], y, a, b)
  BY <1>1, <1>2, <1>4
<1> HIDE DEF y
<1>6. PICK r \in Results(Bits[w]) : /\ ShiftLeaves(op, Bits[w], a.regs[d], y, a.flags, r)
                                    /\ Writes(a, b, Bits[w], R(d), r.value, r.flags)
  BY <1>5, Zenon DEF DoesShift
<1>7. r.value \in Number(Bits[w])
  BY DEF Results
<1>8. Becomes(a, b, d, r.value) /\ b.flags = r.flags
  BY <1>6, <1>7, WritesBecomes
<1> QED
  BY <1>6, <1>8 DEF y

LEMMA ExchangedRegisters ==
  ASSUME NEW a \in State, NEW b \in State, NEW w \in Widths, NEW d, Narrow(a, Bits[w], d), NEW e, Narrow(a, Bits[w], e),
         d # e, Does(I("xchg", w, R(d), R(e)), a, b)
  PROVE  /\ b.regs[d] = a.regs[e] /\ b.regs[e] = a.regs[d] /\ b.flags = a.flags
         /\ \A q \in Register : q # d /\ q # e => b.regs[q] = a.regs[q]
<1> DEFINE c == I("xchg", w, R(d), R(e))
<1>1. c.op = "xchg" /\ c.w = w /\ c.dst = R(d) /\ c.src = R(e)
  BY DEF I
<1> HIDE DEF c
<1>2. /\ b.flags = a.flags
      /\ b.regs = Stored(Stored(a.regs, Bits[c.w], c.dst, In(a.regs, Bits[c.w], c.src)),
                         Bits[c.w], c.src, In(a.regs, Bits[c.w], c.dst))
  BY <1>1, Zenon DEF Does, c
<1>3. Bits[w] \in Nat
  BY WidthFacts
<1>4. In(a.regs, Bits[w], R(d)) = a.regs[d] /\ In(a.regs, Bits[w], R(e)) = a.regs[e]
  BY <1>3, InIs
<1>5. b.regs = Stored(Stored(a.regs, Bits[w], R(d), a.regs[e]), Bits[w], R(e), a.regs[d])
  BY <1>1, <1>2, <1>4
<1>6. a.regs \in RegFile /\ d \in Register /\ e \in Register /\ a.regs[d] \in Number(Bits[w])
      /\ a.regs[e] \in Number(Bits[w])
  BY DEF State, Narrow
<1> DEFINE x == a.regs
           u == a.regs[d]
           v == a.regs[e]
           y == b.regs
<1> HIDE DEF x, u, v, y
<1>7. y[d] = v /\ y[e] = u /\ \A q \in Register : q # d /\ q # e => y[q] = x[q]
  <2>1. y = Stored(Stored(x, Bits[w], R(d), v), Bits[w], R(e), u)
    BY <1>5 DEF x, u, v, y
  <2>2. x \in RegFile /\ x[d] \in Number(Bits[w]) /\ x[e] \in Number(Bits[w]) /\ u \in Number(Bits[w]) /\ v \in Number(Bits[w])
    BY <1>6 DEF x, u, v
  <2> QED
    <3>1. d \in Register /\ e \in Register
      BY <1>6
    <3> QED
      BY <2>1, <2>2, <3>1, StoredBoth, SMTT(30)
<1> QED
  BY <1>2, <1>7 DEF x, u, v, y

\* whether the lower half of x, taken alone, has another value
Overflows(k, x) == Signed(k, Wrap(k, x)) # x

\* What the product of ax and e leaves of a in b.
Multiplied(a, b, k, e) ==
  LET x == a.regs["ax"] * a.regs[e] IN
  \E high, low \in Number(k) :
    /\ BecomesPair(a, b, high, low) /\ Pair(k, high, low) = x
    /\ b.flags.CF = Bit(x >= 2^k) /\ b.flags.OF = Bit(x >= 2^k)
SignedMultiplied(a, b, k, e) ==
  LET x == Signed(k, a.regs["ax"]) * Signed(k, a.regs[e]) IN
  \E high, low \in Number(k) :
    /\ BecomesPair(a, b, high, low) /\ Pair(k, high, low) = Wrap(2 * k, x)
    /\ b.flags.CF = Bit(Overflows(k, x)) /\ b.flags.OF = Bit(Overflows(k, x))

LEMMA MultipliedRegister ==
  ASSUME NEW a \in State, NEW b \in State, NEW w \in Widths, Narrow(a, Bits[w], "ax"), Narrow(a, Bits[w], "dx"),
         NEW e, Narrow(a, Bits[w], e), NEW op \in {"mul", "imul"}, Does(I(op, w, R("ax"), R(e)), a, b)
  PROVE  /\ op = "mul" => Multiplied(a, b, Bits[w], e)
         /\ op = "imul" => SignedMultiplied(a, b, Bits[w], e)
<1> DEFINE c == I(op, w, R("ax"), R(e))
           k == Bits[w]
           x == a.regs["ax"]
           y == a.regs[e]
           p == Signed(k, x) * Signed(k, y)
<1>1. c.op = op /\ c.w = w /\ c.src = R(e)
  BY DEF I
<1> HIDE DEF c
<1>2. DoesMultiply(c.op, Bits[c.w], In(a.regs, Bits[c.w], R("ax")), In(a.regs, Bits[c.w], c.src), a, b)
  BY <1>1, Zenon DEF Does, c
<1>3. k \in Nat
  BY WidthFacts
<1>4. In(a.regs, k, R("ax")) = x /\ In(a.regs, k, R(e)) = y
  BY <1>3, InIs
<1>5. DoesMultiply(op, k, x, y, a, b)
  BY <1>1, <1>2, <1>4
<1>6. PICK r : /\ r.flags \in FlagFile /\ r.value \in Number(2 * k)
               /\ op = "mul" => ProductLeaves(k, x * y, x * y >= 2^k, a.flags, r) /\ r.value = x * y
               /\ op = "imul" => ProductLeaves(k, p, Signed(k, Wrap(k, p)) # p, a.flags, r)
               /\ r.value \div 2^k \in Number(k) /\ Wrap(k, r.value) \in Number(k)
               /\ Pair(k, r.value \div 2^k, Wrap(k, r.value)) = r.value
               /\ WritesPair(a, b, k, r.value \div 2^k, Wrap(k, r.value), r.flags)
  BY <1>5, Zenon DEF DoesMultiply
<1> DEFINE high == r.value \div 2^k
           low == Wrap(k, r.value)
<1>7. BecomesPair(a, b, high, low) /\ b.flags = r.flags
  <2>1. high \in Number(k) /\ low \in Number(k) /\ WritesPair(a, b, k, high, low, r.flags)
    BY <1>6
  <2> HIDE DEF high, low
  <2> QED
    BY <2>1, WritesPairBecomes, Zenon
<1> HIDE DEF high, low, p
<1>8. CASE op = "mul"
  <2>1. /\ r.value = x * y /\ r.value = Wrap(2 * k, x * y)
        /\ r.flags.CF = Bit(x * y >= 2^k) /\ r.flags.OF = Bit(x * y >= 2^k)
    BY <1>6, <1>8 DEF ProductLeaves
  <2>2. /\ high \in Number(k) /\ low \in Number(k) /\ Pair(k, high, low) = r.value
    BY <1>6 DEF high, low
  <2> HIDE DEF x, y, k
  <2>3. \E h, l \in Number(k) :
           /\ BecomesPair(a, b, h, l) /\ Pair(k, h, l) = x * y
           /\ b.flags.CF = Bit(x * y >= 2^k) /\ b.flags.OF = Bit(x * y >= 2^k)
    BY <1>7, <2>1, <2>2
  <2>4. op # "imul"
    BY <1>8
  <2> QED
    BY <2>3, <2>4, Zenon DEF x, y, k, Multiplied
<1>9. CASE op = "imul"
  <2>1. /\ r.value = Wrap(2 * k, p)
        /\ r.flags.CF = Bit(Overflows(k, p)) /\ r.flags.OF = Bit(Overflows(k, p))
    BY <1>6, <1>9 DEF ProductLeaves, Overflows
  <2>2. /\ high \in Number(k) /\ low \in Number(k) /\ Pair(k, high, low) = r.value
    BY <1>6 DEF high, low
  <2> HIDE DEF x, y, k
  <2>3. \E h, l \in Number(k) :
           /\ BecomesPair(a, b, h, l) /\ Pair(k, h, l) = Wrap(2 * k, p)
           /\ b.flags.CF = Bit(Overflows(k, p)) /\ b.flags.OF = Bit(Overflows(k, p))
    BY <1>7, <2>1, <2>2
  <2>4. op # "mul"
    BY <1>9
  <2> QED
    BY <2>3, <2>4, Zenon DEF x, y, k, p, SignedMultiplied
<1> QED
  BY <1>8, <1>9

LEMMA MultipliedTo ==
  ASSUME NEW a \in State, NEW b \in State, NEW w \in Widths, NEW d, Narrow(a, Bits[w], d), NEW e, Narrow(a, Bits[w], e),
         Does([op |-> "imulTo", w |-> w, left |-> R(e), dst |-> R(d), src |-> R(e)], a, b)
  PROVE  LET p == Signed(Bits[w], a.regs[e]) * Signed(Bits[w], a.regs[e]) IN
         /\ Becomes(a, b, d, Wrap(Bits[w], Wrap(2 * Bits[w], p)))
         /\ b.flags.OF = Bit(Overflows(Bits[w], p))
<1> DEFINE c == [op |-> "imulTo", w |-> w, left |-> R(e), dst |-> R(d), src |-> R(e)]
           k == Bits[w]
           y == a.regs[e]
           p == Signed(k, y) * Signed(k, y)
<1>1. c.op = "imulTo" /\ c.w = w /\ c.dst = R(d) /\ c.src = R(e) /\ c.left = R(e)
  OBVIOUS
<1> HIDE DEF c
<1>2. DoesMultiplyTo(Bits[c.w], c.dst, In(a.regs, Bits[c.w], c.left), In(a.regs, Bits[c.w], c.src), a, b)
  BY <1>1, Zenon DEF Does, c
<1>3. k \in Nat
  BY WidthFacts
<1>4. In(a.regs, k, R(e)) = y
  BY <1>3, InIs
<1>5. DoesMultiplyTo(k, R(d), y, y, a, b)
  BY <1>1, <1>2, <1>4
<1>6. PICK r : /\ ProductLeaves(k, p, Signed(k, Wrap(k, p)) # p, a.flags, r)
               /\ Wrap(k, r.value) \in Number(k)
               /\ Writes(a, b, k, R(d), Wrap(k, r.value), r.flags)
  BY <1>5, Zenon DEF DoesMultiplyTo
<1>7. Becomes(a, b, d, Wrap(k, r.value)) /\ b.flags = r.flags
  BY <1>6, WritesBecomes
<1>8. r.value = Wrap(2 * k, p) /\ r.flags.OF = Bit(Overflows(k, p))
  BY <1>6 DEF ProductLeaves, Overflows
<1> HIDE DEF k, p
<1>9. Becomes(a, b, d, Wrap(k, Wrap(2 * k, p))) /\ b.flags.OF = Bit(Overflows(k, p))
  BY <1>7, <1>8
<1> QED
  BY <1>9, Zenon DEF k, p

LEMMA DividedPair ==
  ASSUME NEW a \in State, NEW b \in State, NEW w \in Widths, Narrow(a, Bits[w], "ax"), Narrow(a, Bits[w], "dx"),
         NEW e, Narrow(a, Bits[w], e), NEW op \in {"div", "idiv"}, Does(I(op, w, R("ax"), R(e)), a, b)
  PROVE  LET x == IF op = "div" THEN UnsignedIn(a.regs, w) ELSE SignedIn(a.regs, w)
             y == IF op = "div" THEN a.regs[e] ELSE Signed(Bits[w], a.regs[e])
         IN
         /\ op = "div" => Div32Accepts(Bits[w], x, y)
         /\ op = "idiv" => Idiv32Accepts(Bits[w], x, y)
         /\ x \in Int /\ y \in Int => BecomesPair(a, b, Wrap(Bits[w], Remainder(x, y)), Wrap(Bits[w], Quotient(x, y)))
<1> DEFINE c == I(op, w, R("ax"), R(e))
           k == Bits[w]
           x == IF op = "div" THEN UnsignedIn(a.regs, w) ELSE SignedIn(a.regs, w)
           y == IF op = "div" THEN a.regs[e] ELSE Signed(k, a.regs[e])
<1>1. c.op = op /\ c.w = w /\ c.src = R(e)
  BY DEF I
<1> HIDE DEF c
<1>2. /\ op = "div" => /\ Div32Accepts(Bits[c.w], UnsignedIn(a.regs, c.w), In(a.regs, Bits[c.w], c.src))
                       /\ DoesDivide(Bits[c.w], UnsignedIn(a.regs, c.w), In(a.regs, Bits[c.w], c.src), a, b)
      /\ op = "idiv" => /\ Idiv32Accepts(Bits[c.w], SignedIn(a.regs, c.w), Signed(Bits[c.w], In(a.regs, Bits[c.w], c.src)))
                        /\ DoesDivide(Bits[c.w], SignedIn(a.regs, c.w), Signed(Bits[c.w], In(a.regs, Bits[c.w], c.src)), a, b)
  BY <1>1, Zenon DEF Does, c
<1>3. k \in Nat
  BY WidthFacts
<1>4. In(a.regs, k, R(e)) = a.regs[e]
  BY <1>3, InIs
<1>5. /\ DoesDivide(k, x, y, a, b)
      /\ op = "div" => Div32Accepts(k, x, y)
      /\ op = "idiv" => Idiv32Accepts(k, x, y)
  <2>1. "div" # "idiv"
    OBVIOUS
  <2> QED
    BY <1>1, <1>2, <1>4, <2>1, Zenon
<1> HIDE DEF x, y
<1>6. /\ op = "div" => y # 0
      /\ op = "idiv" => y # 0
  BY <1>5 DEF Div32Accepts, Idiv32Accepts
<1>7. ASSUME x \in Int, y \in Int
      PROVE  BecomesPair(a, b, Wrap(k, Remainder(x, y)), Wrap(k, Quotient(x, y)))
  <2> DEFINE high == Wrap(k, Remainder(x, y))
             low == Wrap(k, Quotient(x, y))
  <2>1. high \in Number(k) /\ low \in Number(k) /\ WritesPair(a, b, k, high, low, a.flags)
    BY <1>3, <1>5, <1>6, <1>7, QuotientType, WrapType DEF DoesDivide
  <2> HIDE DEF high, low
  <2>2. BecomesPair(a, b, high, low)
    BY <2>1, WritesPairBecomes, Zenon
  <2> QED
    BY <2>2 DEF high, low
<1> QED
  BY <1>5, <1>7, Zenon DEF x, y

LEMMA SpreadPair ==
  ASSUME NEW a \in State, NEW b \in State, NEW w \in Widths, Narrow(a, Bits[w], "ax"), Narrow(a, Bits[w], "dx"),
         Does(I("cwd", w, R("ax"), R("ax")), a, b)
  PROVE  BecomesPair(a, b, SignSpread(Bits[w], a.regs["ax"]), a.regs["ax"]) /\ b.flags = a.flags
<1> DEFINE c == I("cwd", w, R("ax"), R("ax"))
           k == Bits[w]
           x == a.regs["ax"]
<1>1. c.op = "cwd" /\ c.w = w
  BY DEF I
<1> HIDE DEF c
<1>2. WritesPair(a, b, Bits[c.w], SignSpread(Bits[c.w], In(a.regs, Bits[c.w], R("ax"))), In(a.regs, Bits[c.w], R("ax")),
                 a.flags)
  BY <1>1, Zenon DEF Does, c
<1>3. k \in Nat /\ k > 0
  BY WidthFacts
<1>4. In(a.regs, k, R("ax")) = x /\ x \in Number(k)
  BY <1>3, InIs DEF Narrow
<1>5. WritesPair(a, b, k, SignSpread(k, x), x, a.flags)
  BY <1>1, <1>2, <1>4
<1>6. SignSpread(k, x) \in Number(k)
  BY <1>3, <1>4, ExtendedType
<1> DEFINE high == SignSpread(k, x)
<1> HIDE DEF high, x
<1>7. BecomesPair(a, b, high, x) /\ b.flags = a.flags
  <2>1. high \in Number(k) /\ x \in Number(k) /\ WritesPair(a, b, k, high, x, a.flags)
    BY <1>4, <1>5, <1>6 DEF high
  <2> QED
    BY <2>1, WritesPairBecomes, Zenon
<1> QED
  BY <1>7 DEF high, x

LEMMA ExtendedPair ==
  ASSUME NEW a \in State, NEW b \in State, NEW w \in Widths, Narrow(a, Bits[w], "ax"), Narrow(a, Bits[w], "dx"),
         Does(I("cbw", w, R("ax"), R("ax")), a, b), TopBit(Bits[w], a.regs["ax"]) = 0
  PROVE  Pair(Bits[w], b.regs["dx"], b.regs["ax"]) = a.regs["ax"]
<1> DEFINE c == I("cbw", w, R("ax"), R("ax"))
           k == Bits[w]
           x == a.regs["ax"]
<1>1. c.op = "cbw" /\ c.w = w
  BY DEF I
<1> HIDE DEF c
<1>2. LET v == SignExtended(Bits[c.w], In(a.regs, Bits[c.w], R("ax"))) IN
      WritesPair(a, b, Bits[c.w], v \div 2^Bits[c.w], Wrap(Bits[c.w], v), a.flags)
  BY <1>1, Zenon DEF Does, c
<1>3. k \in Nat /\ k > 0
  BY WidthFacts
<1>4. In(a.regs, k, R("ax")) = x /\ x \in Number(k)
  BY <1>3, InIs DEF Narrow
<1>5. SignExtended(k, x) = x
  BY DEF SignExtended
<1>6. WritesPair(a, b, k, x \div 2^k, Wrap(k, x), a.flags)
  BY <1>1, <1>2, <1>4, <1>5
<1>7. x \div 2^k = 0 /\ Wrap(k, x) = x /\ 0 \in Number(k) /\ x \in Int
  <2> DEFINE p == 2^k
  <2>1. p \in Int /\ p > 0 /\ x \in 0..(p - 1)
    BY <1>3, <1>4, PowerType DEF Number
  <2> HIDE DEF p
  <2>2. x \div p = 0 /\ 0 \in 0..(p - 1) /\ x \in Int
    BY <2>1
  <2> QED
    BY <1>3, <1>4, <2>2, WrapSmall DEF p, Number
<1> HIDE DEF x
<1>8. b.regs["dx"] = 0 /\ b.regs["ax"] = x
  <2>1. WritesPair(a, b, k, 0, x, a.flags)
    BY <1>6, <1>7
  <2>2. BecomesPair(a, b, 0, x)
    BY <1>4, <1>7, <2>1, WritesPairBecomes, Zenon
  <2> QED
    BY <2>2 DEF BecomesPair
<1>9. Pair(k, b.regs["dx"], b.regs["ax"]) = x
  <2> DEFINE p == 2^k
  <2>1. p \in Int
    BY <1>3, PowerType
  <2> HIDE DEF p
  <2>2. 0 * p + x = x
    BY <1>7, <2>1
  <2> QED
    BY <1>8, <2>2 DEF Pair, p
<1> QED
  BY <1>9 DEF x

LEMMA DecimalPair ==
  ASSUME NEW a \in State, NEW b \in State, Narrow(a, 8, "ax"), Narrow(a, 8, "dx"), NEW op \in DecimalNames,
         Does(I(op, "byte", R("ax"), R("ax")), a, b)
  PROVE  \E r : /\ DecimalLeaves(op, a.regs["dx"], a.regs["ax"], a.flags, r)
                /\ BecomesPair(a, b, r.ah, r.al) /\ b.flags = r.flags
<1> DEFINE c == I(op, "byte", R("ax"), R("ax"))
<1>1. c.op = op /\ c.w = "byte" /\ "byte" \in Widths
  BY DEF I, Widths
<1>2. Bits["byte"] = 8
  BY <1>1, WidthFacts
<1> HIDE DEF c
<1>3. DoesDecimal(c.op, In(a.regs, Bits[c.w], R("dx")), In(a.regs, Bits[c.w], R("ax")), a, b)
  BY <1>1, Zenon DEF Does, c
<1>4. In(a.regs, 8, R("ax")) = a.regs["ax"] /\ In(a.regs, 8, R("dx")) = a.regs["dx"]
  BY InIs
<1>5. DoesDecimal(op, a.regs["dx"], a.regs["ax"], a, b)
  BY <1>1, <1>2, <1>3, <1>4
<1>6. PICK r : /\ DecimalLeaves(op, a.regs["dx"], a.regs["ax"], a.flags, r)
               /\ WritesPair(a, b, 8, r.ah, r.al, r.flags)
  BY <1>5, Zenon DEF DoesDecimal
<1>7. r.ah \in Number(8) /\ r.al \in Number(8)
  BY <1>1, <1>6, NarrowNumbers DEF DecimalLeaves, Byte
<1>8. BecomesPair(a, b, r.ah, r.al) /\ b.flags = r.flags
  <2> DEFINE w == "byte"
             high == r.ah
             low == r.al
  <2>1. w \in Widths /\ Narrow(a, Bits[w], "ax") /\ Narrow(a, Bits[w], "dx") /\ high \in Number(Bits[w])
        /\ low \in Number(Bits[w]) /\ WritesPair(a, b, Bits[w], high, low, r.flags)
    BY <1>1, <1>2, <1>6, <1>7
  <2> HIDE DEF w, high, low
  <2>2. BecomesPair(a, b, high, low) /\ b.flags = r.flags
    BY <2>1, WritesPairBecomes, Zenon
  <2> QED
    BY <2>2 DEF high, low
<1> QED
  BY <1>6, <1>8

LEMMA SetRegister ==
  ASSUME NEW a \in State, NEW b \in State, NEW d, Narrow(a, 8, d), NEW cc, Does(Set(cc, R(d)), a, b)
  PROVE  Becomes(a, b, d, Bit(Holds(cc, a.flags))) /\ b.flags = a.flags
<1> DEFINE c == Set(cc, R(d))
           v == Bit(Holds(cc, a.flags))
<1>1. c.op = "set" /\ c.dst = R(d) /\ c.cc = cc /\ "byte" \in Widths
  BY DEF Set, Widths
<1> HIDE DEF c
<1>2. Writes(a, b, 8, c.dst, Bit(Holds(c.cc, a.flags)), a.flags)
  BY <1>1, Zenon DEF Does, c
<1>3. Bits["byte"] = 8
  BY <1>1, WidthFacts
<1>4. v \in Number(8)
  <2>1. v \in {0, 1}
    BY BitIs
  <2> HIDE DEF v
  <2> QED
    BY <1>1, <2>1, NarrowNumbers
<1>5. Writes(a, b, 8, R(d), v, a.flags)
  BY <1>1, <1>2
<1> HIDE DEF v
<1> DEFINE w == "byte"
<1>6. w \in Widths /\ Narrow(a, Bits[w], d) /\ v \in Number(Bits[w]) /\ Writes(a, b, Bits[w], R(d), v, a.flags)
  BY <1>1, <1>3, <1>4, <1>5
<1> HIDE DEF w
<1>7. Becomes(a, b, d, v) /\ b.flags = a.flags
  BY <1>6, WritesBecomes
<1> QED
  BY <1>7 DEF v

LEMMA ComplementedCarry ==
  ASSUME NEW a \in State, NEW b \in State, Does(Do("cmc"), a, b)
  PROVE  b.regs = a.regs /\ b.flags.CF = 1 - a.flags.CF
<1>1. Do("cmc").op = "cmc"
  BY DEF Do
<1> QED
  BY <1>1, Zenon DEF Does

LEMMA MovedByte ==
  ASSUME NEW a \in State, NEW b \in State, NEW w \in Widths, NEW d, Narrow(a, Bits[w], d),
         Does(I("movsx", w, R(d), R(d)), a, b)
  PROVE  Becomes(a, b, d, Wrap(Bits[w], Signed(8, a.regs[d] % 256)))
<1> DEFINE c == I("movsx", w, R(d), R(d))
           k == Bits[w]
           v == Wrap(k, Signed(8, a.regs[d] % 256))
<1>1. c.op = "movsx" /\ c.w = w /\ c.dst = R(d) /\ c.src = R(d)
  BY DEF I
<1> HIDE DEF c
<1>2. Writes(a, b, Bits[c.w], c.dst, Wrap(Bits[c.w], Signed(8, In(a.regs, 8, c.src))), a.flags)
  BY <1>1, Zenon DEF Does, c
<1>3. 2^8 = 256 /\ k \in Nat
  BY WidthFacts
<1>4. In(a.regs, 8, R(d)) = a.regs[d] % 256
  BY <1>3 DEF In, R, Wrap
<1>5. Writes(a, b, k, R(d), v, a.flags)
  BY <1>1, <1>2, <1>4
<1>6. v \in Number(k)
  <2>1. a.regs[d] \in Int
    BY NarrowNumbers DEF Narrow
  <2>2. a.regs[d] % 256 \in Number(8)
    BY <2>1, <1>3, DivMod DEF Number
  <2>3. Signed(8, a.regs[d] % 256) \in Int
    BY <2>2, SignedIs DEF SignedTo
  <2> QED
    BY <1>3, <2>3, WrapType
<1> HIDE DEF v
<1>7. Becomes(a, b, d, v)
  BY <1>5, <1>6, WritesBecomes
<1> QED
  BY <1>7 DEF v

--------------------------------------------------------------------------------
(* The whole of a run that is done *)

LEMMA Ran ==
  ASSUME Running, Traced, start.task \in StraightTasks, Done, NEW m \in Nat, Len(code) = m
  PROVE  \E p \in [1..(m + 1) -> State] :
           /\ p[1] = Began /\ p[m + 1] = Now
           /\ \A j \in 1..m : Does(code[j], p[j], p[j + 1])
<1>1. pc = m + 1
  BY DEF Running, Done
<1>2. PICK p : Path(code, pc, p) /\ p[1] = Began /\ p[pc] = Now
  BY DEF Traced, Passed
<1>3. p \in [1..(m + 1) -> State] /\ \A j \in 1..((m + 1) - 1) : Does(code[j], p[j], p[j + 1])
  BY <1>1, <1>2 DEF Path
<1>4. (m + 1) - 1 = m
  OBVIOUS
<1> QED
  BY <1>1, <1>2, <1>3, <1>4

\* The registers the idioms compute in hold numbers of the idiom's width.
Halves(a, k) == Narrow(a, k, "ax") /\ Narrow(a, k, "dx") /\ Narrow(a, k, "bx") /\ Narrow(a, k, "bp")

LEMMA HalvesKept ==
  ASSUME NEW a, NEW b, NEW k, Halves(a, k), NEW d, NEW v, Becomes(a, b, d, v), d \in Register,
         v \in Number(k) \/ d = "ecx"
  PROVE  Halves(b, k)
BY DEF Halves, Narrow, Becomes, Kept

LEMMA PairKept ==
  ASSUME NEW a, NEW b, NEW k, Halves(a, k), NEW high \in Number(k), NEW low \in Number(k), BecomesPair(a, b, high, low)
  PROVE  /\ Halves(b, k) /\ b.regs["bx"] = a.regs["bx"] /\ b.regs["bp"] = a.regs["bp"]
         /\ b.regs["ax"] = low /\ b.regs["dx"] = high
BY Registers DEF Halves, Narrow, BecomesPair

LEMMA BeganIs ==
  ASSUME Running
  PROVE  /\ Began.regs = s /\ Began.flags = start.flags /\ Began \in State
         /\ Halves(Began, n) /\ n = Bits[start.w] /\ start.w \in Widths /\ n \in Nat /\ n > 1
         /\ start.task \in Idiom /\ code = Code(start.task, start.w, start.cc)
         /\ s \in Inputs(start.task, start.w) /\ start.w \in WidthsOf(start.task)
<1>1. StartOK /\ StartFits
  BY StartIs DEF Running
<1>2. Began.regs = s /\ Began.flags = start.flags
  BY DEF Began
<1>3. Began \in State
  BY <1>1 DEF Began, State, StartFits, Fits
<1>4. Halves(Began, n)
  BY <1>1, <1>2, Registers DEF StartFits, Fits, Halves, Narrow
<1> QED
  BY <1>1, <1>2, <1>3, <1>4 DEF StartFits, StartOK, n
================================================================================
