--------------------------------- MODULE MCFPU ---------------------------------
(***************************************************************************)
(* A small instance of FPU for TLC: three registers and four values, of    *)
(* which 2 is not a number.  The tables are those of arithmetic modulo 3;  *)
(* they only have to tell the operations and their operands apart.         *)
(***************************************************************************)
EXTENDS FPU, TLC

NaN == 2
Numbers == -1..1
MCValue == Numbers \cup {NaN}

Wrap(n) == ((n + 1) % 3) - 1
Table(F(_, _)) ==
  [p \in MCValue \X MCValue |-> IF NaN \in {p[1], p[2]} THEN NaN ELSE F(p[1], p[2])]
MCBinary ==
  [add |-> Table(LAMBDA x, y : Wrap(x + y)), sub |-> Table(LAMBDA x, y : Wrap(x - y)),
   mul |-> Table(LAMBDA x, y : x * y), div |-> Table(LAMBDA x, y : IF y = 0 THEN NaN ELSE x * y),
   scale |-> Table(LAMBDA x, y : Wrap(x + 1 + y)), yl2x |-> Table(LAMBDA x, y : Wrap(x - y + 1))]
Function(F(_)) == [v \in MCValue |-> IF v = NaN THEN NaN ELSE F(v)]
MCUnary ==
  ("chs" :> Function(LAMBDA v : -v)) @@ ("abs" :> Function(LAMBDA v : v * v)) @@
  ("2xm1" :> Function(LAMBDA v : Wrap(v + 1)))
MCCompare ==
  [p \in MCValue \X MCValue |-> IF NaN \in {p[1], p[2]} THEN "unordered"
     ELSE IF p[1] > p[2] THEN "greater" ELSE IF p[1] < p[2] THEN "less" ELSE "equal"]

\* 1 lies between two integers: it rounds up to itself and truncates to 0.
MCRound == [nearest |-> Function(LAMBDA v : v), truncate |-> Function(LAMBDA v : IF v = 1 THEN 0 ELSE v)]
\* Neither does it fit into single precision.
MCNarrow == (32 :> Function(LAMBDA v : IF v = 1 THEN 0 ELSE v)) @@ (64 :> Function(LAMBDA v : v))
MCSigned == (0 :> 0) @@ (1 :> -1)
MCUnsigned == (0 :> 0) @@ (1 :> 1)
MCToWord == [v \in MCValue |-> IF v \in {-1, 1} THEN 1 ELSE 0]
MCOperand == {-1, 1}
\* Nothing set, and everything set.
MCGarbage == {[c0 |-> b, c1 |-> b, c2 |-> b, c3 |-> b] : b \in {0, 1}}
================================================================================
