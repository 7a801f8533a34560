---------------------------- MODULE Expressions ----------------------------
(***************************************************************************)
(* One nested expression as both back ends compute it: the straight-line   *)
(* code emit_expression writes, over the runtime's vectors, and the        *)
(* bit-vector term on_bv_expr builds.  An expression grows from a literal, *)
(* one operator at a time: Operate applies an operator to two operands,    *)
(* Nest makes the result an operand of the next one.                       *)
(***************************************************************************)
EXTENDS BitsRuntime

CONSTANTS
  Widths,              \* the widths of results
  LiteralWidths        \* the widths of literals

ASSUME ResultWidthsAssumption ==
  Widths \subseteq Nat \ {0} /\ IsFiniteSet(Widths) /\ LiteralWidths \subseteq Nat \ {0}

VARIABLES
  lhs, rhs,            \* the operands: [sim, fsm], their values in the two back ends
  node,                \* the operator applied, or NoNode
  simulated,           \* its value in the generated code, or Panic
  converted            \* the value of the term, or NoTerm where the converter has none

expressionVars == <<lhs, rhs, node, simulated, converted>>

Same      == {"BitwiseNot", "Negate"}
Extending == {"ZeroExtend", "SignExtend"}
Reducing  == {"ReduceAnd", "ReduceOr", "ReduceXor", "LogicalNot"}
Bitwise   == {"BitwiseAnd", "BitwiseOr", "BitwiseXor"}
Adding    == {"Add", "Subtract"}
Scaling   == {"MultiplyUnsigned", "MultiplySigned", "DivideUnsigned", "DivideSigned"}
SignedComparing == {"LessThanSigned", "LessThanOrEqualSigned", "GreaterThanSigned",
                    "GreaterThanOrEqualSigned"}
Comparing == {"Equal", "NotEqual", "LessThanUnsigned", "LessThanOrEqualUnsigned",
              "GreaterThanUnsigned", "GreaterThanOrEqualUnsigned"} \cup SignedComparing
Logical   == {"LogicalAnd", "LogicalOr"}
Shifting  == {"ShiftLeft", "ShiftRight", "ShiftRightArithmetic"}
Selecting == {"Select", "SelectConstant", "ArraySelect"}
Operators == Same \cup Extending \cup Reducing \cup Bitwise \cup Adding \cup Scaling
               \cup Comparing \cup Logical \cup Shifting \cup Selecting
               \cup {"Concat", "Conditional", "Replicate"}

\* signed is the sign of the node's data type, which only sums look at;
\* extra is the count of a Replicate, the offset of a SelectConstant, and
\* whether the declared range of an array descends; other is the third part
\* of a Conditional, its else value, and a literal.
Node(ops, signs, extras, others) ==
  [op : ops, width : Widths, signed : signs, extra : extras, other : others]
Nodes ==
  Node(Operators \ (Adding \cup {"Replicate", "SelectConstant", "ArraySelect", "Conditional"}),
       {FALSE}, {0}, {Zero(1)})
    \cup Node(Adding, BOOLEAN, {0}, {Zero(1)})
    \cup Node({"Replicate", "SelectConstant"}, {FALSE}, 0 .. Max(Widths), {Zero(1)})
    \cup Node({"ArraySelect"}, {FALSE}, {0, 1}, {Zero(1)})
    \cup Node({"Conditional"}, {FALSE}, {0}, Vectors(LiteralWidths))

NoNode == [op |-> "None", width |-> 0, signed |-> FALSE, extra |-> 0, other |-> Zero(1)]
Panic == Vector(0, -1)     \* neither is a value: values have positive widths
NoTerm == Vector(0, -2)

-----------------------------------------------------------------------------
(* The widths Verilator gives an operator (see external in the map), and   *)
(* what parse_expression accepts of its parts.                             *)

WidthsAgree(n, l, r) ==
  CASE n.op \in Same -> n.width = l.width
    [] n.op \in Extending -> n.width >= l.width
    [] n.op \in Reducing \cup Comparing \cup Logical -> n.width = 1
    [] n.op \in Bitwise \cup Adding \cup Scaling -> n.width >= l.width /\ n.width >= r.width
    [] n.op \in Shifting -> n.width = l.width
    [] n.op = "Concat" -> n.width = l.width + r.width
    [] n.op = "Conditional" -> n.width >= r.width /\ n.width >= n.other.width
    [] n.op = "ArraySelect" -> l.width % n.width = 0
    [] OTHER -> TRUE

\* parse_expression: the width of a Replicate, the end of a constant Select.
Accepted(n, l) ==
  CASE n.op = "Replicate" -> l.width * n.extra = n.width
    [] n.op = "SelectConstant" -> n.extra + n.width <= l.width
    [] OTHER -> TRUE

Unary(n) == n.op \in Same \cup Extending \cup Reducing \cup {"Replicate", "SelectConstant"}

-----------------------------------------------------------------------------
(* emit_expression and binary_expression of the simulator generator.       *)

Comparison(op, order) ==
  CASE op \in {"LessThanUnsigned", "LessThanSigned"} -> order = -1
    [] op \in {"LessThanOrEqualUnsigned", "LessThanOrEqualSigned"} -> order # 1
    [] op \in {"GreaterThanUnsigned", "GreaterThanSigned"} -> order = 1
    [] op \in {"GreaterThanOrEqualUnsigned", "GreaterThanOrEqualSigned"} -> order # -1
    [] op = "Equal" -> order = 0
    [] op = "NotEqual" -> order # 0

\* resize_read leaves a value of the right width alone; so does resize.
Widened(v, width, signed) == IF v.width = width THEN v ELSE Resize(v, width, signed)

\* array_offset(index, left, right, width) for an array of l.width \div width elements.
Left(n, l)  == IF n.extra = 1 THEN l.width \div n.width - 1 ELSE 0
Right(n, l) == IF n.extra = 1 THEN 0 ELSE l.width \div n.width - 1

EmitUnary(n, v) ==
  CASE n.op = "BitwiseNot" -> BitNot(v)
    [] n.op = "Negate" -> NegateBits(v)
    [] n.op = "ReduceAnd" -> ReduceAnd(v)
    [] n.op = "ReduceOr" -> ReduceOr(v)
    [] n.op = "ReduceXor" -> ReduceXor(v)
    [] n.op = "LogicalNot" -> FromBool(~ Positive(v))
    [] n.op = "ZeroExtend" -> Widened(v, n.width, FALSE)
    [] n.op = "SignExtend" -> Widened(v, n.width, TRUE)
    [] n.op = "Replicate" -> Replicate(v, n.extra, n.width)
    [] n.op = "SelectConstant" -> Select(v, n.extra, n.width)

EmitBinary(n, l, r) ==
  CASE n.op = "BitwiseAnd" -> BitwiseAnd(l, r, n.width)
    [] n.op = "BitwiseOr" -> BitwiseOr(l, r, n.width)
    [] n.op = "BitwiseXor" -> BitwiseXor(l, r, n.width)
    [] n.op = "Add" -> AddBits(Widened(l, n.width, n.signed), Widened(r, n.width, n.signed))
    [] n.op = "Subtract" -> SubBits(Widened(l, n.width, n.signed), Widened(r, n.width, n.signed))
    [] n.op = "MultiplyUnsigned" -> MulBits(Widened(l, n.width, FALSE), Widened(r, n.width, FALSE))
    [] n.op = "MultiplySigned" -> MulBits(Widened(l, n.width, TRUE), Widened(r, n.width, TRUE))
    [] n.op = "DivideUnsigned" ->
         DivUnsigned(Widened(l, n.width, FALSE), Widened(r, n.width, FALSE))
    [] n.op = "DivideSigned" -> DivSigned(Widened(l, n.width, TRUE), Widened(r, n.width, TRUE))
    [] n.op \in {"Equal", "NotEqual"} ->
         FromBool((n.op = "Equal") =
                    (Widened(l, Wider(l, r), FALSE) = Widened(r, Wider(l, r), FALSE)))
    [] n.op \in Comparing \ {"Equal", "NotEqual"} ->
         FromBool(Comparison(n.op, IF n.op \in SignedComparing THEN CmpSigned(l, r)
                                                               ELSE CmpUnsigned(l, r)))
    [] n.op = "LogicalAnd" -> FromBool(Positive(l) /\ Positive(r))
    [] n.op = "LogicalOr" -> FromBool(Positive(l) \/ Positive(r))
    [] n.op = "ShiftLeft" -> Shift(l, r, n.width, FALSE, FALSE)
    [] n.op = "ShiftRight" -> Shift(l, r, n.width, TRUE, FALSE)
    [] n.op = "ShiftRightArithmetic" -> Shift(l, r, n.width, TRUE, TRUE)
    [] n.op = "Concat" -> Concat(l, r, n.width)
    [] n.op = "Conditional" -> Widened(IF Positive(l) THEN r ELSE n.other, n.width, FALSE)
    [] n.op = "Select" -> Select(l, r.bits, n.width)
    [] n.op = "ArraySelect" -> Select(l, ArrayOffset(r.bits, Left(n, l), Right(n, l), n.width), n.width)

\* Only a value used as a number can be too large for usize.
Panics(n, l, r) ==
  \/ n.op \in Shifting \cup {"Select", "ArraySelect"} /\ ExceedsUsize(r)
  \/ n.op = "ArraySelect" /\ ~ InRange(r.bits, Left(n, l), Right(n, l))

EmitExpression(n, l, r) ==
  IF Panics(n, l, r) THEN Panic ELSE IF Unary(n) THEN EmitUnary(n, l) ELSE EmitBinary(n, l, r)

-----------------------------------------------------------------------------
(* on_bv_expr, unary_expression and binary_expression of the converter,    *)
(* with the operators of the term library (SMT-LIB's bit vectors).         *)

Signed(v) == v.bits - (IF Digit(v.bits, v.width - 1) = 1 THEN 2 ^ v.width ELSE 0)
Term(width, n) == Vector(width, n % 2 ^ width)
Meaning(v, signed) == IF signed THEN Signed(v) ELSE v.bits

ExtOrTruncateUnsigned(v, width, signed) == Term(width, v.bits)   \* mutant: always zero-extends
ExtOrTruncate(v, width, signed) == Term(width, Meaning(v, signed))

\* Division rounds toward zero; by zero it is -1, or 1 for a negative dividend.
Magnitudes(a, b) == (IF a < 0 THEN - a ELSE a) \div (IF b < 0 THEN - b ELSE b)
Quotient(a, b) ==
  CASE b = 0 -> IF a < 0 THEN 1 ELSE -1
    [] b # 0 /\ (a < 0) = (b < 0) -> Magnitudes(a, b)
    [] OTHER -> - Magnitudes(a, b)

Truth(width, b) == Term(width, IF b THEN 1 ELSE 0)
Order(a, b) == IF a < b THEN -1 ELSE IF a > b THEN 1 ELSE 0

\* Shifts of terms: v by as much as the number amount, the sign bit filling in.
ShiftTerm(op, v, amount) ==
  CASE op = "ShiftLeft" -> Term(v.width, v.bits * 2 ^ amount)
    [] op = "ShiftRight" -> Term(v.width, v.bits \div 2 ^ amount)
    [] op = "ShiftRightArithmetic" -> Term(v.width, Signed(v) \div 2 ^ amount)

UnaryExpression(n, v) ==
  CASE n.op = "BitwiseNot" -> Term(v.width, - v.bits - 1)
    [] n.op = "Negate" -> Term(v.width, - v.bits)
    [] n.op = "LogicalNot" -> Term(1, 1 - v.bits)
    [] n.op = "ZeroExtend" -> ExtOrTruncate(v, n.width, FALSE)
    [] n.op = "SignExtend" -> ExtOrTruncate(v, n.width, TRUE)
    [] n.op = "Replicate" -> Term(n.width, v.bits * SumSet({2 ^ (v.width * i) : i \in 0 .. n.extra - 1}))

Arithmetic(n, l, r) ==
  CASE n.op = "Add" -> Term(n.width, l.bits + r.bits)
    [] n.op = "Subtract" -> Term(n.width, l.bits - r.bits)
    [] n.op \in {"MultiplyUnsigned", "MultiplySigned"} -> Term(n.width, l.bits * r.bits)
    [] n.op = "DivideUnsigned" -> Term(n.width, IF r.bits = 0 THEN -1 ELSE l.bits \div r.bits)
    [] n.op = "DivideSigned" -> Term(n.width, Quotient(Signed(l), Signed(r)))

SignExtends(n) == n.op \in {"MultiplySigned", "DivideSigned"} \cup SignedComparing \/ n.signed

BinaryExpression(n, l, r) ==
  CASE n.op \in Bitwise -> EmitBinary(n, ExtOrTruncate(l, n.width, FALSE), ExtOrTruncate(r, n.width, FALSE))
    [] n.op \in Adding \cup Scaling ->
         Arithmetic(n, ExtOrTruncate(l, n.width, SignExtends(n)),
                       ExtOrTruncate(r, n.width, SignExtends(n)))
    [] n.op \in Comparing ->
         Truth(1, Comparison(n.op, Order(Meaning(l, SignExtends(n)), Meaning(r, SignExtends(n)))))
    [] n.op = "LogicalAnd" -> Truth(1, l.bits = 1 /\ r.bits = 1)
    [] n.op = "LogicalOr" -> Truth(1, l.bits = 1 \/ r.bits = 1)
    [] n.op \in Shifting ->
         ShiftTerm(n.op, ExtOrTruncate(l, n.width, FALSE), ExtOrTruncate(r, n.width, FALSE).bits)
    [] n.op = "Concat" -> Term(l.width + r.width, l.bits * 2 ^ r.width + r.bits)
    [] n.op = "Conditional" -> ExtOrTruncate(IF l.bits = 1 THEN r ELSE n.other, n.width, FALSE)

\* What the code answers with todo!: reductions, selections, conditions wider
\* than a bit.
HasTerm(n, l, r) ==
  /\ n.op \notin {"ReduceAnd", "ReduceOr", "ReduceXor"} \cup Selecting
  /\ n.op \in {"LogicalNot", "Conditional"} \cup Logical => l.width = 1
  /\ n.op \in Logical => r.width = 1

OnBvExpr(n, l, r) ==
  IF l = NoTerm \/ r = NoTerm THEN NoTerm
  ELSE IF ~ HasTerm(n, l, r) THEN NoTerm
  ELSE IF Unary(n) THEN UnaryExpression(n, l) ELSE BinaryExpression(n, l, r)

-----------------------------------------------------------------------------

Literal(v) == [sim |-> FromInteger(v.width, v.bits), fsm |-> Term(v.width, v.bits)]
Literals == {Literal(v) : v \in Vectors(LiteralWidths)}

ExpressionInit ==
  /\ lhs \in Literals /\ rhs \in Literals
  /\ node = NoNode /\ simulated = Panic /\ converted = NoTerm

\* An operator whose parts the parser accepts is applied to the operands.
Operate(n) ==
  /\ node = NoNode
  /\ WidthsAgree(n, lhs.sim, rhs.sim) /\ Accepted(n, lhs.sim)
  /\ node' = n
  /\ simulated' = EmitExpression(n, lhs.sim, rhs.sim)
  /\ converted' = OnBvExpr(n, lhs.fsm, rhs.fsm)
  /\ UNCHANGED <<lhs, rhs>>

\* The result is the left or the right operand of the operator around it.
Nest(literal) ==
  /\ node # NoNode /\ simulated # Panic
  /\ \/ lhs' = [sim |-> simulated, fsm |-> converted] /\ rhs' = literal
     \/ rhs' = [sim |-> simulated, fsm |-> converted] /\ lhs' = literal
  /\ node' = NoNode /\ simulated' = Panic /\ converted' = NoTerm

ExpressionNext == (\E n \in Nodes : Operate(n)) \/ (\E literal \in Literals : Nest(literal))

ExpressionSpec == ExpressionInit /\ [][ExpressionNext]_expressionVars

-----------------------------------------------------------------------------

\* Storage never holds a bit the vector does not have, and a value has the
\* width of its node (the doc comment of Bits: unused high bits are cleared).
\* cmp and == compare whole storage, so a stray bit would make them lie.
Canonical ==
  node # NoNode /\ simulated # Panic => IsVector(simulated) /\ simulated.width = node.width

\* The converter cuts a shift amount down to the width of the result.
AmountFits == node.op \in Shifting => rhs.sim.bits < 2 ^ node.width

\* Of operands that are equal in both, the generated code and the transition
\* system compute the same value, for every operator both support: division by
\* zero, the smallest negative number, unequal widths and shifts past the end
\* included.  A shift by an amount that does not fit is where they differ.
BackendsAgree ==
  node # NoNode /\ simulated # Panic /\ converted # NoTerm
    /\ lhs.sim = lhs.fsm /\ rhs.sim = rhs.fsm /\ AmountFits
  => simulated = converted

-----------------------------------------------------------------------------
(* What an operator means: whole numbers, cut to the width of the result.  *)

Number(b) == IF b THEN 1 ELSE 0
Position(n, l, index) == IF n.extra = 1 THEN l.width \div n.width - 1 - index ELSE index
PerBit(l, r, Both(_, _), width) ==
  MapThenSumSet(LAMBDA i : 2 ^ i * Both(Digit(l.bits, i), Digit(r.bits, i)), 0 .. width - 1)

RtlNumber(n, l, r) ==
  LET s == SignExtends(n) IN
  CASE n.op = "BitwiseNot" -> - l.bits - 1
    [] n.op = "Negate" -> - l.bits
    [] n.op = "ReduceAnd" -> Number(l.bits = 2 ^ l.width - 1)
    [] n.op = "ReduceOr" -> Number(l.bits # 0)
    [] n.op = "ReduceXor" -> MapThenSumSet(LAMBDA i : Digit(l.bits, i), 0 .. l.width - 1) % 2
    [] n.op = "LogicalNot" -> Number(l.bits = 0)
    [] n.op = "LogicalAnd" -> Number(l.bits # 0 /\ r.bits # 0)
    [] n.op = "LogicalOr" -> Number(l.bits # 0 \/ r.bits # 0)
    [] n.op = "ZeroExtend" -> l.bits
    [] n.op = "SignExtend" -> Signed(l)
    [] n.op = "BitwiseAnd" -> PerBit(l, r, LAMBDA a, b : a * b, n.width)
    [] n.op = "BitwiseOr" -> PerBit(l, r, LAMBDA a, b : a + b - a * b, n.width)
    [] n.op = "BitwiseXor" -> PerBit(l, r, LAMBDA a, b : (a + b) % 2, n.width)
    [] n.op = "Add" -> Meaning(l, s) + Meaning(r, s)
    [] n.op = "Subtract" -> Meaning(l, s) - Meaning(r, s)
    [] n.op \in {"MultiplyUnsigned", "MultiplySigned"} -> Meaning(l, s) * Meaning(r, s)
    [] n.op \in {"DivideUnsigned", "DivideSigned"} -> Quotient(Meaning(l, s), Meaning(r, s))
    [] n.op \in Comparing -> Number(Comparison(n.op, Order(Meaning(l, s), Meaning(r, s))))
    [] n.op = "ShiftLeft" -> l.bits * 2 ^ r.bits
    [] n.op = "ShiftRight" -> l.bits \div 2 ^ r.bits
    [] n.op = "ShiftRightArithmetic" -> Signed(l) \div 2 ^ r.bits
    [] n.op = "Concat" -> l.bits * 2 ^ r.width + r.bits
    [] n.op = "Replicate" -> l.bits * ((2 ^ n.width - 1) \div (2 ^ l.width - 1))
    [] n.op = "Conditional" -> IF l.bits # 0 THEN r.bits ELSE n.other.bits
    [] n.op = "Select" -> l.bits \div 2 ^ r.bits
    [] n.op = "SelectConstant" -> l.bits \div 2 ^ n.extra
    [] n.op = "ArraySelect" -> l.bits \div 2 ^ (n.width * Position(n, l, r.bits))

\* The generated code computes what the operator means, bit for bit, whatever
\* the storage type: "division and signed operations match fixed width RTL"
\* (the runtime's tests.rs), with division by zero all ones.
RuntimeIsRtl ==
  node # NoNode /\ simulated # Panic =>
    simulated.bits = RtlNumber(node, lhs.sim, rhs.sim) % 2 ^ node.width

=============================================================================
