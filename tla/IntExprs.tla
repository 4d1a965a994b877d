------------------------------ MODULE IntExprs ------------------------------
(***************************************************************************)
(* Integer expressions: how the semantic analyzer folds the constant ones  *)
(* (evalConst), types the others (sa_expr_maybe_void, sa_expr_arith,       *)
(* sa_expr_shift), and what the code PlnVCodeGen lowers them to computes.  *)
(*                                                                         *)
(* Widths are scaled: 64 bits to 8, 32 to 4, 8 to 2. Operands with effects *)
(* and floats are left out. A literal is its value; one with a type is a   *)
(* C macro's constant.                                                     *)
(***************************************************************************)
EXTENDS PlnTypes, Bitwise

Lit(v) == [op |-> "lit-int", v |-> v]
ULit(v) == [op |-> "lit-uint", v |-> v]
Macro(t, v) == [op |-> "lit-int", v |-> v, type |-> t]
Var(t, v) == [op |-> "id", v |-> v, type |-> t]
Unary(op, e) == [op |-> op, operand |-> e]
Binary(op, l, r) == [op |-> op, left |-> l, right |-> r]

ArithOps == {"add", "sub", "mul", "div", "mod", "bitand", "bitor", "bitxor"}
BitOps == {"bitand", "bitor", "bitxor"}
Shifts == {"shl", "shr"}
FoldableOps == ArithOps \cup Shifts \cup {"neg", "bitnot"}
IsUnary(e) == "operand" \in DOMAIN e
IsBinary(e) == "left" \in DOMAIN e

-----------------------------------------------------------------------------
(***************************************************************************)
(* Integers of a width.                                                    *)
(***************************************************************************)
Width == [bool |-> 1, int8 |-> 2, uint8 |-> 2, int32 |-> 4, uint32 |-> 4, int64 |-> 8, uint64 |-> 8]
IntTypes == {PrimType(n) : n \in DOMAIN Width}
Bool == PrimType("bool")
Int32 == PrimType("int32")
Int64 == PrimType("int64")
Uint64 == PrimType("uint64")
IsSigned(t) == PrimGroup(t.name) = "signed"

Pattern(t, v) == v % 2 ^ Width[t.name]
Wrapped(t, v) ==
  IF IsSigned(t) /\ Pattern(t, v) >= 2 ^ (Width[t.name] - 1) THEN Pattern(t, v) - 2 ^ Width[t.name] ELSE Pattern(t, v)
IntLiteralFits(t, v) == Wrapped(t, v) = v

Size(v) == IF v < 0 THEN -v ELSE v
Quotient(a, b) == IF (a < 0) = (b < 0) THEN Size(a) \div Size(b) ELSE -(Size(a) \div Size(b))

\* What an operation is before it is cut to its width.
Result(op, t, a, b) ==
  CASE op = "add" -> a + b
    [] op = "sub" -> a - b
    [] op = "mul" -> a * b
    [] op = "div" -> Quotient(a, b)
    [] op = "mod" -> a - b * Quotient(a, b)
    [] op \in BitOps -> LET x == Pattern(t, a)
                            y == Pattern(t, b)
                        IN  Wrapped(t, CASE op = "bitand" -> x & y [] op = "bitor" -> x | y [] op = "bitxor" -> x ^^ y)
    [] op = "shl" -> Wrapped(t, a * 2 ^ (b % Width[t.name]))
    [] op = "shr" -> Wrapped(t, Pattern(t, a) \div 2 ^ (b % Width[t.name]))
    [] op = "cmp" -> IF a < b THEN 1 ELSE 0

-----------------------------------------------------------------------------
(***************************************************************************)
(* Constants, computed at 64 bits, unsigned once an operand is.            *)
(***************************************************************************)
Refused == [op |-> "refused"]
NotConst == [op |-> "not const"]
ConstVal(t, v) == [op |-> "const", type |-> t, v |-> v]
Checked(t, v) == IF IntLiteralFits(t, v) THEN ConstVal(t, v) ELSE Refused

EvalUnary(op, x) ==
  CASE x.op # "const" -> x
    [] x.op = "const" /\ op = "bitnot" -> ConstVal(x.type, Wrapped(x.type, -1 - x.v))
    [] OTHER -> Checked(x.type, -x.v)

EvalBinary(op, l, r) ==
  LET t == IF Uint64 \in {l.type, r.type} THEN Uint64 ELSE Int64
  IN  CASE op \in Shifts -> ConstVal(l.type, Result(op, l.type, l.v, r.v))
        [] op \in {"div", "mod"} /\ r.v = 0 -> Refused
        [] OTHER -> IF t = Uint64 /\ (l.v < 0 \/ r.v < 0) THEN Refused ELSE Checked(t, Result(op, t, l.v, r.v))

\* The right operand is asked first whether it is constant.
EvalOperands(op, l, r) == IF r.op # "const" THEN r ELSE IF l.op # "const" THEN l ELSE EvalBinary(op, l, r)

RECURSIVE EvalConst(_)
EvalConst(e) ==
  CASE e.op = "lit-int" -> Checked(Int64, e.v)
    [] e.op = "lit-uint" -> Checked(Uint64, e.v)
    [] e.op \notin FoldableOps \cup {"lit-int", "lit-uint"} -> NotConst
    [] e.op \in {"neg", "bitnot"} -> EvalUnary(e.op, EvalConst(e.operand))
    [] OTHER -> EvalOperands(e.op, EvalConst(e.left), EvalConst(e.right))

\* A folded result is untyped like a literal.
FoldedTo(c, e) ==
  CASE c.op = "const" -> IF c.type = Int64 THEN Lit(c.v) ELSE ULit(c.v)
    [] c.op = "refused" -> Refused
    [] OTHER -> e
FoldConstExpr(e) == IF e.op \in FoldableOps THEN FoldedTo(EvalConst(e), e) ELSE e
IsLit(e) == FoldConstExpr(e).op = "lit-int"

-----------------------------------------------------------------------------
(***************************************************************************)
(* Types: a typed expression is one whose operators name the type they     *)
(* compute in, between explicit conversions.                               *)
(***************************************************************************)
TypedLit(e, t) == IF IntLiteralFits(t, e.v) THEN [op |-> e.op, type |-> t, v |-> e.v] ELSE Refused

WrapConvert(e, t) == IF e.type = t THEN e ELSE [op |-> "convert", type |-> t, src |-> e]

\* A bool computes as an int32.
PromoteOperand(e) == IF e # Refused /\ e.type = Bool THEN WrapConvert(e, Int32) ELSE e

\* An operation on operands of the types given, the result of type t.
TypedBinary(op, t, l, r, lt, rt) ==
  [op |-> op, type |-> t, left |-> WrapConvert(l, lt), right |-> WrapConvert(r, rt)]

\* Operands of one type, to which both are converted.
Arith(op, l, r) ==
  IF Refused \in {l, r} THEN Refused
  ELSE LET t == UsualArithConv(l.type, r.type) IN TypedBinary(op, t, l, r, t, t)

RECURSIVE SaExpression(_, _)
Operand(e, expected) == PromoteOperand(SaExpression(e, expected))
\* A lit-int takes the other operand's type; the rest what is expected.
LitOperand(e, other, expected) == Operand(e, IF other = Refused THEN expected ELSE other.type)
LitLeft(e, r, expected) == Arith(e.op, LitOperand(e.left, r, expected), r)
LitRight(e, l, expected) == Arith(e.op, l, LitOperand(e.right, l, expected))
SaExprArith(e, expected) ==
  CASE IsLit(e.left) -> LitLeft(e, Operand(e.right, expected), expected)
    [] ~IsLit(e.left) /\ IsLit(e.right) -> LitRight(e, Operand(e.left, expected), expected)
    [] OTHER -> Arith(e.op, Operand(e.left, expected), Operand(e.right, expected))

\* The count keeps the low bits that a count modulo the left operand's width needs.
Shifted(op, l, r) == IF Refused \in {l, r} THEN Refused ELSE TypedBinary(op, l.type, l, r, l.type, l.type)
SaExprShift(e, expected) == Shifted(e.op, Operand(e.left, expected), Operand(e.right, NoType))

Compared(op, l, r) == LET x == Arith(op, l, r) IN IF x = Refused THEN Refused ELSE [x EXCEPT !.type = Bool]
SaExprCmp(e) == Compared(e.op, Operand(e.left, NoType), Operand(e.right, NoType))

UnaryOf(op, x) ==
  IF x = Refused THEN Refused
  ELSE [op |-> op, type |-> IF op = "logical-not" THEN Bool ELSE x.type, operand |-> x]
SaExprUnary(e, expected) ==
  UnaryOf(e.op, IF e.op = "logical-not" THEN SaExpression(e.operand, NoType) ELSE Operand(e.operand, expected))

SaFolded(e, expected) ==
  LET unsigned == expected \in {t \in IntTypes : ~IsSigned(t)}
      atLeast32 == IF expected = Bool THEN Int32 ELSE expected
  IN  CASE e = Refused \/ e.op = "id" -> e
        [] e.op = "lit-int" -> IF "type" \in DOMAIN e THEN e
                               ELSE TypedLit(e, IF expected = NoType THEN Int64 ELSE expected)
        [] e.op = "lit-uint" -> TypedLit(e, IF unsigned THEN expected ELSE Uint64)
        [] e.op \in ArithOps -> SaExprArith(e, atLeast32)
        [] e.op \in Shifts -> SaExprShift(e, atLeast32)
        [] e.op = "cmp" -> SaExprCmp(e)
        [] e.op \in {"neg", "bitnot", "logical-not"} -> SaExprUnary(e, expected)
SaExpression(e, expected) == SaFolded(FoldConstExpr(e), expected)

RECURSIVE TakesExpectedType(_)
\* (as if either operand of an operator could take the type)
EitherTakes(e) ==
  CASE e.op = "lit-int" -> "type" \notin DOMAIN e
    [] e.op \in {"neg", "bitnot"} -> TakesExpectedType(e.operand)
    [] e.op \in ArithOps \cup Shifts -> TakesExpectedType(e.left) \/ TakesExpectedType(e.right)
    [] OTHER -> e.op = "lit-uint"
\* Whether what is expected changes what SaExpression makes of an expression.
FoldedTakes(e) ==
  CASE e.op = "lit-int" -> "type" \notin DOMAIN e
    [] e.op \in {"neg", "bitnot"} -> TakesExpectedType(e.operand)
    [] e.op \in Shifts -> TakesExpectedType(e.left)
    [] e.op \in ArithOps -> \/ ~IsLit(e.left) /\ TakesExpectedType(e.left)
                            \/ (IsLit(e.left) \/ ~IsLit(e.right)) /\ TakesExpectedType(e.right)
    [] OTHER -> e.op = "lit-uint"
TakesExpectedType(e) == FoldedTakes(FoldConstExpr(e))

-----------------------------------------------------------------------------
(***************************************************************************)
(* The code: each operation at its width, by shifts for a power of two.    *)
(***************************************************************************)
\* k where the operand is the literal 2^k, else 0.
Pow2Literal(e, t) ==
  LET ks == {k \in 1..(Width[t.name] - 1) : e.v = 2 ^ k}
  IN  IF e.op \in {"lit-int", "lit-uint"} /\ ks # {} THEN CHOOSE k \in ks : TRUE ELSE 0

ShiftLeft(t, x, k) == Wrapped(t, x * 2 ^ k)
ShiftRight(t, x, k) == Wrapped(t, Pattern(t, x) \div 2 ^ k)
ShiftSigned(t, x, k) == x \div 2 ^ k

\* (as if an arithmetic shift were the division)
Pow2DivModFloored(t, x, k, mod) == LET q == ShiftSigned(t, x, k) IN IF mod THEN x - ShiftLeft(t, q, k) ELSE q
\* A shift rounds down: a negative dividend first gets 2^k - 1 added.
LowerPow2DivMod(t, x, k, mod) ==
  LET bias == ShiftRight(t, ShiftSigned(t, x, Width[t.name] - 1), Width[t.name] - k)
      q == ShiftSigned(t, Wrapped(t, x + bias), k)
  IN  CASE ~IsSigned(t) /\ mod -> x & (2 ^ k - 1)
        [] ~IsSigned(t) /\ ~mod -> ShiftRight(t, x, k)
        [] OTHER -> IF mod THEN Wrapped(t, x - ShiftLeft(t, q, k)) ELSE q

RECURSIVE Run(_)
RunBinary(e) ==
  LET t == e.type
      byRight == Pow2Literal(e.right, t)
      byLeft == Pow2Literal(e.left, t)
  IN  CASE e.op = "mul" /\ byRight # 0 -> ShiftLeft(t, Run(e.left), byRight)
        [] e.op = "mul" /\ byRight = 0 /\ byLeft # 0 -> ShiftLeft(t, Run(e.right), byLeft)
        [] e.op \in {"div", "mod"} /\ byRight # 0 -> LowerPow2DivMod(t, Run(e.left), byRight, e.op = "mod")
        [] OTHER -> Wrapped(t, Result(e.op, t, Run(e.left), Run(e.right)))

\* What the code computes for a typed expression.
Run(e) ==
  CASE e.op \in {"lit-int", "lit-uint", "id"} -> e.v
    [] e.op = "convert" -> Wrapped(e.type, Run(e.src))
    [] e.op = "neg" -> Wrapped(e.type, -Run(e.operand))
    [] e.op = "bitnot" -> Wrapped(e.type, -1 - Run(e.operand))
    [] e.op = "logical-not" -> IF Run(e.operand) = 0 THEN 1 ELSE 0
    [] OTHER -> RunBinary(e)

RECURSIVE Traps(_)
\* A division that the processor refuses: by zero, or of the least number by -1.
Traps(e) ==
  CASE IsUnary(e) -> Traps(e.operand)
    [] IsBinary(e) ->
         \/ Traps(e.left) \/ Traps(e.right)
         \/ e.op \in {"div", "mod"} /\ Run(e.right) = 0
         \/ e.op \in {"div", "mod"} /\ IsSigned(e.type) /\ Run(e.right) = -1 /\ Run(e.left) = -(2 ^ (Width[e.type.name] - 1))
    [] OTHER -> e.op = "convert" /\ Traps(e.src)
=============================================================================
