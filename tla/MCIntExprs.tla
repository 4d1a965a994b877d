----------------------------- MODULE MCIntExprs -----------------------------
(***************************************************************************)
(* Expressions grow: each becomes an operand of every operator, beside     *)
(* operands of every kind; when it has an operator, of one bit operator    *)
(* for all.                                                                *)
(***************************************************************************)
EXTENDS IntExprs

VARIABLE expr

MaxDepth == 2
Typed(n, v) == Var(PrimType(n), v)
Leaves == {Lit(-3), Lit(127), Lit(4), ULit(200), Typed("int64", -128), Typed("int64", 5), Typed("uint64", 4),
           Typed("int32", -5), Typed("uint8", 2), Typed("bool", 1), Macro(Int32, 2)}
Others == {Lit(2), Lit(-1), ULit(1), Typed("int64", 3)}
Small == Typed("int8", 1)
NoExpr == Lit(0)

RECURSIVE Depth(_)
Deepest(a, b) == IF a > b THEN a ELSE b
Depth(e) == CASE IsUnary(e) -> 1 + Depth(e.operand)
              [] IsBinary(e) -> 1 + Deepest(Depth(e.left), Depth(e.right))
              [] OTHER -> 0

With(ops, e, xs) == UNION {{Binary(op, e, x), Binary(op, x, e)} : op \in ops, x \in xs}
Grown(e) ==
  {Unary(op, e) : op \in {"neg", "bitnot", "logical-not"}}
  \cup (IF Depth(e) = 0 THEN With(ArithOps \cup Shifts \cup {"cmp"}, e, Others \cup {Small})
        ELSE With((ArithOps \ {"bitor", "bitxor"}) \cup Shifts \cup {"cmp"}, e, Others))
\* Nothing grows from NoExpr.
Grow ==
  /\ expr # NoExpr
  /\ Depth(expr) < MaxDepth
  /\ expr' \in Grown(expr)

-----------------------------------------------------------------------------
\* The same expression with constants for its 64-bit variables.
RECURSIVE Constant(_)
Constant(e) ==
  CASE e.op = "id" /\ e.type = Int64 -> Lit(e.v)
    [] e.op = "id" /\ e.type = Uint64 -> ULit(e.v)
    [] IsUnary(e) -> [e EXCEPT !.operand = Constant(@)]
    [] IsBinary(e) -> [e EXCEPT !.left = Constant(@), !.right = Constant(@)]
    [] OTHER -> e

\* The types an expression computes in.
RECURSIVE TypesOf(_)
TypesOf(e) ==
  CASE IsUnary(e) -> TypesOf(e.operand) \cup (IF e.op = "logical-not" THEN {Int32} ELSE {})
    [] IsBinary(e) -> TypesOf(e.left) \cup TypesOf(e.right) \cup (IF e.op = "cmp" THEN {Int32} ELSE {})
    [] "type" \in DOMAIN e -> {IF e.type = Bool THEN Int32 ELSE e.type}
    [] OTHER -> IF e.op = "lit-uint" THEN {Uint64} ELSE {Int64}

\* What an expression is in the integers, where each of the types holds it and all it is made from.
RECURSIVE Meant(_, _)
Defined(op, x, y, ts) ==
  CASE op \in {"div", "mod"} -> y # 0
    [] op \in Shifts -> /\ \A t \in ts : y \in 0..(Width[t.name] - 1)
                        /\ x >= 0 /\ x * 2 ^ y < 2 ^ 7
    [] OTHER -> TRUE
Meant(e, ts) ==
  LET pairs == {p \in Meant(e.left, ts) \X Meant(e.right, ts) : Defined(e.op, p[1], p[2], ts)}
      vs == CASE IsUnary(e) -> {CASE e.op = "neg" -> -x [] e.op = "bitnot" -> -1 - x
                                  [] e.op = "logical-not" -> IF x = 0 THEN 1 ELSE 0 : x \in Meant(e.operand, ts)}
              [] IsBinary(e) -> {Result(e.op, Int64, p[1], p[2]) : p \in pairs}
              [] OTHER -> {e.v}
  IN  {v \in vs : \A t \in ts : IntLiteralFits(t, v)}

-----------------------------------------------------------------------------
\* Constants fold to what the code computes from variables of the same values.
FoldsAtFullWidth(e) ==
  LET c == EvalConst(Constant(e))
      sa == SaExpression(e, NoType)
  IN  c.op = "const" /\ TypesOf(e) \subseteq {Int64, Uint64} => sa # Refused /\ (~Traps(sa) => Run(sa) = c.v)
\* Whatever type is expected, that all values have room in does not change them.
KeepsWhatFits(e) ==
  \A t \in IntTypes \cup {NoType} :
    \A v \in Meant(e, (TypesOf(e) \cup {Int64, t}) \ {NoType}) :
      LET sa == SaExpression(e, t) IN sa # Refused /\ (~Traps(sa) => Run(sa) = v)
FoldsAsRun == FoldsAtFullWidth(expr) /\ KeepsWhatFits(expr)

\* The analyzer tells whether what is expected changes what it makes of an expression.
ExpectedTypeTold ==
  LET plain == SaExpression(expr, NoType)
      made == {SaExpression(expr, t) : t \in IntTypes} \cup {plain}
  IN  made # {Refused} => (TakesExpectedType(expr) <=> made # {plain})

=============================================================================
