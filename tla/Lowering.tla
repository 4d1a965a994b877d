------------------------------ MODULE Lowering ------------------------------
(***************************************************************************)
(* How PlnVCodeGen lowers conditions and temporaries to jumps, and the     *)
(* lowered code, run.                                                      *)
(*                                                                         *)
(* An expression is read from a variable, is a call, is a temporary that a *)
(* call makes and that is borrowed, or is &&, || or ! of others.  The      *)
(* result of a call may point to the temporaries its arguments point to.   *)
(***************************************************************************)
EXTENDS Naturals, Sequences

VARIABLES code, here, alive, regs, log, turns
loweringVars == <<code, here, alive, regs, log, turns>>

NoTemp == 0
Expr(form, name, args) == [form |-> form, name |-> name, args |-> args, temp |-> NoTemp, borrow |-> FALSE]
Read(x) == Expr("read", x, << >>)
CallOf(f, args) == Expr("call", f, args)
BorrowOf(f, args) == [CallOf(f, args) EXCEPT !.borrow = TRUE]
TempOf(k, f, args) == [CallOf(f, args) EXCEPT !.form = "temp", !.temp = k]
And(a, b) == Expr("and", "", <<a, b>>)
Or(a, b) == Expr("or", "", <<a, b>>)
Not(a) == Expr("not", "", <<a>>)

Stmt(form, exprs, blocks) == [form |-> form, exprs |-> exprs, blocks |-> blocks]
Do(e) == Stmt("do", <<e>>, << >>)
If(c, then, else) == Stmt("if", <<c>>, <<then, else>>)
While(c, body) == Stmt("while", <<c>>, <<body>>)
Break == Stmt("break", << >>, << >>)
Continue == Stmt("continue", << >>, << >>)
Return(e) == Stmt("return", <<e>>, << >>)

-----------------------------------------------------------------------------
(***************************************************************************)
(* The generator's state, and what it emits: reg is the VReg the last      *)
(* expression is in, and points the temporaries that VReg may point to.    *)
(***************************************************************************)
Start == [code |-> << >>, pending |-> << >>, labels |-> 0, next |-> 0, reg |-> 0, points |-> {}]

Instr(op, reg, x) == [op |-> op, reg |-> reg, x |-> x, temps |-> {}, zero |-> FALSE]
Emit(st, i) == [st EXCEPT !.code = Append(@, i)]
NewReg(st, points) == [st EXCEPT !.next = @ + 1, !.reg = st.next + 1, !.points = points]
NewLabel(st) == [st EXCEPT !.labels = @ + 1]

FlushReleases(st) ==
  [st EXCEPT !.code = @ \o [i \in DOMAIN st.pending |-> Instr("free", 0, st.pending[i])], !.pending = << >>]

\* Jumps to a label when the VReg is 0, or when it is not.
CondJmp(st, label, zero) == Emit(st, [Instr("cjmp", st.reg, label) EXCEPT !.zero = zero])

RECURSIVE LowerExpr(_, _), LowerArgs(_, _)
LowerArgs(st, args) ==
  IF args = << >> THEN [st EXCEPT !.points = {}]
  ELSE LET first == LowerExpr(st, Head(args))
           rest == LowerArgs(first, Tail(args))
       IN  [rest EXCEPT !.points = @ \cup first.points]

LowerCall(st, e) ==
  LET given == LowerArgs(st, e.args)
      made == NewReg(given, IF e.borrow THEN given.points ELSE {})
  IN  Emit(made, [Instr("call", made.reg, e.name) EXCEPT !.temps = given.points])

\* (as if a temporary's own declaration released what was pending around it)
LowerTempFlat(st, e) ==
  LET made == LowerCall(st, e)
  IN  [FlushReleases(Emit(made, Instr("make", made.reg, e.temp))) EXCEPT !.pending = <<e.temp>>, !.points = {e.temp}]
\* A temporary's own declaration releases only what it made itself.
LowerTemp(st, e) ==
  LET made == LowerCall([st EXCEPT !.pending = << >>], e)
      body == FlushReleases(Emit(made, Instr("make", made.reg, e.temp)))
  IN  [body EXCEPT !.pending = Append(st.pending, e.temp), !.points = {e.temp}]

\* && and ||: 0 or 1 in a VReg of its own.
LowerLogical(st, e) ==
  LET result == NewReg(NewLabel(NewLabel(st)), {})
      dst == result.reg
      decided == IF e.form = "and" THEN st.labels + 1 ELSE st.labels
      end == st.labels + 1
      zero == e.form = "and"
      left == CondJmp(FlushReleases(LowerExpr(Emit(result, Instr("set", dst, FALSE)), e.args[1])), decided, zero)
      right == CondJmp(FlushReleases(LowerExpr(left, e.args[2])), decided, zero)
      one(s) == Emit(s, Instr("set", dst, TRUE))
      done == IF e.form = "and" THEN one(right) ELSE one(Emit(Emit(right, Instr("jmp", 0, end)), Instr("label", 0, decided)))
  IN  [Emit(done, Instr("label", 0, end)) EXCEPT !.reg = dst, !.points = {}]
LowerNot(st, e) ==
  LET result == NewReg(NewLabel(st), {})
      dst == result.reg
      operand == LowerExpr(Emit(result, Instr("set", dst, TRUE)), e.args[1])
      done == Emit(CondJmp(operand, st.labels, TRUE), Instr("set", dst, FALSE))
  IN  [Emit(done, Instr("label", 0, st.labels)) EXCEPT !.reg = dst, !.points = {}]

LowerExpr(st, e) ==
  CASE e.form \in {"call", "read"} -> LowerCall(st, e)
    [] e.form = "temp" -> LowerTemp(st, e)
    [] e.form \in {"and", "or"} -> LowerLogical(st, e)
    [] e.form = "not" -> LowerNot(st, e)

RECURSIVE LowerBranchCond(_, _, _, _)
\* (as if !e were branched on as e is)
LowerBranchCondUnnegated(st, e, label, when) ==
  IF e.form = "not" THEN LowerBranchCond(st, e.args[1], label, when)
  ELSE CondJmp(FlushReleases(LowerExpr(st, e)), label, ~when)
\* Jumps to the label when e is 'when': lowerBranchCond when it is false, lowerBranchCondTrue when true.
LowerBranchCond(st, e, label, when) ==
  CASE e.form = "not" -> CondJmp(FlushReleases(LowerExpr(st, e.args[1])), label, when)
    [] e.form = (IF when THEN "or" ELSE "and") ->
         LowerBranchCond(LowerBranchCond(st, e.args[1], label, when), e.args[2], label, when)
    [] e.form = (IF when THEN "and" ELSE "or") ->
         LET left == LowerBranchCond(NewLabel(st), e.args[1], st.labels, ~when)
         IN  Emit(LowerBranchCond(left, e.args[2], label, when), Instr("label", 0, st.labels))
    [] OTHER -> CondJmp(FlushReleases(LowerExpr(st, e)), label, ~when)

RECURSIVE LowerBlock(_, _, _)
LowerIf(st, s, loop) ==
  LET end == st.labels
      else == st.labels + 1
      cond == LowerBranchCond(NewLabel(NewLabel(st)), s.exprs[1], else, FALSE)
      then == LowerBlock(cond, s.blocks[1], loop)
      both == LowerBlock(Emit(Emit(then, Instr("jmp", 0, end)), Instr("label", 0, else)), s.blocks[2], loop)
  IN  Emit(both, Instr("label", 0, end))
LowerWhile(st, s) ==
  LET start == st.labels
      end == st.labels + 1
      cond == LowerBranchCond(Emit(NewLabel(NewLabel(st)), Instr("label", 0, start)), s.exprs[1], end, FALSE)
      body == LowerBlock(cond, s.blocks[1], [start |-> start, end |-> end])
  IN  Emit(Emit(body, Instr("jmp", 0, start)), Instr("label", 0, end))

LowerStmt(st, s, loop) ==
  FlushReleases(CASE s.form = "do" -> LowerExpr(st, s.exprs[1])
                  [] s.form = "if" -> LowerIf(st, s, loop)
                  [] s.form = "while" -> LowerWhile(st, s)
                  [] s.form = "break" -> Emit(st, Instr("jmp", 0, loop.end))
                  [] s.form = "continue" -> Emit(st, Instr("jmp", 0, loop.start))
                  [] s.form = "return" -> Emit(FlushReleases(LowerExpr(st, s.exprs[1])), Instr("ret", 0, "")))
LowerBlock(st, stmts, loop) ==
  IF stmts = << >> THEN st ELSE LowerBlock(LowerStmt(st, Head(stmts), loop), Tail(stmts), loop)

NoLoop == [start |-> 0, end |-> 0]
\* A function returns where it ends.
Generate(stmts) == Emit(LowerBlock(Start, stmts, NoLoop), Instr("ret", 0, "")).code

-----------------------------------------------------------------------------
(***************************************************************************)
(* The run.  A call may return either truth; log keeps each with its name. *)
(***************************************************************************)
MaxRounds == 1   \* backward jumps

LoweringInit(Programs) ==
  /\ \E k \in DOMAIN Programs : \E p \in Programs[k] : code = <<p, Generate(p)>>
  /\ here = 1 /\ alive = {} /\ log = << >> /\ turns = 0
  /\ regs = [r \in {code[2][i].reg : i \in DOMAIN code[2]} |-> FALSE]

At == code[2][here]
LabelAt(x) == CHOOSE i \in DOMAIN code[2] : code[2][i].op = "label" /\ code[2][i].x = x

Calls ==
  /\ At.op = "call"
  /\ \E truth \in BOOLEAN : regs' = [regs EXCEPT ![At.reg] = truth] /\ log' = Append(log, <<At.x, truth>>)
  /\ here' = here + 1 /\ UNCHANGED <<code, alive, turns>>
Sets ==
  /\ At.op = "set" /\ regs' = [regs EXCEPT ![At.reg] = At.x]
  /\ here' = here + 1 /\ UNCHANGED <<code, alive, log, turns>>
Makes ==
  /\ At.op = "make" /\ alive' = alive \cup {At.x}
  /\ here' = here + 1 /\ UNCHANGED <<code, regs, log, turns>>
Frees ==
  /\ At.op = "free" /\ alive' = alive \ {At.x}
  /\ here' = here + 1 /\ UNCHANGED <<code, regs, log, turns>>
Passes ==
  /\ At.op = "label" \/ (At.op = "cjmp" /\ regs[At.reg] = At.zero)
  /\ here' = here + 1 /\ UNCHANGED <<code, alive, regs, log, turns>>
Jumps ==
  /\ At.op = "jmp" \/ (At.op = "cjmp" /\ regs[At.reg] # At.zero)
  /\ here' = LabelAt(At.x)
  /\ turns' = IF LabelAt(At.x) < here THEN turns + 1 ELSE turns
  /\ turns' <= MaxRounds
  /\ UNCHANGED <<code, alive, regs, log>>
LoweringStep == Calls \/ Sets \/ Makes \/ Frees \/ Passes \/ Jumps
Returned == At.op = "ret"

-----------------------------------------------------------------------------
(***************************************************************************)
(* What a program does, read from its statements: the calls that follow    *)
(* from the truths the log gives, in order, each operand of && and || only *)
(* when it decides.                                                        *)
(***************************************************************************)
RECURSIVE Evaluate(_, _), EvaluateAll(_, _)
EvaluateAll(args, left) == IF args = << >> THEN left ELSE EvaluateAll(Tail(args), Evaluate(Head(args), left).left)
Lost == << <<"", FALSE>> >>
Evaluate(e, left) ==
  CASE e.form \in {"call", "read", "temp"} ->
         LET rest == EvaluateAll(e.args, left)
         IN  IF rest # << >> /\ rest[1][1] = e.name THEN [left |-> Tail(rest), truth |-> rest[1][2]]
             ELSE [left |-> Lost, truth |-> FALSE]
    [] e.form = "not" -> LET o == Evaluate(e.args[1], left) IN [o EXCEPT !.truth = ~@]
    [] e.form \in {"and", "or"} ->
         LET l == Evaluate(e.args[1], left)
         IN  IF l.truth = (e.form = "and") THEN Evaluate(e.args[2], l.left) ELSE l

RECURSIVE Execute(_, _), ExecuteOne(_, _)
Execute(stmts, left) ==
  IF stmts = << >> THEN [left |-> left, out |-> "next"]
  ELSE LET one == ExecuteOne(Head(stmts), left) IN IF one.out = "next" THEN Execute(Tail(stmts), one.left) ELSE one
ExecuteOne(s, left) ==
  IF s.form \in {"break", "continue"} THEN [left |-> left, out |-> s.form]
  ELSE LET e == Evaluate(s.exprs[1], left)
       IN  CASE s.form = "do" -> [left |-> e.left, out |-> "next"]
             [] s.form = "return" -> [left |-> e.left, out |-> "return"]
             [] s.form = "if" -> Execute(s.blocks[IF e.truth THEN 1 ELSE 2], e.left)
             [] s.form = "while" ->
                  IF ~e.truth \/ e.left = Lost THEN [left |-> e.left, out |-> "next"]
                  ELSE LET b == Execute(s.blocks[1], e.left)
                       IN  CASE b.out = "break" -> [b EXCEPT !.out = "next"]
                             [] b.out = "return" -> b
                             [] OTHER -> ExecuteOne(s, b.left)

(***************************************************************************)
(* The jumps make the calls the statements say, and no others, whatever    *)
(* they return (lowerBranchCond, lowerBranchCondTrue, lowerExpr).          *)
(***************************************************************************)
RunsAsWritten == Returned => Execute(code[1], log).left = << >>

(***************************************************************************)
(* A temporary lives until every call that may reach it has returned, is   *)
(* made once before it is released and released once, whichever operands   *)
(* of && and || are evaluated (lowerTempExpr, flushReleases).              *)
(***************************************************************************)
TempsLive ==
  CASE At.op = "call" -> At.temps \subseteq alive
    [] At.op = "make" -> At.x \notin alive
    [] At.op = "free" -> At.x \in alive
    [] At.op = "ret" -> alive = {}
    [] OTHER -> TRUE
=============================================================================
