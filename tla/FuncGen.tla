------------------------------ MODULE FuncGen ------------------------------
(***************************************************************************)
(* Small functions of the shape PlnVCodeGen produces, for the allocator to *)
(* be checked on: straight-line code over a choice of instructions, in     *)
(* which VRegs are defined once and in order and used after they are       *)
(* defined, blocks whose variables end with them, and one while loop.      *)
(***************************************************************************)
EXTENDS VProg

\* A choice of functions: the instructions to build from, numbers of parameters,
\* instructions before the return and without the loop's own, arguments of a
\* call, widths of the VRegs, lists of frame blocks, whether there is a loop.
Profile(ops, params, length, args, widths, blocks, loop) ==
  [ops |-> ops, params |-> params, length |-> length, args |-> args,
   widths |-> widths, blocks |-> blocks, loop |-> loop]

I(op, dst, src, to) == [op |-> op, dst |-> dst, src |-> src, to |-> to]

Dsts(c) == {k \in DOMAIN c : Defines(c[k]) # 0}
Fresh(n, c) == n + Cardinality(Dsts(c)) + 1

\* Out of scope: what blocks already closed have declared (src of leave), and
\* what was defined in them since (to: the first VReg of the block).
InScope(n, c) ==
  {v \in 1..(Fresh(n, c) - 1) :
     \A k \in DOMAIN c : c[k].op = "leave" => v < c[k].to \/ v >= c[k].dst}

Vars(c, vs) == {v \in vs : \E k \in DOMAIN c : c[k].op = "var" /\ c[k].dst = v}
Ascending(S) == CHOOSE s \in [1..Cardinality(S) -> S] :
                  \A j, k \in DOMAIN s : j < k => s[j] < s[k]

Named(n, c, v) == v <= n \/ \E k \in DOMAIN c : c[k].op # "def" /\ Defines(c[k]) = v

Extensions(p, n, c) ==
  LET d == Fresh(n, c)
      u == InScope(n, c)
      dsts == {0, d}
      new == {I(op, d, << >>, 0) : op \in p.ops \cap DefOps}
             \cup {I(op, d, <<a>>, 0) : op \in p.ops \cap {"un"}, a \in u}
             \cup {I(op, d, <<a, b>>, 0) : op \in p.ops \cap BinOps, a \in u, b \in u}
             \cup {I(op, 0, <<a, b>>, 0) : op \in p.ops \cap {"store"}, a \in u, b \in u}
             \cup {I(op, d, <<a>>, 0) : op \in p.ops \cap {"lea"},
                                       a \in {v \in u : v > n /\ Named(n, c, v)}}
             \cup {I(op, a, <<b>>, 0) : op \in p.ops \cap {"mov"},
                                       a \in {v \in u : Named(n, c, v)}, b \in u}
             \cup UNION {{I(op, e, as, 0) : op \in p.ops \cap {"call"}, e \in dsts,
                                           as \in [1..k -> u]} : k \in 0..p.args}
      leaves == {I(op, d, Ascending(Vars(c, {v \in u : v >= t})), t) :
                   op \in p.ops \cap {"leave"},
                   t \in {t \in u : t > n /\ Vars(c, {v \in u : v >= t}) # {}}}
  IN  {i \in new : i.op = "mov" => i.dst # i.src[1]} \cup leaves

\* Straight-line code of the profile's length over n parameters.
Straight(p, n) ==
  LET code[k \in 0..p.length] ==
        IF k = 0 THEN {<< >>}
        ELSE UNION {{Append(c, i) : i \in Extensions(p, n, c)} : c \in code[k - 1]}
  IN  code[p.length]

\* What lowering an expression leaves is used: a constant or a result nobody
\* reads is not emitted, except by a call.  Every parameter is used as well.
AllUsed(n, c, rets) ==
  LET used == rets \cup UNION {Operands(c[k]) : k \in DOMAIN c}
  IN  /\ 1..n \subseteq used
      /\ \A k \in DOMAIN c : c[k].op \notin {"var", "call", "leave"} /\ Defines(c[k]) # 0 =>
            Defines(c[k]) \in used

\* Nothing, one value, or several variables.
Returns(n, c) == {<< >>} \cup {<<v>> : v \in InScope(n, c)}
                 \cup {<<u, v>> : u, v \in Vars(c, InScope(n, c))}

Bodies(p) ==
  UNION {UNION {{<<n, c, r>> : r \in {r \in Returns(n, c) : AllUsed(n, c, {r[k] : k \in DOMAIN r})}} :
                c \in Straight(p, n)} : n \in p.params}

Shapes(p) ==
  UNION {{[params |-> b[1], width |-> w, blocks |-> bl,
           code |-> Append(b[2], I("ret", 0, b[3], 0))] :
            w \in [1..(Fresh(b[1], b[2]) - 1) -> p.widths], bl \in p.blocks} : b \in Bodies(p)}

\* while (cond) { c[a+1..b] }: the jumps around a stretch of the code.
Looped(f, a, b, cond) ==
  [f EXCEPT !.code = SubSeq(f.code, 1, a)
                     \o <<I("label", 0, << >>, 0), I("cjmp", 0, <<cond>>, b + 4)>>
                     \o SubSeq(f.code, a + 1, b)
                     \o <<I("jmp", 0, << >>, a + 1), I("label", 0, << >>, 0)>>
                     \o SubSeq(f.code, b + 1, Len(f.code))]

DefinedIn(f, a, b) == {Defines(f.code[k]) : k \in a..b} \ {0}
UsedAfter(f, b) == UNION {Operands(f.code[k]) \cup IF f.code[k].op = "mov" THEN {f.code[k].dst} ELSE {}
                          : k \in (b + 1)..Len(f.code)}

WithLoop(p, f) ==
  UNION {{Looped(f, ab[1], ab[2], v) : v \in 1..f.params \cup DefinedIn(f, 1, ab[1])} :
         ab \in {<<a, b>> \in (0..p.length) \X (1..p.length) :
                   a < b /\ DefinedIn(f, a + 1, b) \cap UsedAfter(f, b) = {}}}

\* f after a temporary of its own that takes a callee-saved register; VRegs and
\* labels move up.
AfterATemp(f) ==
  LET h == f.params + 1
      up(v) == IF v < h THEN v ELSE v + 1
      moved(i) == [i EXCEPT !.dst = up(@), !.src = [k \in DOMAIN @ |-> up(@[k])],
                            !.to = IF i.op \in {"cjmp", "jmp"} THEN @ + 2 ELSE @]
  IN  [f EXCEPT !.width = SubSeq(@, 1, f.params) \o <<8>> \o SubSeq(@, h, Len(@)),
                !.code = <<I("def", h, << >>, 0), I("store", 0, <<h, h>>, 0)>>
                         \o [k \in DOMAIN @ |-> moved(@[k])]]

Functions(p) == IF p.loop THEN UNION {WithLoop(p, f) : f \in Shapes(p)} ELSE Shapes(p)
=============================================================================
