------------------------------- MODULE CUnit -------------------------------
(***************************************************************************)
(* What C makes of the same headers included one after the other in one    *)
(* translation unit: the reference for CPreprocessor and CIncludes.        *)
(* Conditional groups are followed line by line with, for each open group, *)
(* whether it is being read and whether a part of it has been taken; macro *)
(* expansion is the algorithm the C standard's wording was made from       *)
(* (Prosser's), which is recursive.                                        *)
(***************************************************************************)
EXTENDS CLines

RECURSIVE CExpand(_, _)

\* The body with the argument, expanded by itself, in the parameter's places,
\* all of it hidden from the macros in hide.
CSubst(ms, m, arg, hide) ==
  LET put(t) == IF m.param # "" /\ t = m.param THEN CExpand(ms, arg) ELSE Fresh(<<t>>)
      all == FlattenSeq([k \in DOMAIN m.body |-> put(m.body[k])])
  IN  [k \in DOMAIN all |-> Tok(all[k].t, all[k].hide \cup hide)]

CExpand(ms, toks) ==
  IF toks = << >> THEN << >>
  ELSE LET h == Head(toks) IN
       IF ~Defined(ms, h.t) \/ h.t \in h.hide THEN <<h>> \o CExpand(ms, Tail(toks))
       ELSE LET m == MacroOf(ms, h.t)
                close == Closing(toks)
            IN  IF m.param = ""
                THEN CExpand(ms, CSubst(ms, m, << >>, h.hide \cup {h.t}) \o Tail(toks))
                ELSE IF IsCall(toks)
                THEN CExpand(ms, CSubst(ms, m, SubSeq(toks, 3, close - 1),
                                        (h.hide \cap toks[close].hide) \cup {h.t})
                                 \o SubSeq(toks, close + 1, Len(toks)))
                ELSE <<h>> \o CExpand(ms, Tail(toks))

CText(ms, toks) == Plain(CExpand(ms, Fresh(toks)))

\* The operand of defined is not expanded.
IsDefined(toks) == Len(toks) = 2 /\ toks[1] = "defined" /\ toks[2] \in Names
Condition(ms, toks) ==
  IF IsDefined(toks) THEN <<IF Defined(ms, toks[2]) THEN "1" ELSE "0">> ELSE CText(ms, toks)

-----------------------------------------------------------------------------

\* The unit so far: macros, headers that said "once", text of the current
\* top-level header, the open groups, and whether C accepts it.  Of a group: is
\* its present part read, has a part been taken already, is this its last part.
NoUnit == [macros |-> << >>, once |-> {}, out |-> << >>, groups |-> << >>, ok |-> TRUE]

Rejected(u) == [u EXCEPT !.ok = FALSE]
IsRead(groups) == \A k \in DOMAIN groups : groups[k].on

\* A part of the innermost group whose condition is c, if it is looked at.
Part(u, surrounding, taken, last, c) ==
  LET looked == IsRead(surrounding) /\ ~taken
      holds == looked /\ IsCondition(c) /\ Holds(c)
      group == [on |-> holds, taken |-> taken \/ holds, last |-> last]
  IN  IF looked /\ ~IsCondition(c) THEN Rejected(u)
      ELSE [u EXCEPT !.groups = Append(surrounding, group)]

Truth(b) == IF b THEN <<"1">> ELSE <<"0">>

CGroupLine(u, l) ==
  CASE l.d = "if"     -> Part(u, u.groups, FALSE, FALSE, Condition(u.macros, l.toks))
    [] l.d = "ifdef"  -> Part(u, u.groups, FALSE, FALSE, Truth(Defined(u.macros, l.name)))
    [] l.d = "ifndef" -> Part(u, u.groups, FALSE, FALSE, Truth(~Defined(u.macros, l.name)))
    [] l.d \in {"elif", "else", "endif"} ->
         IF u.groups = << >> THEN Rejected(u)
         ELSE LET g == Last(u.groups) IN
              CASE l.d = "endif" -> [u EXCEPT !.groups = Front(@)]
                [] l.d # "endif" /\ g.last -> Rejected(u)
                [] l.d = "elif" /\ ~g.last ->
                     Part(u, Front(u.groups), g.taken, FALSE, Condition(u.macros, l.toks))
                [] l.d = "else" /\ ~g.last -> Part(u, Front(u.groups), g.taken, TRUE, <<"1">>)

RECURSIVE CHeader(_, _, _)

CLine(headers, u, f, l) ==
  CASE l.d = "define" -> [u EXCEPT !.macros = Append(Without(@, l.name), Macro(l))]
    [] l.d = "undef"  -> [u EXCEPT !.macros = Without(@, l.name)]
    [] l.d = "once"   -> [u EXCEPT !.once = @ \cup {f}]
    [] l.d = "text"   -> [u EXCEPT !.out = @ \o CText(u.macros, l.toks)]
    [] l.d = "error"  -> Rejected(u)
    [] l.d = "include" -> IF l.name \in DOMAIN headers THEN CHeader(headers, u, l.name)
                          ELSE Rejected(u)

\* u after header f.
CHeader(headers, u, f) ==
  LET Read(v, l) == IF ~v.ok THEN v
                    ELSE IF l.d \in {"if", "ifdef", "ifndef", "elif", "else", "endif"}
                    THEN CGroupLine(v, l)
                    ELSE IF IsRead(v.groups) THEN CLine(headers, v, f, l) ELSE v
      after == FoldLeft(Read, [u EXCEPT !.groups = << >>], headers[f])
  IN  IF f \in u.once THEN u ELSE [after EXCEPT !.groups = u.groups]

\* The unit after the first k headers of prog.unit.
RECURSIVE UnitAfter(_, _)
UnitAfter(prog, k) ==
  IF k = 0 THEN NoUnit
  ELSE CHeader(prog.headers, [UnitAfter(prog, k - 1) EXCEPT !.out = << >>], prog.unit[k])

\* What a name means in text that follows: itself, a constant, or something
\* Palan cannot make a constant of.
Meaning(u, n) ==
  LET toks == CText(u.macros, <<n>>) IN
  IF ~Defined(u.macros, n) \/ (toks = <<n>> /\ MacroOf(u.macros, n).param = "")
  THEN [kind |-> "name", value |-> << >>]
  ELSE IF MacroOf(u.macros, n).param # "" THEN [kind |-> "function-like", value |-> << >>]
  ELSE IF IsConstant(toks) THEN [kind |-> "constant", value |-> toks]
  ELSE [kind |-> "not-constant", value |-> << >>]
=============================================================================
