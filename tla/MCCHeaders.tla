----------------------------- MODULE MCCHeaders -----------------------------
(***************************************************************************)
(* Small headers: every sequence of a few group directives, a few macros   *)
(* with text that names them, macros made and unmade by two or three       *)
(* cincludes, and headers that include each other; and expressions.        *)
(***************************************************************************)
EXTENDS CIncludesAsC

N == {"A", "B", "f", "g"}
D(n, toks) == Line("define", n, "", toks)
F(toks) == Line("define", "f", "x", toks)
L(d, n) == Line(d, n, "", << >>)
With(d, toks) == Line(d, "", "", toks)
T(toks) == With("text", toks)

\* All headers m and h from the given choices of lines, cincluded as units say.
Progs(m, h, units) == [headers : [m : m, h : h], unit : units]
LinesOf(S, n) == [1..n -> S]

\* Every nest of groups, well-formed or not.
GroupLines == {L("ifdef", "A"), With("if", <<"A">>), With("elif", <<"defined", "B">>), L("else", ""),
               L("endif", ""), D("A", <<"1">>), D("B", <<"1">>)}
Groups == Progs(LinesOf(GroupLines, 5), {<< >>}, {<<"m">>})

\* Groups in a group, with A defined before it or not.
NestLines == {L("ifdef", "A"), L("ifdef", "B"), L("else", ""), L("endif", ""), D("A", <<"1">>)}
Nests == Progs({h \in LinesOf(NestLines, 6) : h[1] \in {L("ifdef", "A"), D("A", <<"1">>)}}, {<< >>}, {<<"m">>})

\* Macros that name each other and themselves, and text that names them.
Bodies == {<<"1">>, <<"A">>, <<"B">>, <<"B", "+", "1">>, <<"f", "(", "A", ")">>, <<"f">>}
FBodies == {<<"x">>, <<"x", "+", "B">>, <<"f", "(", "x", ")">>, <<"A">>}
Texts == {<<"A">>, <<"f", "(", "A", ")">>, <<"f", "(", "f", "(", "B", ")", ")">>, <<"f", "g">>}
Macros == Progs({<<D("A", a), D("B", b), F(c), T(t)>> :
                   a \in Bodies, b \in Bodies, c \in FBodies, t \in Texts}, {<< >>}, {<<"m">>})

\* Macros made, remade and unmade by one cinclude after another.
CarryLines == {D("A", <<"1">>), D("A", <<"B">>), D("A", <<"g">>), L("undef", "A"), D("B", <<"1">>),
               D("B", <<"B", "+", "1">>), L("undef", "B"), T(<<"g">>), L("ifdef", "A")}
CarryPairs == {h \in LinesOf(CarryLines, 2) : h[1] # T(<<"g">>)}
Carried == Progs(CarryPairs, CarryPairs, {<<"m", "h", "m">>})

\* Headers that include one another, with and without "once".
IncludeLines == {L("include", "h"), D("A", <<"1">>), L("undef", "A")}
Included == {L("once", ""), D("A", <<"1">>), L("ifdef", "A"), With("if", <<"A">>), L("undef", "A"),
             T(<<"A">>)}
Including == Progs(LinesOf(IncludeLines, 3), LinesOf(Included, 3), {<<"m">>})

\* Lines that no header may have.
Rejects == {With("if", << >>), With("if", <<"1", "1">>), With("if", <<"defined">>), L("include", "k"),
            L("error", "")}
Refused == Progs(LinesOf(Rejects \cup {L("ifdef", "A"), L("else", "")}, 2), {<< >>}, {<<"m">>})

NoHeaders == [headers |-> [m |-> << >>, h |-> << >>], unit |-> << >>]

AllPrograms == <<{NoHeaders}, Groups, Nests, Macros, Carried, Including, Refused>>

\* Headers are read, or expressions typed.
VARIABLE expr
Exprs == INSTANCE MCIntExprs
MCInit == Init /\ expr \in (IF prog = NoHeaders THEN Exprs!Leaves ELSE {Exprs!NoExpr})
MCNext ==
  \/ Next /\ UNCHANGED expr
  \/ Exprs!Grow /\ UNCHANGED vars
MCSpec == MCInit /\ [][MCNext]_<<vars, expr>> /\ WF_vars(Next)

\* Folding, shifts and plain instructions compute one value.
FoldsAsRun == expr # Exprs!NoExpr => Exprs!FoldsAsRun
\* The analyzer tells what an expected type changes.
ExpectedTypeTold == expr # Exprs!NoExpr => Exprs!ExpectedTypeTold
=============================================================================
