------------------------------- MODULE CLines -------------------------------
(***************************************************************************)
(* C headers as c2ast reads them: lines that are directives or text, text  *)
(* and macro bodies as sequences of tokens.  A token is a name, a number   *)
(* or a punctuator; the spelling of tokens, # and ##, and parameters       *)
(* beyond the first are left out.                                          *)
(***************************************************************************)
EXTENDS Naturals, SequencesExt

CONSTANTS Names,      \* names macros may have, functions' names included
          Numbers     \* numbers, "0" among them

Line(d, name, param, toks) == [d |-> d, name |-> name, param |-> param, toks |-> toks]

\* A macro's param is "" when it is object-like.
Macro(l) == [name |-> l.name, param |-> l.param, body |-> l.toks, inherited |-> FALSE]

Defined(macros, n) == \E k \in DOMAIN macros : macros[k].name = n
MacroOf(macros, n) == macros[CHOOSE k \in DOMAIN macros : macros[k].name = n]
Without(macros, n) == SelectSeq(macros, LAMBDA m : m.name # n)

\* Tokens on their way through an expansion know the macros they came from.
Tok(t, hide) == [t |-> t, hide |-> hide]
Fresh(toks) == [k \in DOMAIN toks |-> Tok(toks[k], {})]
Plain(toks) == [k \in DOMAIN toks |-> toks[k].t]

Count(toks, t, k) == Cardinality({j \in 2..k : toks[j].t = t})

\* Where the parenthesis that opens at the second token closes; 0 if it does not.
Closing(toks) ==
  LET closes == {k \in 2..Len(toks) : Count(toks, "(", k) = Count(toks, ")", k)}
  IN  IF closes = {} THEN 0 ELSE CHOOSE k \in closes : \A j \in closes : k <= j

IsCall(toks) == Len(toks) > 1 /\ toks[2].t = "("

\* What is left of a condition after expansion: one number or name; an unknown
\* name counts as 0.
IsCondition(toks) == Len(toks) = 1 /\ toks[1] \in Names \cup Numbers
Holds(toks) == toks[1] \in Numbers \ {"0"}

\* What Palan can make a constant of: an expression without names.
IsConstant(toks) == toks # << >> /\ \A k \in DOMAIN toks : toks[k] \in Numbers \cup {"+"}
=============================================================================
