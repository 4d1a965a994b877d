---------------------------- MODULE CIncludesAsC ----------------------------
(***************************************************************************)
(* What the cincludes of a Palan file must come to: "as if all of a file's *)
(* cincluded headers were included into one C translation unit"            *)
(* (doc/SpecAndDesign.md:110-113).                                         *)
(***************************************************************************)
EXTENDS CIncludes, CUnit

Between == phase = "idle" /\ ~failed
Unit(k) == UnitAfter(prog, k)
Bare(ms) == [k \in DOMAIN ms |-> [ms[k] EXCEPT !.inherited = FALSE]]

\* The conditional groups the preprocessor reads are the ones C reads, across
\* includes and cincludes: wherever C accepts the headers, so does c2ast, and
\* the macros and once-headers it carries to the next cinclude are C's.
GroupsAsC ==
  /\ failed => ~Unit(done + 1).ok
  /\ Between /\ Unit(done).ok => Bare(macros) = Unit(done).macros /\ once = Unit(done).once

\* Text comes out of a header as C's macro expansion leaves it.
ExpandsAsC == phase = "export" /\ Unit(done + 1).ok => out = Unit(done + 1).out

\* n is folded after k cincludes to what C, with the unit u, makes of it.
AsC(n, k, u) == Fold(n, k) = Meaning(u, n)

\* n is what the last header made it: a macro of its own that does not just
\* rename a declaration, or no macro any more.
MadeBy(n, before, now) ==
  \/ /\ Defined(now.macros, n)
     /\ Defined(before.macros, n) => MacroOf(before.macros, n) # MacroOf(now.macros, n)
     /\ Meaning(now, n).kind \in {"constant", "function-like"}
  \/ Defined(before.macros, n) /\ ~Defined(now.macros, n)

\* A name standing after k cincludes is folded to what C would put there, when
\* the last of them made it a constant, a function-like macro or no macro; and what
\* was folded right is still folded right after headers that do not change
\* its meaning, and at its old places after headers that do.
FoldsAsC ==
  Between /\ Unit(done).ok =>
    \A k \in 1..done :
      LET now == Unit(k)
          before == Unit(k - 1)
      IN  \A n \in Names :
            \/ MadeBy(n, before, now)
            \/ Meaning(now, n) = Meaning(before, n) /\ AsC(n, k - 1, before)
            => AsC(n, k, now)

\* Reading, expanding and exporting a header ends, with or without an error.
\* (A body that calls its own parameter is left out: f(x) x(x) with f(f) is expanded for ever.)
Ends == <>Ended
=============================================================================
