----------------------------- MODULE CIncludes -----------------------------
(***************************************************************************)
(* The cincluded headers of a Palan file.  For each, gen-ast runs c2ast    *)
(* (src/c2ast/main.cpp) with the state the last one left; c2ast loads the  *)
(* macros, preprocesses, exports the macros that are constants and leaves  *)
(* its state; gen-ast registers what it is told in its macro table, and    *)
(* folds names by the registration in effect where they stand              *)
(* (src/gen-ast/PlnGenAstMacroFold.cpp).                                   *)
(*                                                                         *)
(* A place in the Palan file is the number of cincludes before it.  The    *)
(* headers declare functions and no enumerators.                           *)
(***************************************************************************)
EXTENDS CPreprocessor

CONSTANTS Functions,    \* names that, standing in text, declare a function
          Programs      \* a sequence of sets of headers and cincludes to check

VARIABLES phase,        \* "idle", "preprocess", "export"
          done,         \* cincludes finished
          inherited,    \* inherited_names
          at,           \* the macro to export next
          table         \* MacroTable: name -> registrations, oldest first

ivars == <<phase, done, inherited, at, table>>
vars == <<prog, macros, once, files, scan, why, out, failed, phase, done, inherited, at, table>>

MacroNames == {macros[k].name : k \in DOMAIN macros}

\* loadMacros of what dumpMacroState wrote: the macros, marked as inherited.
Reloaded == [k \in DOMAIN macros |-> [macros[k] EXCEPT !.inherited = TRUE]]

Init ==
  /\ \E k \in DOMAIN Programs : prog \in Programs[k]
  /\ macros = << >> /\ once = {} /\ files = << >> /\ scan = << >>
  /\ why = "text" /\ out = << >> /\ failed = FALSE
  /\ phase = "idle" /\ done = 0 /\ inherited = {} /\ at = 0
  /\ table = [n \in Names |-> << >>]

\* execute_c2ast: the macros and once-headers of the last one are loaded again,
\* then the header is preprocessed.
Cinclude ==
  /\ phase = "idle" /\ done < Len(prog.unit)
  /\ macros' = Reloaded
  /\ inherited' = MacroNames
  /\ files' = <<Open(prog.unit[done + 1])>>
  /\ out' = << >>
  /\ phase' = "preprocess"
  /\ UNCHANGED <<prog, once, scan, why, failed, done, at, table>>

Read == phase = "preprocess" /\ Preprocess /\ UNCHANGED ivars

Preprocessed ==
  /\ phase = "preprocess" /\ files = << >>
  /\ phase' = "export" /\ at' = 1
  /\ UNCHANGED pvars
  /\ UNCHANGED <<done, inherited, table>>

-----------------------------------------------------------------------------
\* exportMacroConstants, one action per macro and outcome.

Registration(kind, value) == [kind |-> kind, value |-> value, at |-> done + 1]
Register(n, kind, value) ==
  table' = [table EXCEPT ![n] = Append(@, Registration(kind, value))]

Exporting == phase = "export" /\ scan = << >> /\ at \in DOMAIN macros
Exported == at' = at + 1 /\ UNCHANGED <<phase, done, inherited>>

PassInherited ==
  /\ Exporting /\ macros[at].inherited
  /\ Exported
  /\ UNCHANGED pvars /\ UNCHANGED table

ExportFunctionLike ==
  /\ Exporting /\ ~macros[at].inherited
  /\ macros[at].param # ""
  /\ Register(macros[at].name, "function-like", << >>)
  /\ Exported
  /\ UNCHANGED pvars

\* expandObjectMacroBody: the body is hidden from its own macro.
ExpandBody ==
  /\ Exporting /\ ~macros[at].inherited
  /\ macros[at].param = ""
  /\ StartScan(Copied(macros[at], {}), "export")
  /\ UNCHANGED <<prog, macros, once, files, out, failed>>
  /\ UNCHANGED ivars

ExpandMore == phase = "export" /\ Expansion /\ UNCHANGED ivars

BodyScanned == phase = "export" /\ Scanned("export")
ScanEnds == scan' = << >> /\ UNCHANGED <<prog, macros, once, files, why, out, failed>>

ExportConstant ==
  /\ BodyScanned /\ IsConstant(Result)
  /\ Register(macros[at].name, "constant", Result)
  /\ Exported /\ ScanEnds

\* "#define X X" leaves the name to what C declares; a name for a function this
\* header declares becomes a declaration of that function.
IsSelf == Result = <<macros[at].name>>
IsAlias == Len(Result) = 1 /\ ~IsSelf /\ Result[1] \in Functions /\ Contains(out, Result[1])

ExportNothing ==
  /\ BodyScanned /\ ~IsConstant(Result)
  /\ IsSelf \/ IsAlias
  /\ UNCHANGED table
  /\ Exported /\ ScanEnds

ExportUnusable ==
  /\ BodyScanned /\ ~IsConstant(Result)
  /\ ~IsSelf /\ ~IsAlias
  /\ Register(macros[at].name, "not-constant", << >>)
  /\ Exported /\ ScanEnds

\* Mutation: what a header undefines is not registered.
CincludeDoneSilently ==
  /\ phase = "export" /\ scan = << >> /\ at > Len(macros)
  /\ done' = done + 1
  /\ phase' = "idle"
  /\ UNCHANGED pvars /\ UNCHANGED <<inherited, at, table>>

\* registerUndefinedMacros, for inherited names that are no macros any more.
CincludeDone ==
  /\ phase = "export" /\ scan = << >> /\ at > Len(macros)
  /\ table' = [n \in Names |-> IF n \in inherited \ MacroNames
                               THEN Append(table[n], Registration("undefined", << >>))
                               ELSE table[n]]
  /\ done' = done + 1
  /\ phase' = "idle"
  /\ UNCHANGED pvars /\ UNCHANGED <<inherited, at>>

Export == \/ PassInherited \/ ExportFunctionLike \/ ExpandBody \/ ExpandMore
          \/ ExportConstant \/ ExportNothing \/ ExportUnusable \/ CincludeDone

Ended == failed \/ (phase = "idle" /\ done = Len(prog.unit))
Finished == Ended /\ UNCHANGED vars

Next == Cinclude \/ Read \/ Preprocessed \/ Export \/ Finished

Spec == Init /\ [][Next]_vars /\ WF_vars(Next)

-----------------------------------------------------------------------------

\* findMacroAt and foldMacroConstants for a name that stands after k cincludes.
InEffect(n, k) == SelectSeq(table[n], LAMBDA r : r.at <= k)

Fold(n, k) ==
  LET rs == InEffect(n, k) IN
  IF rs = << >> \/ Last(rs).kind = "undefined" THEN [kind |-> "name", value |-> << >>]
  ELSE [kind |-> Last(rs).kind, value |-> Last(rs).value]
=============================================================================
