----------------------------- MODULE MCGlobals ------------------------------
(***************************************************************************)
(* Programs of globals, run.                                               *)
(***************************************************************************)
EXTENDS Globals

\* Three functions, two of one name: a statement, a global of one of them, and its permission.
Names == [f |-> "f", overload |-> "f", h |-> "h", k |-> "k"]
AnyItems == {CallOf(f) : f \in DOMAIN Names} \cup {AddressOf(f) : f \in DOMAIN Names} \cup {CallThrough}
UpToOne == {{}} \cup {{it} : it \in AnyItems}
Program(stmts, h, k, imported) ==
  [stmts |-> stmts, bodies |-> [f |-> {}, overload |-> {}, h |-> h, k |-> k], names |-> Names, imported |-> imported]
GlobalSources ==
  {Program(<<Stmt(a), GlobalStmt("g", init), Permit("g", {p}), Stmt({CallOf("f"), CallOf("h")})>>, h, k, FALSE) :
     a \in UpToOne \cup {{AddressOf(f), CallThrough} : f \in DOMAIN Names}, init \in UpToOne, p \in {"f", "h"}, h \in UpToOne, k \in UpToOne}
OtherSources ==
  {Program(<<x, y>>, {CallOf("f")}, {}, imp) :
     x, y \in {GlobalStmt("g", {}), Permit("g", {"f"}), Permit("g", {"f", "h"}), Stmt({CallOf("f")}), Stmt({})}, imp \in BOOLEAN}
NoSource == Program(<< >>, {}, {}, FALSE)
Sources == <<{NoSource}, GlobalSources, OtherSources>>
NothingToRun == source = NoSource
=============================================================================
