------------------------------ MODULE MCDecls ------------------------------
(***************************************************************************)
(* Programs of one to three modules, of up to four declarations each that  *)
(* name each other in every way their family allows; C structs to lay out; *)
(* functions of one name and calls of it; pointers; and globals.             *)
(***************************************************************************)
EXTENDS TopDecls, LayoutAsC, MCGlobals

CONSTANT Families

Use(how, x) == [how |-> how, type |-> x, size |-> ""]
Sized(how, x, n) == [how |-> how, type |-> x, size |-> n]
Decl(kind, x, uses) == [kind |-> kind, name |-> x, exported |-> FALSE, uses |-> uses]
Exported(d) == [d EXCEPT !.exported = TRUE]
Module(imports, decls) == [imports |-> imports, decls |-> decls, c |-> << >>, sigs |-> << >>]
Import(of, as, x) == [of |-> of, as |-> as, name |-> x]
Struct(x, uses) == Decl("struct", x, uses)

Ptr == <<"ptr">>
Emb == <<"embed">>
Own == << >>
Row == <<"row">>

Structs(x, hows, ts) == {Struct(x, <<Use(h, t)>>) : h \in hows, t \in ts}
Pairs(x, hows, ts) == {Struct(x, <<Use(h, t), Use(g, u)>>) : h, g \in hows, t, u \in ts}
Aliases(x, hows, ts) == {Decl("alias", x, <<Use(h, t)>>) : h \in hows, t \in ts}

\* One module: three declarations.
Some(x) == Structs(x, {Own, Ptr, Emb, <<"embed", "row", "embed">>}, {"A", "B", "C", "int32"})
           \cup Aliases(x, {Own, Ptr}, {"A", "B", "C", "int32"} \ {x})
One == {<<Module(<< >>, <<a, b, c>>)>> : a \in Some("A"), b \in Some("B"), c \in Some("C")}

\* Two modules that import each other; F is the other's name for E.
Two ==
  {<<Module(<<Import(2, "D", "D"), Import(2, "F", "E")>>, <<Exported(a), b>>),
     Module(<<Import(1, "A", "A")>>, <<Exported(d), Exported(e)>>)>> :
     a \in Structs("A", {Ptr, Emb}, {"B", "D", "F"}),
     b \in Structs("B", {Ptr, Emb}, {"A", "D"}) \cup Aliases("B", {Own}, {"F"}),
     d \in Structs("D", {Ptr, Emb, Own}, {"A", "E"}),
     e \in Structs("E", {Ptr, Emb, Row}, {"A", "D", "int8"}) \cup Aliases("E", {Ptr, Own}, {"A", "D"})}

\* Three: what the second imports reaches the first through it.
Chained(as, xs) ==
  {<<Module(<<Import(2, "X", "X"), Import(2, "Y", "Y")>>, <<a>>),
     Module(<<Import(3, as[1], "S"), Import(3, as[2], "T")>>, <<Exported(x), Exported(y)>>),
     Module(<<Import(2, "X", "X")>>, <<Exported(s), Exported(t), Struct("L", <<Use(Own, "int8")>>)>>)>> :
     a \in Structs("A", {Emb}, {"X", "Y"}), x \in xs, y \in Structs("Y", {Ptr}, {"X"}) \cup Structs("Y", {Emb}, {as[1]}),
     s \in Structs("S", {Ptr, Emb}, {"T", "X"}), t \in Structs("T", {Ptr, Emb}, {"L", "S"})}

\* Constants that name each other, an array's length, and its size.
ConstUse(x) == <<Use(Own, x)>>
Consts ==
  {<<[Module(<< >>, ds) EXCEPT !.sigs = <<"S">>]>> :
     ds \in {<<f[1], f[2], f[3], f[4]>> : f \in
       {g \in [1..4 -> {Struct("S", <<Sized(Row, "int32", "N")>>), Decl("enum", "E", ConstUse("M"))}
                        \cup {Decl("const", "N", ConstUse(v)) : v \in {"M", "v"}}
                        \cup {Decl("const", "M", u) : u \in {<< >>, ConstUse("v"), ConstUse("N")}}
                        \cup {Decl("var", "v", <<Sized(Row, "int32", n)>>) : n \in {"N", "M"}}] :
          {g[i].name : i \in 1..4} \in {{"S", "N", "M", "v"}, {"E", "N", "M", "v"}}}}}

\* C types, signatures, and names that are taken.
CType(x, uses) == [name |-> x, fields |-> uses]
Headers ==
  {<<[Module(<<Import(2, i, "D")>>, <<a>>) EXCEPT !.c = <<CType("C", f), CType("H", g)>>, !.sigs = <<"A">>],
     [Module(<< >>, <<Exported(d), b>>) EXCEPT !.sigs = <<"B", z>>]>> :
     i \in {"D", "V.D"}, a \in {Exported(x) : x \in Structs("A", {Ptr, Emb}, {"C", "H"})} \cup Structs("D", {Own}, {"int8", "V.D"}),
     f \in {<< >>, <<Use(Own, "int64")>>}, g \in {<<Use(Emb, "C")>>, <<Use(Ptr, "C"), Use(Own, "int8")>>},
     d \in Structs("D", {Own}, {"int32"}) \cup Structs("D", {Ptr}, {"B"}) \cup {Decl("enum", "D", << >>)},
     b \in Structs("B", {Own}, {"int8", "D"}) \cup {Exported(Struct("A", <<Use(Own, "int8")>>))}, z \in {"A", "D", "int8"}}

FamilyOf(f) ==
  CASE f = "one" -> One
    [] f = "two" -> Two
    [] f = "chain" -> Chained(<<"V.S", "V.T">>, Pairs("X", {Ptr, Emb}, {"V.S", "V.T"}))
    [] f = "consts" -> Consts
    [] f = "headers" -> Headers
    [] f = "none" -> {<< >>}
    [] f = "rows" -> {<<Module(<< >>, <<a, b>>)>> : a \in Structs("A", {Own, <<"row", "ptr">>}, {"B", "int8"}),
                                                     b \in Structs("B", {Own}, {"A", "int8"})}
    [] f = "brought" -> Chained(<<"S", "T">>, Pairs("X", {Ptr, Emb}, {"S", "T"}))

MCPrograms == [k \in DOMAIN Families |-> FamilyOf(Families[k])]

\* C structs and unions of up to three members.
Members == {Member(1, 1), Member(4, 4), Member(12, 4), Member(8, 8),
            [Member(8, 8) EXCEPT !.packed = TRUE], [Member(2, 2) EXCEPT !.aligned = 16],
            BitField(3, 4), BitField(30, 4), BitField(7, 1), BitField(0, 4),
            [BitField(30, 4) EXCEPT !.packed = TRUE]}
CStructs == [members : UNION {[1..n -> Members] : n \in 0..3}, union : BOOLEAN, packed : BOOLEAN, aligned : {1, 8}]
NoStruct == [members |-> << >>, union |-> FALSE, packed |-> FALSE, aligned |-> 1]

\* What is typed and called, and what runs.
VARIABLES types, held, call
typing == <<types, held, call>>
Typing == INSTANCE MCTyping

\* A program is resolved, a struct laid out, a call made, pointers lent, or globals used.
MCInit ==
  /\ Init
  /\ IF program = << >> THEN Typing!TypingInit ELSE Typing!IdleInit
  /\ GlobalsInit(IF program = << >> /\ Typing!Idle THEN Sources ELSE <<{NoSource}>>)
  /\ cstruct \in (IF program = << >> /\ Typing!Idle /\ NothingToRun THEN CStructs ELSE {NoStruct})
\* With an outcome, it is done.
MCNext ==
  \/ (Next \/ (outcome # "working" /\ UNCHANGED vars)) /\ UNCHANGED <<cstruct, typing, globalVars>>
  \/ Typing!TypingNext /\ UNCHANGED <<vars, cstruct, globalVars>>
  \/ RunStep /\ UNCHANGED <<vars, cstruct, typing>>
MCSpec == MCInit /\ [][MCNext]_<<vars, cstruct, typing, globalVars>> /\ Runs

OneMeaning == Typing!OneMeaning
SymbolsTellApart == Typing!SymbolsTellApart
ReadOnlyStays == Typing!ReadOnlyStays

Accepted == <<"none", "one", "two", "chain", "consts", "headers">>
RowsOnly == <<"rows">>
=============================================================================
