------------------------------ MODULE Globals -------------------------------
(***************************************************************************)
(* Global variables: which programs the semantic analyzer accepts          *)
(* (sa_global_decl, sa_global_permit, checkGlobalsReachedBeforeDecl,       *)
(* rejectImportedGlobals), and how an accepted program runs.               *)
(*                                                                         *)
(* source has the top-level statements in order, the items each function's *)
(* body has, the name each function is declared by, and whether the file   *)
(* is run or imported. An item calls a function, takes its address, or     *)
(* calls through an address; a statement that declares a global            *)
(* initializes it with its items; one that permits lists functions' names. *)
(***************************************************************************)
EXTENDS Integers, Sequences, FiniteSets

VARIABLES source, at, running, taken, set
globalVars == <<source, at, running, taken, set>>

Item(how, f) == [how |-> how, func |-> f]
CallOf(f) == Item("call", f)
AddressOf(f) == Item("take", f)
CallThrough == Item("through", "")
Stmt(items) == [items |-> items, global |-> "", permit |-> {}]
GlobalStmt(g, items) == [Stmt(items) EXCEPT !.global = g]
Permit(g, names) == [Stmt({}) EXCEPT !.global = g, !.permit = names]

Funcs(src) == DOMAIN src.bodies
Declarations(src) == {i \in DOMAIN src.stmts : src.stmts[i].global # "" /\ src.stmts[i].permit = {}}
Permits(src) == {i \in DOMAIN src.stmts : src.stmts[i].permit # {}}

\* A permission names a global declared before it, functions of the file, and none twice.
PermitOk(src, i) ==
  LET s == src.stmts[i]
  IN  /\ \E d \in Declarations(src) : d < i /\ src.stmts[d].global = s.global
      /\ s.permit \subseteq {src.names[f] : f \in Funcs(src)}
      /\ \A k \in Permits(src) : k < i /\ src.stmts[k].global = s.global => src.stmts[k].permit \cap s.permit = {}

\* The functions that see a global, with every overload of a name it permits.
SeenBy(src, g) == {f \in Funcs(src) : \E i \in Permits(src) : src.stmts[i].global = g /\ src.names[f] \in src.stmts[i].permit}

\* The functions that items call by name.
CalledIn(items) == {it.func : it \in {x \in items : x.how = "call"}}
\* The functions whose calls or addresses a statement or a body has.
CalleesIn(items) == {it.func : it \in {x \in items : x.how \in {"call", "take"}}}

\* The functions whose bodies take every function in them to functions in them.
Closed(src, fs) == \A f \in fs : CalleesIn(src.bodies[f]) \subseteq fs
\* What a function reaches through the bodies of others: the least closed set it is in.
Reaches(src, from) == {f \in Funcs(src) : \A fs \in SUBSET Funcs(src) : from \subseteq fs /\ Closed(src, fs) => f \in fs}

\* Nothing up to a declaration, its own initializer included, reaches a function that sees the global.
DeclaredInTime(src, d) ==
  Reaches(src, UNION {CalleesIn(src.stmts[i].items) : i \in 1..d}) \cap SeenBy(src, src.stmts[d].global) = {}

\* An imported file's statements do not run.
ImportOk(src) == src.imported => Permits(src) = {}

\* Every function called, or whose address is taken, is one of the file's.
NamesFound(src) ==
  /\ \A i \in DOMAIN src.stmts : CalleesIn(src.stmts[i].items) \subseteq Funcs(src)
  /\ \A f \in Funcs(src) : CalleesIn(src.bodies[f]) \subseteq Funcs(src)

Accepts(src) ==
  /\ NamesFound(src)
  /\ ImportOk(src)
  /\ \A i \in Permits(src) : PermitOk(src, i)
  /\ \A d \in Declarations(src) : DeclaredInTime(src, d)

-----------------------------------------------------------------------------
(***************************************************************************)
(* The run: running holds the functions being called, innermost last, and  *)
(* taken the functions whose addresses the program has come to hold.       *)
(***************************************************************************)
MaxDepth == 3

GlobalsInit(Sources) ==
  /\ \E k \in DOMAIN Sources : source \in {s \in Sources[k] : Accepts(s)}
  /\ at = 1 /\ running = << >> /\ taken = {} /\ set = {}

Started == source.stmts # << >> /\ ~source.imported
\* What runs now: an innermost function, or a statement; an importer may call any function.
Items == CASE running # << >> -> source.bodies[running[Len(running)]]
           [] running = << >> /\ Started /\ at <= Len(source.stmts) -> source.stmts[at].items
           [] OTHER -> IF source.imported THEN {CallOf(f) : f \in Funcs(source)} ELSE {}

Enter ==
  /\ Len(running) < MaxDepth
  /\ \E f \in CalledIn(Items) \cup (IF CallThrough \in Items THEN taken ELSE {}) : running' = Append(running, f)
  /\ UNCHANGED <<source, at, taken, set>>

TakeAddress ==
  /\ \E it \in Items : it.how = "take" /\ taken' = taken \cup {it.func}
  /\ UNCHANGED <<source, at, running, set>>

Return ==
  /\ running # << >>
  /\ running' = SubSeq(running, 1, Len(running) - 1)
  /\ UNCHANGED <<source, at, taken, set>>

\* The statement ends; one that declares a global has set it.
NextStmt ==
  /\ running = << >> /\ Started /\ at <= Len(source.stmts)
  /\ at' = at + 1
  /\ set' = set \cup (IF at \in Declarations(source) THEN {source.stmts[at].global} ELSE {})
  /\ UNCHANGED <<source, running, taken>>

RunStep == Enter \/ TakeAddress \/ Return \/ NextStmt

(***************************************************************************)
(* No function runs that sees a global whose declaration has not yet       *)
(* initialized it: by a call, through other functions, through an address  *)
(* taken earlier, from the global's own initializer, or from a file that   *)
(* imports this one.                                                       *)
(***************************************************************************)
SetWhenUsed ==
  \A i \in DOMAIN running, d \in Declarations(source) :
    running[i] \in SeenBy(source, source.stmts[d].global) => source.stmts[d].global \in set
=============================================================================
