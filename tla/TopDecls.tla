------------------------------ MODULE TopDecls ------------------------------
(***************************************************************************)
(* How palan-sa resolves the types and consts declared at the top of the   *)
(* modules of a program.  A declaration is resolved when it is first       *)
(* needed, with all that it needs; a struct that is only pointed to is     *)
(* left until nothing is being resolved; a module takes over what it       *)
(* imports from the analyzer of the module that declares it.               *)
(*                                                                         *)
(* The calls of the analyzers are a stack of tasks, one step each.  A type *)
(* is the constructors around a name: "ptr" for @T, "row" for [n]T, "embed" *)
(* for $T.  Names are as written; one that an import brings in under an    *)
(* alias is a name of its own.                                             *)
(***************************************************************************)
EXTENDS StructLayout, FiniteSets

CONSTANT Programs    \* sequence of sets of programs: see MCDecls

\* A program is what indexTopDecls is given: every import names a declaration of
\* the module it is from.
InOrder(s) == s \in Seq(ToSet(s))
IsProgram(p) ==
  /\ InOrder(p)
  /\ \A m \in DOMAIN p :
       /\ InOrder(p[m].decls) /\ InOrder(p[m].imports) /\ InOrder(p[m].sigs) /\ InOrder(p[m].c)
       /\ \A d \in ToSet(p[m].decls) : InOrder(d.uses)
       /\ \A c \in ToSet(p[m].c) : InOrder(c.fields)
       /\ \A i \in ToSet(p[m].imports) :
            i.of \in DOMAIN p /\ \E d \in ToSet(p[i.of].decls) : d.kind # "var" /\ d.name = i.name
ASSUME ProgramsAreWhole == \A k \in DOMAIN Programs : \A p \in Programs[k] : IsProgram(p)

VARIABLES
  program,     \* the modules; the first is the one compiled
  an,          \* their analyzers: what each knows
  resolving,   \* declarations being resolved, outermost first
  settled,     \* tasks that wait until none is
  todo,        \* tasks to do, the next one first
  outcome      \* "working", "ok", the error reported, or "nothing" to do

vars == <<program, an, resolving, settled, todo, outcome>>

-----------------------------------------------------------------------------
\* The source.

Modules == DOMAIN program
Decls(m) == {d \in ToSet(program[m].decls) : d.kind # "var"}
Declares(m, x) == \E d \in Decls(m) : d.name = x
DeclOf(m, x) == CHOOSE d \in Decls(m) : d.name = x

\* An import makes names writable, each for a declaration of the module it names.
ImportsOf(m) == ToSet(program[m].imports)
Imports(m, x) == \E i \in ImportsOf(m) : i.as = x
ImportOf(m, x) == CHOOSE i \in ImportsOf(m) : i.as = x
Imported(m, x) == DeclOf(ImportOf(m, x).of, ImportOf(m, x).name)

Prims == {"int8", "int32", "int64"}
SizeOf(p) == CASE p = "int8" -> 1 [] p = "int32" -> 4 [] p = "int64" -> 8

\* A struct's or enum's name in the whole program: one not exported is its module's.
Wide(m, x) == [name |-> x, of |-> IF DeclOf(m, x).exported THEN 0 ELSE m]
Global(x) == [name |-> x, of |-> 0]
Type(by, leaf) == [by |-> by, leaf |-> leaf]

-----------------------------------------------------------------------------
\* Tasks.

Task(do, m, x) == [do |-> do, m |-> m, name |-> x, via |-> FALSE, sub |-> m, wide |-> Global(x)]
Ensure(m, x, via) == [Task("ensure", m, x) EXCEPT !.via = via]
AdoptOf(m, sub, wide, nameable) ==
  [Task("struct", m, wide.name) EXCEPT !.sub = sub, !.wide = wide, !.via = nameable]

\* ensureTypeRefs: a size is needed whatever the element is.
Refs(m, uses) ==
  FlattenSeq([i \in DOMAIN uses |->
    <<Ensure(m, uses[i].type, "ptr" \in ToSet(uses[i].how))>>
    \o IF uses[i].size = "" THEN << >> ELSE <<Ensure(m, uses[i].size, FALSE)>>])

Do(tasks) == todo' = tasks \o Tail(todo)
Now == Head(todo)
Doing(do) == outcome = "working" /\ todo # << >> /\ Now.do = do
Fail(why) == outcome' = why /\ UNCHANGED <<program, an, resolving, settled, todo>>

\* What is being resolved: a declaration or a variable's type, told apart by the
\* statement and compared by name.
Entry(m, x, var) == [of |-> m, name |-> x, var |-> var]
AtTop == Last(resolving).of = Now.m /\ Last(resolving).name = Now.name

\* whenSettled
WhenSettled(task) ==
  IF resolving = << >> THEN Do(<<task>>) /\ UNCHANGED settled
  ELSE Do(<< >>) /\ settled' = Append(settled, task)

-----------------------------------------------------------------------------
\* What an analyzer knows.

me == an[Now.m]

IsStruct(a, w) == w \in DOMAIN a.structs
Known(a, w) == IsStruct(a, w) \/ w \in {Global(p) : p \in Prims}

\* resolveWrittenType: the binding of the name inside the constructors; a name
\* not bound stands for itself.
Bound(a, use) ==
  IF use.type \in DOMAIN a.types
  THEN Type(use.how \o a.types[use.type].by, a.types[use.type].leaf)
  ELSE Type(use.how, Global(use.type))

\* requireWritableTypeName: what is only known as a part of another type.
Writable(a, x) == x \in DOMAIN a.types \/ Global(x) \notin DOMAIN a.origins

\* claimTypeName, where it is not refused.
Claims(a, w, origin) ==
  IF w \in DOMAIN a.origins THEN a.origins[w] = origin ELSE w \notin DOMAIN a.structs

With(f, x, v) == [y \in DOMAIN f \cup {x} |-> IF y = x THEN v ELSE f[y]]

-----------------------------------------------------------------------------
\* buildStructDef of fields in the types their names are bound to.

\* A field is a value laid out in the struct, alone or in an array, or a word
\* that owns its block or points to what it does not own.
InPlace(t) == t.by # << >> /\ t.by[1] = "embed"
Slots(t) == InPlace(t) /\ Len(t.by) > 1      \* $[n]T and what its slots are
Elem(t) == SubSeq(t.by, 3, Len(t.by))
ToPointer(t) == "ptr" \in ToSet(t.by)
IsPointer(t) == t.by # << >> /\ t.by[1] = "ptr"
EmbedsIt(t) == \/ t.by = <<"embed">>
               \/ Slots(t) /\ Elem(t) = <<"embed">>

\* What a field is refused for, "" if it is not.
FieldError(a, self, t) ==
  IF t.by = <<"embed", "ptr">> THEN "not a struct"
  ELSE IF ToPointer(t) THEN IF IsPointer(t) \/ Slots(t) \/ Known(a, t.leaf) THEN "" ELSE "unknown"
  ELSE IF InPlace(t) /\ t.leaf = self THEN "recursive"
  ELSE IF ~Known(a, t.leaf) THEN "unknown"
  ELSE IF ~IsStruct(a, t.leaf) THEN IF EmbedsIt(t) THEN "not a struct" ELSE ""
  ELSE IF ~a.structs[t.leaf].complete THEN "incomplete"
  ELSE IF EmbedsIt(t) /\ a.structs[t.leaf].owns THEN "owning" ELSE ""

\* Arrays have two elements.
MemberOf(a, t) ==
  LET value == IF IsStruct(a, t.leaf) THEN Member(a.structs[t.leaf].size, a.structs[t.leaf].align)
               ELSE Member(SizeOf(t.leaf.name), SizeOf(t.leaf.name))
      elem == IF EmbedsIt(t) \/ (Elem(t) = << >> /\ ~IsStruct(a, t.leaf)) THEN value ELSE Member(8, 8)
  IN  IF Slots(t) THEN Member(2 * elem.size, elem.align)
      ELSE IF EmbedsIt(t) \/ (t.by = << >> /\ ~IsStruct(a, t.leaf)) THEN value ELSE Member(8, 8)

Owns(a, t) ==
  \/ t.by = << >> /\ IsStruct(a, t.leaf)
  \/ t.by # << >> /\ t.by[1] = "row"
  \/ Slots(t) /\ (Elem(t) = <<"row">> \/ (Elem(t) = << >> /\ IsStruct(a, t.leaf)))

StructOf(a, ts) ==
  LET l == Layout([i \in DOMAIN ts |-> MemberOf(a, ts[i])], FALSE, FALSE, 1)
  IN  [size |-> l.size, align |-> l.align, complete |-> TRUE,
       owns |-> \E i \in DOMAIN ts : Owns(a, ts[i]), fields |-> ts]

\* registerCStruct: a C struct in the first complete definition of its tag; one
\* with a member that has no layout here stays incomplete.
Opaque == [size |-> 0, align |-> 1, complete |-> FALSE, owns |-> FALSE, fields |-> << >>]
RegisterC(a, c) ==
  LET w == Global(c.name)
      ts == [i \in DOMAIN c.fields |-> Type(c.fields[i].how, Global(c.fields[i].type))]
      supported == c.fields # << >> /\ \A i \in DOMAIN ts : FieldError(a, w, ts[i]) = ""
  IN  IF IsStruct(a, w) /\ a.structs[w].complete THEN a
      ELSE [a EXCEPT !.structs = With(@, w, IF supported THEN StructOf(a, ts) ELSE Opaque)]

-----------------------------------------------------------------------------
\* indexTopDecls: C types first, then every name that is declared; a struct
\* that is not exported is bound at once.
NoOne == [x \in {} |-> 0]
CTypes(m) ==
  LET after[k \in 0..Len(program[m].c)] ==
        IF k = 0 THEN [structs |-> NoOne] ELSE RegisterC(after[k - 1], program[m].c[k])
  IN  after[Len(program[m].c)].structs
Analyzer(m) ==
  [state |-> [x \in {d.name : d \in Decls(m)} |-> "pending"],
   types |-> [x \in {d.name : d \in {d \in Decls(m) : d.kind = "struct" /\ ~d.exported}} |->
                Type(<< >>, Wide(m, x))],
   structs |-> CTypes(m),
   origins |-> NoOne, adopted |-> {}, known |-> {}, deferred |-> {}, seen |-> {}, sized |-> {}]

\* (as if only the module's own)
OwnStructs(m) == {Wide(m, d.name) : d \in {d \in Decls(m) : d.kind = "struct"}}

\* Every struct a pointer may name before its layout is there.
DeclaredStructs(m) ==
  {Wide(m, d.name) : d \in {d \in Decls(m) : d.kind = "struct"}}
  \cup {Global(i.name) : i \in {i \in ImportsOf(m) : Imported(m, i.as).kind = "struct"}}

\* A declaration must not have the name of another, of an import or of a C type,
\* nor a constant that of a variable declared before it.
Clash(m) ==
  LET ds == program[m].decls
      alike(i, j) == ds[j].name = ds[i].name
  IN  \E i \in DOMAIN ds :
        /\ ds[i].kind # "var"
        /\ \/ \E j \in DOMAIN ds \ {i} : ds[j].kind # "var" /\ alike(i, j)
           \/ ds[i].kind = "const" /\ \E j \in 1..i - 1 : alike(i, j)
           \/ Imports(m, ds[i].name)
           \/ \E c \in ToSet(program[m].c) : c.name = ds[i].name

\* analysis: prescanTypes takes imports first, then the module's own declarations
\* in order; then the types of its functions' signatures, and of those imported.
Sig(sub, x) == <<Ensure(sub, x, FALSE), [Task("sig", 1, x) EXCEPT !.sub = sub]>>
Sigs(sub) == FlattenSeq([i \in DOMAIN program[sub].sigs |-> Sig(sub, program[sub].sigs[i])])
Analysis ==
  [i \in DOMAIN program[1].imports |-> Ensure(1, program[1].imports[i].as, FALSE)]
  \o LET ds == program[1].decls
     IN  FlattenSeq([i \in DOMAIN ds |-> IF ds[i].kind = "var" THEN << >> ELSE <<Ensure(1, ds[i].name, FALSE)>>])
  \o Sigs(1) \o FlattenSeq([i \in 1..Len(program) - 1 |-> Sigs(i + 1)])

Init ==
  /\ \E k \in DOMAIN Programs : program \in Programs[k]
  /\ an = [m \in Modules |-> Analyzer(m)]
  /\ resolving = << >> /\ settled = << >>
  /\ todo = IF program = << >> THEN << >> ELSE Analysis
  /\ outcome = IF program = << >> THEN "nothing" ELSE IF \E m \in Modules : Clash(m) THEN "duplicate" ELSE "working"

-----------------------------------------------------------------------------
\* ensureTypeName.

\* (as if a pointer needed what it points to at once)
EnsureAtOnce ==
  /\ Doing("ensure")
  /\ Declares(Now.m, Now.name)
  /\ Do(<<Task("resolve", Now.m, Now.name)>>)
  /\ UNCHANGED <<program, an, resolving, settled, outcome>>

EnsureHere ==
  /\ Doing("ensure")
  /\ Declares(Now.m, Now.name)
  /\ IF Now.via /\ DeclOf(Now.m, Now.name).kind = "struct"
     THEN WhenSettled([Now EXCEPT !.via = FALSE])
     ELSE Do(<<Task("resolve", Now.m, Now.name)>>) /\ UNCHANGED settled
  /\ UNCHANGED <<program, an, resolving, outcome>>

\* The name of an import; a pointer's struct is bound by its name at once, where
\* it is written under an alias.
EnsureImport ==
  /\ Doing("ensure")
  /\ ~Declares(Now.m, Now.name) /\ Imports(Now.m, Now.name) /\ Now.name \notin me.adopted
  /\ LET i == ImportOf(Now.m, Now.name)
         later == Now.via /\ Imported(Now.m, Now.name).kind = "struct"
         adopt == Task("adopt", Now.m, Now.name)
     IN  IF later
         THEN /\ WhenSettled(adopt)
              /\ an' = IF i.as = i.name THEN an
                       ELSE [an EXCEPT ![Now.m].types = With(@, i.as, Type(<< >>, Global(i.name)))]
         ELSE Do(<<adopt>>) /\ UNCHANGED <<an, settled>>
  /\ UNCHANGED <<program, resolving, outcome>>

\* Anything else is no declaration, or was taken over before.
EnsureOther ==
  /\ Doing("ensure")
  /\ ~Declares(Now.m, Now.name)
  /\ Imports(Now.m, Now.name) => Now.name \in me.adopted
  /\ Do(<< >>)
  /\ UNCHANGED <<program, an, resolving, settled, outcome>>

\* ensureStructDef: by the name a struct has in the whole program.
EnsureStruct ==
  /\ Doing("ensure struct")
  /\ LET m == Now.m
         own == {d.name : d \in {d \in Decls(m) : d.kind = "struct" /\ Wide(m, d.name) = Now.wide}}
         came == {i \in ImportsOf(m) : Global(i.name) = Now.wide}
     IN  IF own # {} THEN \E x \in own : Do(<<Ensure(m, x, FALSE)>>)
         ELSE IF came # {} THEN \E i \in came : Do(<<Ensure(m, i.as, FALSE)>>)
         ELSE Do(<< >>)
  /\ UNCHANGED <<program, an, resolving, settled, outcome>>

-----------------------------------------------------------------------------
\* resolveTopDecl.

\* (as if a declaration could be reached again unnoticed)
Unmarked ==
  /\ Doing("resolve")
  /\ me.state[Now.name] = "pending"
  /\ resolving' = Append(resolving, Entry(Now.m, Now.name, FALSE))
  /\ Do(Refs(Now.m, DeclOf(Now.m, Now.name).uses) \o <<Task("define", Now.m, Now.name)>>)
  /\ UNCHANGED <<program, an, settled, outcome>>

Begin ==
  /\ Doing("resolve")
  /\ me.state[Now.name] = "pending"
  /\ an' = [an EXCEPT ![Now.m].state[Now.name] = "resolving"]
  /\ resolving' = Append(resolving, Entry(Now.m, Now.name, FALSE))
  /\ Do(Refs(Now.m, DeclOf(Now.m, Now.name).uses) \o <<Task("define", Now.m, Now.name)>>)
  /\ UNCHANGED <<program, settled, outcome>>

\* A struct that embeds itself is left to its own definition.
Again ==
  /\ Doing("resolve")
  /\ me.state[Now.name] = "done" \/ (me.state[Now.name] = "resolving" /\ AtTop)
  /\ Do(<< >>)
  /\ UNCHANGED <<program, an, resolving, settled, outcome>>

Circular ==
  /\ Doing("resolve")
  /\ me.state[Now.name] = "resolving" /\ ~AtTop
  /\ Fail("circular")

\* Every way to finish a declaration; then what waits for that is done.
Finish(a) ==
  /\ an' = [an EXCEPT ![Now.m] = [a EXCEPT !.state[Now.name] = "done"]]
  /\ resolving' = Front(resolving)
  /\ Do(<<Task("settle", Now.m, Now.name)>>)
  /\ UNCHANGED <<program, settled, outcome>>

Defining(kind) == Doing("define") /\ DeclOf(Now.m, Now.name).kind = kind
Uses == DeclOf(Now.m, Now.name).uses
Sizes == {u.size : u \in ToSet(Uses)} \ {""}

\* declareTypeName: a declaration claims its name exactly once.
Self == Wide(Now.m, Now.name)
CanDeclare == Self \notin DOMAIN me.origins /\ Claims(me, Self, Now.m)
Declared(t) == [me EXCEPT !.origins = With(@, Self, Now.m), !.types = With(@, Now.name, t)]

\* sa_struct_def: a pointer may name a struct whose layout is not there yet.
RefusalOf(u) ==
  LET t == Bound(me, u)
  IN  IF ~Writable(me, u.type) \/ (ToPointer(t) /\ t.leaf \notin DeclaredStructs(Now.m) /\ ~Known(me, t.leaf))
      THEN "unknown" ELSE FieldError(me, Self, t)
WrongUses == {i \in DOMAIN Uses : RefusalOf(Uses[i]) # ""}
StructError ==
  IF Sizes \ me.known # {} THEN "const"
  ELSE IF ~CanDeclare THEN "duplicate"
  ELSE IF WrongUses = {} THEN "" ELSE RefusalOf(Uses[Min(WrongUses)])

DefineStruct ==
  /\ Defining("struct")
  /\ StructError = ""
  /\ Finish([Declared(Type(<< >>, Self)) EXCEPT !.structs =
                With(@, Self, StructOf(me, [i \in DOMAIN Uses |-> Bound(me, Uses[i])]))])

\* sa_enum_def: its values are constants; it is an integer type where it is used.
EnumError ==
  IF {u.type : u \in ToSet(Uses)} \ me.known # {} THEN "const"
  ELSE IF ~CanDeclare THEN "duplicate" ELSE ""

DefineEnum ==
  /\ Defining("enum")
  /\ EnumError = ""
  /\ Finish(Declared(Type(<< >>, Global("int32"))))

\* sa_type_alias: bound to what its type is bound to here.
DefineAlias ==
  /\ Defining("alias")
  /\ Writable(me, Uses[1].type)
  /\ Finish([me EXCEPT !.types = With(@, Now.name, Bound(me, Uses[1]))])

DefineFails ==
  LET why == CASE Defining("struct") -> StructError
               [] Defining("enum") -> EnumError
               [] Defining("alias") -> IF Writable(me, Uses[1].type) THEN "" ELSE "unknown"
               [] OTHER -> ""
  IN  why # "" /\ Fail(why)

-----------------------------------------------------------------------------
\* resolveTopConst and topVarType: a constant may use the length of an array
\* variable that is declared before it; another is left to its statement.

VarPos(m, x) == {i \in DOMAIN program[m].decls : program[m].decls[i].kind = "var" /\ program[m].decls[i].name = x}
VarType(m, x) == program[m].decls[Min(VarPos(m, x))].uses
PosOf(m, x) == CHOOSE i \in DOMAIN program[m].decls :
                 program[m].decls[i].kind # "var" /\ program[m].decls[i].name = x

\* The names in its value that are no constants yet, and the first of them.
NotConst == {i \in DOMAIN Uses : Uses[i].type \notin me.known \cup me.sized}
Waited == Uses[Min(NotConst)].type
Looked == /\ VarPos(Now.m, Waited) # {} /\ Min(VarPos(Now.m, Waited)) < PosOf(Now.m, Now.name)
          /\ Waited \notin me.seen

DefineConst ==
  /\ Defining("const")
  /\ NotConst = {}
  /\ Finish([me EXCEPT !.known = @ \cup {Now.name}])

LookAtVar ==
  /\ Defining("const")
  /\ NotConst # {} /\ Looked
  /\ resolving' = Append(resolving, Entry(Now.m, Waited, TRUE))
  /\ todo' = Refs(Now.m, VarType(Now.m, Waited)) \o <<Task("var", Now.m, Waited)>> \o todo
  /\ UNCHANGED <<program, an, settled, outcome>>

TopVarType ==
  /\ Doing("var")
  /\ LET sizes == {u.size : u \in ToSet(VarType(Now.m, Now.name))}
     IN  an' = [an EXCEPT ![Now.m].seen = @ \cup {Now.name},
                          ![Now.m].sized = IF sizes \subseteq me.known THEN @ \cup {Now.name} ELSE @]
  /\ resolving' = Front(resolving)
  /\ Do(<< >>)
  /\ UNCHANGED <<program, settled, outcome>>

DeferConst ==
  /\ Defining("const")
  /\ NotConst # {} /\ ~Looked
  /\ Finish([me EXCEPT !.deferred = @ \cup {Now.name}])

-----------------------------------------------------------------------------
\* What waited until nothing is being resolved, in the order it came.

\* (as if it were not taken off the queue)
SettleAgain ==
  /\ Doing("settle")
  /\ Do(IF resolving = << >> /\ settled # << >> THEN <<Head(settled), Now>> ELSE << >>)
  /\ UNCHANGED <<program, an, resolving, settled, outcome>>

Settle ==
  /\ Doing("settle")
  /\ IF resolving = << >> /\ settled # << >>
     THEN todo' = <<Head(settled)>> \o todo /\ settled' = Tail(settled)
     ELSE Do(<< >>) /\ UNCHANGED settled
  /\ UNCHANGED <<program, an, resolving, outcome>>

-----------------------------------------------------------------------------
\* Taking over an imported type, from the analyzer of the module that exports it.

\* (as if the exporting module had resolved it before)
AdoptAsIs ==
  /\ Doing("adopt")
  /\ Do(IF Now.name \in me.adopted THEN << >> ELSE <<Task("copy", Now.m, Now.name)>>)
  /\ UNCHANGED <<program, an, resolving, settled, outcome>>

\* adoptImportedType: resolved there, then copied, then it is writable here.
Adopt ==
  /\ Doing("adopt")
  /\ LET i == ImportOf(Now.m, Now.name)
     IN  Do(IF Now.name \in me.adopted THEN << >>
            ELSE <<Ensure(i.of, i.name, FALSE), Task("copy", Now.m, Now.name)>>)
  /\ UNCHANGED <<program, an, resolving, settled, outcome>>

\* adoptTypeDeps
Deps(m, sub, t) ==
  IF IsStruct(an[sub], t.leaf) THEN <<AdoptOf(m, sub, t.leaf, FALSE)>> ELSE << >>

CopyOf(i) == LET d == DeclOf(i.of, i.name)
             IN  IF d.kind = "struct" THEN <<AdoptOf(Now.m, i.of, Wide(i.of, i.name), i.as = i.name)>>
                 ELSE Deps(Now.m, i.of, an[i.of].types[i.name])

Copy ==
  /\ Doing("copy")
  /\ LET i == ImportOf(Now.m, Now.name)
     IN  /\ i.name \in DOMAIN an[i.of].types
         /\ Do(CopyOf(i) \o <<Task("bind", Now.m, Now.name)>>)
  /\ UNCHANGED <<program, an, resolving, settled, outcome>>

\* An enum's name is claimed as a struct's is.
Bind ==
  /\ Doing("bind")
  /\ LET i == ImportOf(Now.m, Now.name)
         w == Wide(i.of, i.name)
         t == an[i.of].types[i.name]
         enum == DeclOf(i.of, i.name).kind = "enum"
     IN  IF (Now.name \in DOMAIN me.types /\ me.types[Now.name] # t) \/ (enum /\ ~Claims(me, w, i.of))
         THEN Fail("duplicate")
         ELSE /\ an' = [an EXCEPT ![Now.m].types = With(@, Now.name, t),
                                  ![Now.m].origins = IF enum THEN With(@, w, i.of) ELSE @,
                                  ![Now.m].adopted = @ \cup {Now.name}]
              /\ Do(<< >>)
              /\ UNCHANGED <<program, resolving, settled, outcome>>

\* adoptStruct: it comes with every struct its fields use, which need not be
\* writable; a pointee the exporting module has yet to resolve comes later.
AdoptStruct ==
  /\ Doing("struct")
  /\ LET w == Now.wide
         sub == an[Now.sub]
         own == w \in DOMAIN sub.origins /\ sub.origins[w] = Now.m
         c == w \notin DOMAIN sub.origins
         new == IF c THEN w \notin DOMAIN me.structs \/ (~me.structs[w].complete /\ sub.structs[w].complete)
                ELSE w \notin DOMAIN me.origins
     IN  IF own THEN Do(<< >>) /\ UNCHANGED <<program, an, resolving, settled, outcome>>
         ELSE /\ w \in DOMAIN sub.structs
              /\ IF ~c /\ ~Claims(me, w, sub.origins[w]) THEN Fail("duplicate")
                 ELSE /\ an' = [an EXCEPT
                           ![Now.m].structs = IF new THEN With(@, w, sub.structs[w]) ELSE @,
                           ![Now.m].origins = IF c THEN @ ELSE With(@, w, sub.origins[w]),
                           ![Now.m].types = IF Now.via /\ ~c THEN With(@, w.name, Type(<< >>, w)) ELSE @]
                      /\ Do(IF new THEN [i \in DOMAIN sub.structs[w].fields |->
                              [Task("field", Now.m, w.name) EXCEPT !.sub = Now.sub,
                                 !.wide = sub.structs[w].fields[i].leaf,
                                 !.via = IsPointer(sub.structs[w].fields[i])]]
                            ELSE << >>)
                      /\ UNCHANGED <<program, resolving, settled, outcome>>

\* (as if a pointee that is not resolved yet were left out)
AdoptWhatIsThere ==
  /\ Doing("field")
  /\ Do(IF IsStruct(an[Now.sub], Now.wide) THEN <<AdoptOf(Now.m, Now.sub, Now.wide, FALSE)>> ELSE << >>)
  /\ UNCHANGED <<program, an, resolving, settled, outcome>>

AdoptField ==
  /\ Doing("field")
  /\ LET sub == an[Now.sub]
         later == [Task("pointee", Now.m, Now.name) EXCEPT !.sub = Now.sub, !.wide = Now.wide]
     IN  IF IsStruct(sub, Now.wide) THEN Do(<<AdoptOf(Now.m, Now.sub, Now.wide, FALSE)>>) /\ UNCHANGED settled
         ELSE IF Now.via /\ Now.wide \in DeclaredStructs(Now.sub) THEN WhenSettled(later)
         ELSE Do(<< >>) /\ UNCHANGED settled
  /\ UNCHANGED <<program, an, resolving, outcome>>

AdoptPointee ==
  /\ Doing("pointee")
  /\ Do(<<[Task("ensure struct", Now.sub, Now.name) EXCEPT !.wide = Now.wide],
          AdoptOf(Now.m, Now.sub, Now.wide, FALSE)>>)
  /\ UNCHANGED <<program, an, resolving, settled, outcome>>

\* resolveSigTypes and adoptTypeDeps: a function's types, known where it is
\* declared and brought along to where it is imported.
Signature ==
  /\ Doing("sig")
  /\ LET sub == an[Now.sub]
         t == Bound(sub, [how |-> << >>, type |-> Now.name, size |-> ""])
     IN  IF ~Writable(sub, Now.name) \/ ~Known(sub, t.leaf) THEN Fail("unknown")
         ELSE /\ Do(IF Now.sub = 1 THEN << >> ELSE Deps(1, Now.sub, t))
              /\ UNCHANGED <<program, an, resolving, settled, outcome>>

Accept ==
  /\ outcome = "working" /\ todo = << >>
  /\ outcome' = "ok"
  /\ UNCHANGED <<program, an, resolving, settled, todo>>

Next ==
  \/ EnsureHere \/ EnsureImport \/ EnsureOther \/ EnsureStruct
  \/ Begin \/ Again \/ Circular \/ DefineStruct \/ DefineEnum \/ DefineAlias \/ DefineFails
  \/ DefineConst \/ LookAtVar \/ TopVarType \/ DeferConst \/ Settle
  \/ Adopt \/ Copy \/ Bind \/ AdoptStruct \/ AdoptField \/ AdoptPointee \/ Signature \/ Accept

\* The analyzer runs until there is an outcome: WF_vars(Next), since a step is
\* enabled while it is working (no run has a deadlock).
Runs == []<>(outcome # "working") \/ []<><<Next>>_vars
Spec == Init /\ [][Next]_vars /\ Runs

-----------------------------------------------------------------------------
\* What the source says, without an order.

Everything == UNION {{<<m, d.name>> : d \in Decls(m)} : m \in Modules}
Target(m, x) ==
  IF Declares(m, x) THEN {<<m, x>>}
  ELSE IF Imports(m, x) THEN {<<ImportOf(m, x).of, ImportOf(m, x).name>>} ELSE {}
KindOf(n) == DeclOf(n[1], n[2]).kind
UsesOf(n) == ToSet(DeclOf(n[1], n[2]).uses)
SizeTarget(m, u) == IF u.size = "" THEN {} ELSE Target(m, u.size)
Targets(n, u) == Target(n[1], u.type) \cup SizeTarget(n[1], u)
Mentions(n) == UNION {Targets(n, u) : u \in UsesOf(n)}

\* A constant that names a variable uses what the variable's type does.
Through(n) ==
  UsesOf(n) \cup UNION {ToSet(program[n[1]].decls[i].uses) :
                          i \in UNION {VarPos(n[1], u.type) : u \in UsesOf(n)}}

\* What a type contains or, an alias, stands for: not a struct it points to.
Needs(n) ==
  UNION {{t \in Target(n[1], u.type) : ~("ptr" \in ToSet(u.how) /\ KindOf(t) = "struct")}
         \cup SizeTarget(n[1], u) : u \in Through(n)}

\* The nodes that some lead to, themselves included.
Leads(step, from) ==
  LET more[k \in 0..Cardinality(Everything)] ==
        IF k = 0 THEN from ELSE more[k - 1] \cup UNION {step[n] : n \in more[k - 1]}
  IN  more[Cardinality(Everything)]
OnCycle(n) == n \in Leads([t \in Everything |-> Needs(t)], Needs(n))

\* What is declared or imported in the module compiled or used by a function, and
\* what that mentions.
Roots == {<<1, d.name>> : d \in Decls(1)} \cup (UNION {Target(1, i.as) : i \in ImportsOf(1)})
         \cup UNION {UNION {Target(m, x) : x \in ToSet(program[m].sigs)} : m \in Modules}
Reached == Leads([n \in Everything |-> Mentions(n)], Roots)

-----------------------------------------------------------------------------
Errors == {"circular", "unknown", "recursive", "not a struct", "incomplete", "owning", "duplicate", "const"}

TypeOK ==
  /\ outcome \in {"working", "ok", "nothing"} \cup Errors
  /\ \A m \in Modules :
       /\ an[m].state \in [{d.name : d \in Decls(m)} -> {"pending", "resolving", "done"}]
       /\ DOMAIN an[m].origins \subseteq DOMAIN an[m].structs \cup {Wide(n[1], n[2]) : n \in Everything}
  /\ \A n \in Everything :
       an[n[1]].state[n[2]] = "resolving"
         <=> Cardinality({i \in DOMAIN resolving : resolving[i] = Entry(n[1], n[2], FALSE)}) = 1

\* Nothing is taken over before its own module has it.
TakesWhatIsThere ==
  outcome = "working" /\ todo # << >> =>
    /\ Now.do \in {"copy", "bind"} => LET i == ImportOf(Now.m, Now.name) IN i.name \in DOMAIN an[i.of].types
    /\ Now.do = "struct" => \/ Now.wide \in DOMAIN an[Now.sub].structs
                            \/ Now.wide \in DOMAIN an[Now.sub].origins /\ an[Now.sub].origins[Now.wide] = Now.m

\* A program is refused as circular just when a type contains itself.
CyclesAreCircular ==
  /\ outcome = "circular" => \E n \in Reached : OnCycle(n)
  /\ outcome = "ok" => ~\E n \in Reached : OnCycle(n)

\* A program none of whose types contains itself is never refused as circular.
CircularHasCause == outcome = "circular" => \E n \in Everything : OnCycle(n)

\* Every written name has its declaration, wherever that is, and every name is
\* refused only if it has none.
Undeclared(n) == \E u \in UsesOf(n) : Target(n[1], u.type) = {} /\ u.type \notin Prims
                                      /\ ~\E c \in ToSet(program[n[1]].c) : c.name = u.type
OrderFree ==
  outcome = "unknown" => \/ \E n \in Reached : Undeclared(n) \/ OnCycle(n)
                         \/ \E m \in Modules : \E x \in ToSet(program[m].sigs) : Target(m, x) = {} /\ x \notin Prims

\* In the end nothing waits and no declaration is left half resolved or out: every
\* one the module compiled comes by is resolved.
Whole == outcome = "ok" =>
  /\ settled = << >> /\ resolving = << >>
  /\ \A n \in Reached : an[n[1]].state[n[2]] = "done"

\* The module compiled has the layout of every struct that its types use, and every
\* module has a struct as the declaring module does.
Alike == outcome = "ok" =>
  /\ \A m \in Modules : \A w \in DOMAIN an[m].structs \cap DOMAIN an[m].origins :
       an[m].structs[w] = an[an[m].origins[w]].structs[w]
  /\ \A w \in DOMAIN an[1].structs : \A f \in ToSet(an[1].structs[w].fields) :
       Known(an[1], f.leaf)

\* Both.
WholeAndAlike == Whole /\ Alike

\* Resolution ends.
ResolutionEnds == <>(outcome # "working")
=============================================================================
