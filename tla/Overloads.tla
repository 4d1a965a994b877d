----------------------------- MODULE Overloads ------------------------------
(***************************************************************************)
(* Functions that share a name: which may be declared together and which   *)
(* one a call means (registerPlnFunc, findCallees, selectCallee).          *)
(*                                                                         *)
(* A call is made where c, own, and imported are the functions of the name *)
(* in their scopes. An argument has a form: a value of its type, a literal *)
(* whose type is only its default, an aggregate literal, the name of       *)
(* functions (of refs), or a value chained into the call.                  *)
(***************************************************************************)
EXTENDS PlnTypes, SequencesExt

Func(module, name, params, rets) ==
  [module |-> module, name |-> name, params |-> params, rets |-> rets, c |-> FALSE, variadic |-> FALSE, syscall |-> FALSE]
CFunc(name, params, variadic) == [Func("c", name, params, <<PrimType("int32")>>) EXCEPT !.c = TRUE, !.variadic = variadic]

Value(t) == [form |-> "value", type |-> t, borrowed |-> FALSE, expiring |-> FALSE, refs |-> << >>]
Literal(n) == [Value(PrimType(n)) EXCEPT !.form = "literal"]
Aggregate == [Value(NoType) EXCEPT !.form = "aggregate"]
FuncName(fs) == [Value(NoType) EXCEPT !.form = "function", !.refs = fs]
\* What has no type of its own stays pending on the parameter when it is chained.
Chained(a) == IF a.form = "value" THEN [a EXCEPT !.form = "chained"] ELSE a

-----------------------------------------------------------------------------
(***************************************************************************)
(* Declarations.                                                           *)
(***************************************************************************)
\* What every [+]T brings with it.
VarrBuiltins(varr) ==
  LET self(perm) == PtrType(perm, varr)
      elem == varr.base
      value == CASE elem.kind = "struct" -> PtrType("own", elem)
                 [] IsArrLevel(elem) -> WithArrPermission(elem, "read")
                 [] OTHER -> elem
      i64 == PrimType("int64")
      defs == << <<"len", <<self("read")>>, <<i64>>>>,
                 <<"push", <<self("write"), value>>, << >>>>,
                 <<"resize", <<self("write"), i64>>, << >>>>,
                 <<"pop", <<self("write")>>, <<IF IsArrLevel(elem) THEN elem ELSE value>>>> >>
  IN  [i \in DOMAIN defs |-> Func("builtin", defs[i][1], defs[i][2], defs[i][3])]

DefinesBuiltin(f) ==
  /\ f.params # << >>
  /\ LET first == f.params[1]
     IN  \/ f.name = "len" /\ Len(f.params) = 1 /\ IsPntr(first) /\ first.len # None /\ first.perm # "own"
         \/ /\ IsVarrPntr(first)
            /\ \E i \in DOMAIN VarrBuiltins(first.base) :
                 LET b == VarrBuiltins(first.base)[i] IN b.name = f.name /\ b.params = f.params

\* An operator's function takes a struct, and none to write.
OperatorSigOk(f) ==
  f.name \in DOMAIN OperatorFuncNames =>
    /\ Len(f.params) = 2 \/ (f.name = "-" /\ Len(f.params) = 1)
    /\ \A i \in DOMAIN f.params : ~(IsPntr(f.params[i]) /\ f.params[i].perm = "write")
    /\ \E i \in DOMAIN f.params : IsStructPntr(f.params[i])

SameParamTypes(f, g) == f.params = g.params

\* The functions declared, each beside the earlier ones; or none, when one is refused.
Registered(fs) ==
  IF \E i \in DOMAIN fs : \/ DefinesBuiltin(fs[i])
                          \/ ~OperatorSigOk(fs[i])
                          \/ \E j \in 1..(i - 1) : fs[j].name = fs[i].name /\ SameParamTypes(fs[j], fs[i])
  THEN << >> ELSE fs

-----------------------------------------------------------------------------
(***************************************************************************)
(* What a call can mean, each once.                                        *)
(***************************************************************************)
CalleeKey(f) == IF f.c THEN <<"c", f.name>> ELSE <<f.module, f.name, f.params>>
Once(fs) == SelectSeq([i \in DOMAIN fs |-> <<i, fs[i]>>],
                      LAMBDA p : \A j \in 1..(p[1] - 1) : CalleeKey(fs[j]) # CalleeKey(p[2]))
FindCallees(call) ==
  LET builtins == FlattenSeq([i \in DOMAIN call.varrs |-> VarrBuiltins(call.varrs[i])])
      all == call.c \o Registered(call.own) \o call.imported \o builtins
      named == SelectSeq(all, LAMBDA f : f.name = call.name)
  IN  [i \in DOMAIN Once(named) |-> Once(named)[i][2]]

FirstParamMutable(f) == f.params # << >> /\ IsPntr(f.params[1]) /\ f.params[1].perm = "write"
UsableCallees(call) ==
  SelectSeq(FindCallees(call), LAMBDA f : /\ call.method => FirstParamMutable(f)
                                          /\ call.rets \in {0, Len(f.rets)})

-----------------------------------------------------------------------------
(***************************************************************************)
(* How an argument fits a parameter.                                       *)
(***************************************************************************)
TakesVarrData(t, p, isC) ==
  IsVarrPntr(t) /\ (isC \/ (/\ IsPntr(p) /\ p.perm = "own" /\ p.len = None
                            /\ ~IsStructStorage(p) /\ ~IsVarrPntr(p)))
VarrData(t) ==
  LET elem == t.base.base
      data == [PtrType("own", elem) EXCEPT !.embedded = t.base.embedded, !.stride = IF t.base.embedded THEN 8 ELSE None]
  IN  IF IsWritableThrough(t) THEN data ELSE [data EXCEPT !.perm = "read", !.base = WithArrPermission(elem, "read")]

NamesArrStorage(a) == IsArrLevel(a.type) /\ a.type.perm = "own" /\ ~a.expiring /\ a.type.len # None

\* An array is bound to a borrow of it by '@', or by a borrow's name.
ArrBorrowBindingOk(a, p) == (a.borrowed \/ IsArrBorrowVar(a.type)) /\ ArrShapeMatch(a.type, p, TRUE)

\* Contiguous elements are told from slots, and rows by their length.
EmbeddedOk(a, p) ==
  LET contiguous == a.type.embedded /\ a.type.stride # None
      row == a.type.base
  IN  IF IsArrLevel(p.base) THEN contiguous /\ IsArrLevel(row) /\ row.len # None /\ row.len = p.base.len
      ELSE contiguous

CallArgConvOk(t, p) ==
  LET from == FromJson(t)
      to == FromJson(p)
  IN  from = to \/ IF from.kind = "prim" /\ to.kind = "prim" THEN ArgConvOk(from, to)
                   ELSE TypeCompat(from, to) # "Incompatible"

\* Whether an analyzed argument may be passed (callArgMismatch finds nothing).
Passes(a, p, isC) ==
  IF ~isC /\ IsOwnedBlock(p) THEN CopySourceMatch(a.type, p)
  ELSE /\ CASE IsPntr(p) /\ p.len # None -> ArrBorrowBindingOk(a, p)
            [] IsPntr(p) /\ p.len = None /\ p.embedded -> IsPntr(a.type) /\ EmbeddedOk(a, p)
            [] OTHER -> TRUE
       /\ ElemShapeMatch(a.type, p)
       /\ CallArgConvOk(a.type, p)
       /\ ~(IsStructBorrow(p) /\ IsStructStorage(a.type))
       /\ ~(IsVarrPntr(p) /\ IsPtrBorrow(p) /\ IsVarrStorage(a.type))
       /\ ~(~isC /\ IsPtrBorrow(p) /\ NamesArrStorage(a))
       /\ (isC /\ IsStructStorage(p)) \/ PtrPermission(a.type, p) = "Ok"

NoFit == 0
Viable == 1
Narrowed == 2
Exact == 3

\* The pointers and [+]T's elements that two types go through.
RECURSIVE Permitted(_, _)
Permitted(t, p) ==
  IF p.kind \notin {"pntr", "varr"} THEN << >>
  ELSE <<<<IsWritableThrough(t), IsWritableThrough(p)>>>> \o Permitted(t.base, p.base)
TypeFit(t, p) ==
  LET ls == Permitted(t, p)
      differ == {i \in DOMAIN ls : ls[i][1] # ls[i][2]}
  IN  CASE FromJson(t) # FromJson(p) -> Viable
        [] FromJson(t) = FromJson(p) /\ differ = {} -> Exact
        [] OTHER -> IF differ = {1} /\ ls[1][1] THEN Narrowed ELSE Viable

ValueFit(a, p, isC) ==
  LET given == IF TakesVarrData(a.type, p, isC) THEN [a EXCEPT !.type = VarrData(@)] ELSE a
  IN  IF Passes(given, p, isC) THEN TypeFit(given.type, p) ELSE NoFit

\* The type a function is called through, unless it has none.
FuncSigTypeOk(t, isC) == \/ t.kind = "prim" /\ t # Void
                         \/ IsPntr(t) /\ t.perm # "own"
                         \/ IsOwnedBlock(t) /\ ~(isC /\ IsStructStorage(t))
FuncRefOk(f) == /\ ~f.syscall /\ ~f.variadic /\ Len(f.rets) <= 1
                /\ \A i \in DOMAIN f.params : FuncSigTypeOk(f.params[i], f.c)
                /\ \A i \in DOMAIN f.rets : FuncSigTypeOk(f.rets[i], FALSE)
FuncRefType(f) == PtrType("read", FuncType(f.params, IF f.rets = << >> THEN Void ELSE f.rets[1]))
RefsOf(fs, want) == SelectSeq(fs, LAMBDA f : FuncRefOk(f) /\ FromJson(FuncRefType(f)) = FromJson(want))

\* A chained value is borrowed for what only reads it, an array for no C function.
ChainBorrows(a, p, isC) ==
  /\ ~a.borrowed
  /\ IsPntr(p) /\ p.perm = "read"
  /\ \/ IsStructStorage(a.type) \/ IsVarrStorage(a.type) \/ a.type.kind = "prim"
     \/ IsArrLevel(a.type) /\ ~IsArrBorrowVar(a.type) /\ ~isC /\ IsArrBorrowVar(p)
BorrowedAs(t, p) ==
  CASE IsArrLevel(t) -> ArrShapeMatch(t, p, TRUE)
    [] IsStructStorage(t) -> p.base = t.base
    [] IsVarrStorage(t) -> p.base = t.base
    [] OTHER -> p.base = t

ArgFit(a, p, isC) ==
  CASE a.form = "value" -> ValueFit(a, p, isC)
    [] a.form = "aggregate" -> IF IsPntr(p) THEN Viable ELSE NoFit
    [] a.form = "function" -> IF RefsOf(a.refs, p) # << >> THEN Exact ELSE NoFit
    [] a.form = "literal" -> IF ~IsPrim(p) THEN NoFit ELSE IF a.type = p THEN Exact ELSE Viable
    [] a.form = "chained" -> IF ~ChainBorrows(a, p, isC) THEN ValueFit(a, p, isC)
                             ELSE IF BorrowedAs(a.type, p) THEN Exact ELSE NoFit

-----------------------------------------------------------------------------
(***************************************************************************)
(* The call.                                                               *)
(***************************************************************************)
CountOk(f, args) == IF f.variadic THEN Len(args) >= Len(f.params) ELSE Len(args) = Len(f.params)
Fits(f, args) == [i \in DOMAIN f.params |-> ArgFit(args[i], f.params[i], f.c)]
Takes(f, args) == CountOk(f, args) /\ \A i \in DOMAIN f.params : Fits(f, args)[i] # NoFit
\* How well a function takes all of them; further ones, which nothing names, only viably.
Worst(f, args) == Min(ToSet(Fits(f, args)) \cup {IF Len(args) = Len(f.params) THEN Exact ELSE Viable})

Chosen(f) == [outcome |-> "call", of |-> f]
Refused(why) == [outcome |-> why, of |-> << >>]
\* (as if the first of several good functions were called)
FirstOfBest(cands, args) ==
  LET viable == SelectSeq(cands, LAMBDA f : Takes(f, args))
      best(w) == SelectSeq(viable, LAMBDA f : Worst(f, args) >= w)
  IN  IF viable = << >> THEN Refused("no match")
      ELSE IF best(Narrowed) # << >> THEN Chosen(best(Narrowed)[1]) ELSE Chosen(viable[1])

Picked(viable, exact, narrowed) ==
  CASE viable = << >> -> Refused("no match")
    [] Len(viable) = 1 -> Chosen(viable[1])
    [] Len(viable) > 1 /\ Len(exact) = 1 -> Chosen(exact[1])
    [] Len(viable) > 1 /\ exact = << >> /\ Len(narrowed) = 1 -> Chosen(narrowed[1])
    [] OTHER -> Refused("ambiguous")
TakenAt(w, viable, args) == SelectSeq(viable, LAMBDA f : Worst(f, args) = w)
SelectViable(viable, args) == Picked(viable, TakenAt(Exact, viable, args), TakenAt(Narrowed, viable, args))
SelectCallee(cands, args) == SelectViable(SelectSeq(cands, LAMBDA f : Takes(f, args)), args)

\* A single candidate is bound as it is, and reports what does not pass.
MakeCallOf(cands, call) ==
  CASE cands = << >> -> Refused(IF FindCallees(call) = << >> THEN "undefined" ELSE "no match")
    [] Len(cands) = 1 -> IF Takes(cands[1], call.args) THEN Chosen(cands[1]) ELSE Refused("no match")
    [] OTHER -> SelectCallee(cands, call.args)
MakeCall(call) == MakeCallOf(UsableCallees(call), call)

\* A function named as a value of the type want.
FuncRef(cands, want) ==
  LET typed == RefsOf(cands, want)
  IN  CASE Len(cands) = 1 -> IF FuncRefOk(cands[1]) THEN Chosen(cands[1]) ELSE Refused("no value")
        [] Len(cands) > 1 /\ Len(typed) = 1 -> Chosen(typed[1])
        [] OTHER -> Refused("ambiguous")
-----------------------------------------------------------------------------
Turned(call) == [call EXCEPT !.c = Reverse(@), !.own = Reverse(@), !.imported = Reverse(@)]

\* Two functions, by how they fit the arguments.
SomewhereBetter(fits, others) ==
  \E k \in DOMAIN fits : fits[k] > (IF k \in DOMAIN others THEN others[k] ELSE Viable)
TakenBest(made, cands, args) ==
  made.outcome = "call" =>
    /\ Takes(made.of, args)
    /\ \A f \in ToSet(cands) \ {made.of} : Takes(f, args) => SomewhereBetter(Fits(made.of, args), Fits(f, args))
MeansOneOf(made, call) ==
  /\ MakeCall(Turned(call)) = made
  /\ TakenBest(made, UsableCallees(call), call.args)
(***************************************************************************)
(* A call means one function whatever the order of the declarations        *)
(* (selectCallee): a function that takes every argument, and takes some    *)
(* argument better than each other function that takes them all. Between   *)
(* two that take them alike, the call is refused. Likewise for a           *)
(* function's name used as a value.                                        *)
(***************************************************************************)
MeansOne(call) ==
  /\ MeansOneOf(MakeCall(call), call)
  /\ \A k \in DOMAIN call.args :
       LET fs == call.args[k].refs
       IN  \A i \in DOMAIN fs : FuncRef(fs, FuncRefType(fs[i])) = FuncRef(Reverse(fs), FuncRefType(fs[i]))

(***************************************************************************)
(* Functions that may be declared together have symbols of their own       *)
(* (funcSymbol, symbolType): the linker never takes one for the other.     *)
(***************************************************************************)
SymbolsApart(call) ==
  LET fs == Registered(call.own)
  IN  \A i, j \in DOMAIN fs : i # j => FuncSymbol(fs[i].name, fs[i].params) # FuncSymbol(fs[j].name, fs[j].params)

=============================================================================
