------------------------------ MODULE Borrows -------------------------------
(***************************************************************************)
(* A program of pointer variables, run under the bindings the semantic     *)
(* analyzer accepts: assignments, stores through pointers, and calls       *)
(* through function pointers.                                              *)
(*                                                                         *)
(* Two ints exist: "rw", a variable, and "ro", of which the program was    *)
(* only given a read-only borrow. types gives each variable's type; a      *)
(* variable holds what it points to: an int, a variable, an array (named   *)
(* by its first slot, a variable itself), or a function (named by its      *)
(* parameter, likewise).                                                   *)
(***************************************************************************)
EXTENDS Overloads

VARIABLES types, held
borrowVars == <<types, held>>

i32 == PrimType("int32")
Vars == DOMAIN types
Null == "null"

\* An array's slots and a function's parameter are variables the arrays and functions name.
Arrays == {a \in Vars : IsArrLevel(types[a]) /\ types[a].perm = "own"}
Params == {f \in Vars : types[f].kind = "func"}

\* An expression: its type, its value, and whether it is written as a borrow.
Expr(t, v, borrowed) == [arg |-> [Value(t) EXCEPT !.borrowed = borrowed], value |-> v]

Names == {Expr(types[v], held[v], FALSE) : v \in {u \in Vars : held[u] # Null /\ types[u].kind # "func"}}

\* '@' takes an int's address, a pointer to an int's slot, or an array as it is.
Addresses ==
  {Expr(PtrType(p, i32), "rw", TRUE) : p \in {"read", "write"}}
  \cup {Expr(PtrType(p, types[v]), v, TRUE) : p \in {"read", "write"}, v \in {u \in Vars : types[u].kind = "pntr" /\ types[u].base.kind = "prim"}}
  \cup {Expr(WithArrPermission(types[a], p), held[a], TRUE) : p \in {"read", "write"}, a \in Arrays}

\* What 'p[0]' reads, and what it may write.
Pointers == {v \in Vars : IsPntr(types[v]) /\ IsPntr(types[v].base) /\ held[v] # Null}
Reads == {Expr(types[p].base, held[held[p]], FALSE) : p \in {q \in Pointers : held[held[q]] # Null}}
Written == {p \in Pointers : IsWritableThrough(types[p])}

\* A function named as a value.
FuncNames == {Expr(PtrType("read", types[f]), f, FALSE) : f \in Params}
Exprs == Names \cup Addresses \cup Reads \cup FuncNames

\* What a binding to a type checks (sa_var_decl, sa_assign_stmt, sa_arr_assign_stmt).
Binds(e, t) ==
  /\ t.len # None => ArrBorrowBindingOk(e.arg, t)
  /\ e.arg.type = t \/ TypeCompat(FromJson(e.arg.type), FromJson(t)) \in {"Identical", "ImplicitWiden"}
  /\ ~(IsPtrBorrow(t) /\ NamesArrStorage(e.arg))
  /\ PtrPermission(e.arg.type, t) = "Ok"

BorrowInit(scenarios) ==
  /\ \E k \in DOMAIN scenarios : types \in scenarios[k]
  /\ held = [v \in Vars |-> CASE v = "given" -> "ro"
                              [] v \in Arrays -> v \o "[0]"
                              [] OTHER -> Null]

\* 'e -> v'
Assign(v, e) ==
  /\ v \notin Arrays /\ types[v].kind = "pntr" /\ Binds(e, types[v])
  /\ held' = [held EXCEPT ![v] = e.value]

\* 'e -> p[0]'
Store(p, e) ==
  /\ p \in Written /\ Binds(e, types[p].base) /\ ElemShapeMatch(e.arg.type, types[p].base)
  /\ held' = [held EXCEPT ![held[p]] = e.value]

\* 'g(e)' where g is a function pointer: the parameter of what it holds is bound.
Call(g, e) ==
  /\ IsFuncPtr(types[g]) /\ held[g] # Null
  /\ Passes(e.arg, types[g].base.params[1], FALSE)
  /\ held' = [held EXCEPT ![held[g] \o "'"] = e.value]

BorrowStep ==
  \E e \in Exprs, v \in Vars :
    /\ Assign(v, e) \/ Store(v, e) \/ Call(v, e)
    /\ UNCHANGED types

(***************************************************************************)
(* What was lent read-only never becomes writable: no sequence of accepted *)
(* bindings and stores puts the read-only int where a '@!int32' is         *)
(* expected (ptrPermission, funcSigPermissionOk, arrShapeMatch), and what  *)
(* a pointer points to is of its type.                                     *)
(***************************************************************************)
ReadOnlyStays ==
  \A v \in Vars : held[v] # Null /\ types[v].kind = "pntr" =>
    CASE types[v].base = i32 -> held[v] = "ro" => types[v].perm = "read"
      [] types[v].base.kind = "pntr" -> held[v] \in Vars /\ FromJson(types[held[v]]) = FromJson(types[v].base)
      [] types[v].base.kind = "func" -> held[v] \in Params
=============================================================================
