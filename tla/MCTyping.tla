------------------------------ MODULE MCTyping ------------------------------
(***************************************************************************)
(* Functions of one name with calls of them, and programs of pointers.     *)
(***************************************************************************)
EXTENDS Borrows

VARIABLE call

\* Parameter types, and what is given for them.
Prim(n) == PrimType(n)
P == StructType("P")
At(t) == PtrType("read", t)
AtW(t) == PtrType("write", t)
Arr(n, t) == [PtrType("own", t) EXCEPT !.len = n]
InPlaceArr(n, t) == [Arr(n, t) EXCEPT !.embedded = TRUE, !.stride = 8]
Lent(perm, t) == WithArrPermission(t, perm)
VarrOf(t) == VarrType(t, FALSE)
Owned == PtrType("own", P)
Color == EnumType("Color", "int32")

ParamTypes ==
  {Prim("int8"), Prim("int32"), Prim("int64"), Prim("uint32"), Prim("flo64"), Prim("bool"), Color,
   Owned, At(P), AtW(P), At(Prim("int32")), AtW(Prim("int32")), At(Void),
   Lent("read", Arr(2, At(P))), Lent("read", Arr(2, AtW(P))), Lent("write", Arr(2, AtW(P))),
   PtrType("own", Prim("int32")), PtrType("own", VarrOf(Prim("int32"))), At(VarrOf(Prim("int32"))),
   At(FuncType(<<At(P)>>, Void)), At(FuncType(<<AtW(P)>>, Void))}
RefsA == <<Func("m", "g", <<At(P)>>, << >>), Func("m", "g", <<AtW(P)>>, << >>), Func("m", "g", <<Prim("int8")>>, << >>)>>
Borrowed(t) == [Value(t) EXCEPT !.borrowed = TRUE]
Args ==
  {Value(t) : t \in ParamTypes} \cup {Borrowed(t) : t \in {u \in ParamTypes : u.kind = "pntr"}}
  \cup {Literal("int64"), Literal("flo64"), Aggregate, FuncName(RefsA), FuncName(Tail(RefsA))}
  \cup {Chained(Value(t)) : t \in {Prim("int32"), Owned, At(P), Arr(2, AtW(P)), PtrType("own", VarrOf(Prim("int32")))}}
  \cup {Value(Prim("int16")), Value(Arr(2, AtW(P))), [Value(Owned) EXCEPT !.expiring = TRUE]}

NewCall(name, own, args) ==
  [name |-> name, c |-> << >>, own |-> own, imported |-> << >>, varrs |-> << >>, args |-> args, method |-> FALSE, rets |-> 0]
NoCall == NewCall("f", << >>, << >>)
F(params) == Func("m", "f", params, << >>)

\* Of two things, one order: a call and its functions are turned round anyway.
Duos(s) == LET seq == FoldSet(LAMBDA x, q : Append(q, x), << >>, s) IN {<<seq[p[1]], seq[p[2]]>> : p \in {q \in (DOMAIN seq) \X (DOMAIN seq) : q[1] <= q[2]}}

\* Two or three functions of one parameter; C's and another module's beside them.
CallsOfOne ==
  {NewCall("f", <<F(<<d[1]>>), F(<<d[2]>>)>>, <<a>>) : d \in Duos(ParamTypes), a \in Args}
  \cup {NewCall("f", <<F(<<At(P)>>), F(<<d[1]>>), F(<<d[2]>>)>>, <<a>>) : d \in Duos( {AtW(P), Owned, At(Void), Prim("int32"), Prim("int64")}), a \in Args}
  \cup {[NewCall("f", <<F(<<t>>)>>, <<a>>) EXCEPT !.c = <<CFunc("f", <<u>>, v)>>, !.imported = <<Func("n", "f", <<t>>, << >>)>>] :
          t, u \in {Prim("int32"), Prim("int64"), AtW(Prim("int32")), AtW(P), At(VarrOf(Prim("int32")))}, v \in BOOLEAN, a \in Args}
\* Of two parameters: operators of chained operands, methods, and several returns.
CallsOfTwo ==
  {NewCall(op, <<Func("m", op, <<t, u>>, <<Prim("int32")>>), Func("m", op, <<v, w>>, <<Prim("int32")>>)>>, <<Chained(a), Chained(b)>>) :
     op \in {"-", "f"}, t, v \in {At(P), Owned, Prim("int32"), AtW(P)}, u, w \in {At(P), Owned, Prim("int64")},
     a \in {Value(Owned), Value(At(P))}, b \in {Value(Owned), Value(Prim("int32")), Literal("int64")}}
  \cup {[NewCall("push", <<Func("m", "push", ps, <<Prim("int32")>>), Func("m", "push", qs, << >>)>>, <<a, b>>)
          EXCEPT !.varrs = <<VarrOf(Prim("int32")), VarrOf(P)>>, !.method = m, !.rets = r] :
        ps \in {<<AtW(VarrOf(Prim("int32"))), Prim("int64")>>, <<AtW(VarrOf(Prim("int32"))), Prim("int32")>>, <<AtW(P), Prim("int8")>>},
        qs \in {<<At(VarrOf(P)), At(P)>>, <<AtW(VarrOf(P)), At(P)>>},
        a \in {Borrowed(AtW(VarrOf(Prim("int32")))), Borrowed(AtW(VarrOf(P))), Borrowed(AtW(P))},
        b \in {Value(Prim("int8")), Literal("int64"), Value(Owned), Borrowed(At(P))}, m \in BOOLEAN, r \in 0..1}
\* Functions to tell apart, by types of every form.
Bases == {Prim("int8"), Color, P, StructType("Pint8"), VarrOf(Prim("int8")), VarrType(Prim("int8"), TRUE), FuncType(<<Prim("int8")>>, Prim("int8")),
          FuncType(<<Prim("int8"), Prim("int8")>>, Prim("int8"))}
Pointed(ts) == {Arr(n, t) : n \in {1, 11}, t \in ts} \cup {PtrType(p, t) : p \in {"own", "read", "write"}, t \in ts}
               \cup {InPlaceArr(n, t) : n \in {1, None}, t \in ts} \cup {Lent(p, Arr(1, t)) : p \in {"read", "write"}, t \in ts}
Signatures == {<<t>> : t \in Bases \cup Pointed(Bases)} \cup {<<t>> : t \in Pointed(Pointed({P, Prim("int8")}))}
              \cup {<<t, u>> : t, u \in Bases} \cup {<< >>}
ToTellApart == {NewCall("f", <<F(d[1]), F(d[2])>>, << >>) : d \in Duos(Signatures)}
Calls == <<{NoCall}, CallsOfOne, CallsOfTwo, ToTellApart>>

\* Pointers to pointers; arrays of pointers and borrows of them; functions of pointers.
I == Prim("int32")
Ints == [given |-> At(I), r |-> At(I), w |-> AtW(I)]
FuncVar(f, t) == f :> FuncType(<<t>>, Void) @@ (f \o "'") :> t
Lends == <<
  {<< >>},
  {Ints @@ [rr |-> At(At(I)), rw |-> At(AtW(I)), wr |-> AtW(At(I)), ww |-> AtW(AtW(I))]},
  {Ints @@ a :> Arr(1, t) @@ (a \o "[0]") :> t @@ [v |-> p, q |-> q] :
     a \in {"a"}, t \in {At(I), AtW(I)}, p \in {Lent(x, Arr(1, u)) : x \in {"read", "write"}, u \in {At(I), AtW(I)}},
     q \in {PtrType("write", u) : u \in {At(I), AtW(I)}}},
  {Ints @@ FuncVar("f", At(t)) @@ FuncVar("h", AtW(t)) @@ [g |-> At(FuncType(<<At(t)>>, Void)), k |-> At(FuncType(<<x>>, Void)), p |-> x] :
     t \in {I, AtW(I)}, x \in {At(I), AtW(I), AtW(AtW(I))}}>>

TypingInit ==
  /\ BorrowInit(Lends)
  /\ IF types = << >> THEN \E k \in DOMAIN Calls : call \in Calls[k] ELSE call = NoCall
IdleInit == types = << >> /\ held = << >> /\ call = NoCall
TypingNext == BorrowStep /\ UNCHANGED call
Idle == types = << >> /\ call = NoCall

\* Calls mean one function, and the linker finds it.
OneMeaning == MeansOne(call)
SymbolsTellApart == SymbolsApart(call)
=============================================================================
