------------------------------ MODULE PlnTypes ------------------------------
(***************************************************************************)
(* The types of a Palan program as the semantic analyzer sees them         *)
(* (PlnType.cpp and the predicates of PlnSaInternal.h): which one converts *)
(* to which, what a borrow permits, and how a type is spelled in a symbol. *)
(*                                                                         *)
(* A type is a record, as its JSON: a pointer's perm is its "mutable" key  *)
(* ("own" when absent), len its "arr-size" and stride its "stride" (None   *)
(* when absent).                                                           *)
(***************************************************************************)
EXTENDS Integers, Sequences, FiniteSets, TLC

None == -1
EnumType(e, n) == [kind |-> "prim", name |-> n, enum |-> e]
PrimType(n) == EnumType("", n)
StructType(x) == [kind |-> "struct", name |-> x]
VarrType(t, embedded) == [kind |-> "varr", base |-> t, embedded |-> embedded]
PtrType(perm, t) == [kind |-> "pntr", perm |-> perm, base |-> t, embedded |-> FALSE, stride |-> None, len |-> None]
FuncType(params, ret) == [kind |-> "func", params |-> params, ret |-> ret]

Void == PrimType("void")
IsPrim(t) == t.kind = "prim" /\ t.enum = ""
IsEnum(t) == t.kind = "prim" /\ t.enum # ""
IsPntr(t) == t.kind = "pntr"

\* What a pointer is: a struct's own storage, a borrow, an array's level, a [+]T.
IsStructPntr(t) == IsPntr(t) /\ t.base.kind = "struct" /\ ~t.embedded
IsPtrBorrow(t) == IsPntr(t) /\ t.perm # "own" /\ t.len = None
IsStructStorage(t) == IsStructPntr(t) /\ t.perm = "own"
IsStructBorrow(t) == IsStructPntr(t) /\ IsPtrBorrow(t)
IsVarrPntr(t) == IsPntr(t) /\ t.base.kind = "varr"
IsVarrStorage(t) == IsVarrPntr(t) /\ t.perm = "own"
IsArrLevel(t) == IsPntr(t) /\ ~IsStructStorage(t) /\ ~IsPtrBorrow(t) /\ ~IsVarrPntr(t)
IsArrBorrowVar(t) == IsPntr(t) /\ t.perm # "own" /\ (t.len # None \/ IsVarrPntr(t))
IsOwnedBlock(t) ==
  \/ IsStructStorage(t)
  \/ IsVarrStorage(t)
  \/ IsArrLevel(t) /\ t.len # None /\ t.perm = "own"
IsFuncPtr(t) == IsPntr(t) /\ t.base.kind = "func"

\* May be written through: what says nothing may.
IsWritableThrough(t) == IsPntr(t) => t.perm # "read"

(***************************************************************************)
(* The registry keeps one object for each type, without what it does not   *)
(* tell apart: permissions, lengths and strides.                           *)
(***************************************************************************)
RECURSIVE FromJson(_)
FromJson(t) ==
  CASE IsPntr(t) -> [kind |-> "pntr", base |-> FromJson(t.base)]
    [] t.kind = "varr" -> [t EXCEPT !.base = FromJson(@)]
    [] t.kind = "func" -> [t EXCEPT !.params = [i \in DOMAIN @ |-> FromJson(@[i])], !.ret = FromJson(@)]
    [] OTHER -> t

\* What a function pointer's signature can hold.
RECURSIVE Representable(_)
Representable(t) ==
  CASE t.kind \in {"pntr", "varr"} -> Representable(t.base)
    [] t.kind = "func" -> \A s \in {t.params[i] : i \in DOMAIN t.params} \cup {t.ret} :
                            s.kind \in {"prim", "pntr"} /\ (s # Void \/ s = t.ret) /\ Representable(s)
    [] OTHER -> t.kind \in {"prim", "struct"}

-----------------------------------------------------------------------------
(***************************************************************************)
(* Conversions between types of the registry.                              *)
(***************************************************************************)
SignedInts == <<"int8", "int16", "int32", "int64">>
UnsignedInts == <<"uint8", "uint16", "uint32", "uint64">>
Floats == <<"flo32", "flo64">>
In(n, seq) == \E i \in DOMAIN seq : seq[i] = n

PrimGroup(n) ==
  CASE In(n, SignedInts) -> "signed"
    [] In(n, UnsignedInts) -> "unsigned"
    [] In(n, Floats) -> "float"
    [] n = "bool" -> "bool"
    [] OTHER -> "none"
PrimRank(n) ==
  LET ranked(seq) == CHOOSE i \in DOMAIN seq : seq[i] = n
  IN  CASE In(n, SignedInts) -> ranked(SignedInts)
        [] In(n, UnsignedInts) -> ranked(UnsignedInts)
        [] In(n, Floats) -> ranked(Floats)
        [] OTHER -> -1

PrimCompat(from, to) ==
  LET gf == PrimGroup(from.name)
      gt == PrimGroup(to.name)
  IN  CASE gf = "bool" -> "ImplicitWiden"
        [] gf # "bool" /\ gt = "bool" -> "ExplicitCast"
        [] gf \in {"signed", "unsigned"} /\ gt = "float" -> "ImplicitWiden"
        [] gf = gt /\ gf # "bool" /\ PrimRank(to.name) > PrimRank(from.name) -> "ImplicitWiden"
        [] OTHER -> "ExplicitCast"

Bytes == {PrimType("int8"), PrimType("uint8")}

RECURSIVE TypeCompat(_, _)
\* Pointers: to the same type, to void, to functions called alike, to bytes.
PtrCompat(f, t) ==
  LET funcs == f.kind = "func" /\ t.kind = "func" /\ Len(f.params) = Len(t.params)
               /\ \A i \in DOMAIN f.params : TypeCompat(t.params[i], f.params[i]) = "Identical"
               /\ TypeCompat(f.ret, t.ret) = "Identical"
  IN  IF "varr" \notin {f.kind, t.kind} /\ (Void \in {f, t} \/ funcs \/ {f, t} \subseteq Bytes)
      THEN "Identical" ELSE "Incompatible"

TypeCompat(from, to) ==
  CASE from = to -> "Identical"
    [] from # to /\ IsEnum(to) ->
         IF from.kind = "prim" /\ (IsEnum(from) \/ PrimGroup(from.name) \in {"signed", "unsigned", "bool"})
         THEN "ExplicitCast" ELSE "Incompatible"
    [] from # to /\ IsEnum(from) /\ ~IsEnum(to) ->
         LET c == TypeCompat(PrimType(from.name), to)
         IN  IF c = "Identical" THEN "ImplicitWiden" ELSE c
    [] from # to /\ IsPrim(from) /\ IsPrim(to) -> PrimCompat(from, to)
    [] from # to /\ IsPntr(from) /\ IsPntr(to) -> PtrCompat(from.base, to.base)
    [] OTHER -> "Incompatible"

NoType == [kind |-> "none"]
UsualArithConv(a, b) ==
  LET ga == PrimGroup(a.name)
      gb == PrimGroup(b.name)
      wider == IF PrimRank(a.name) >= PrimRank(b.name) THEN a ELSE b
      signed == IF ga = "signed" THEN a ELSE b
      unsigned == IF ga = "signed" THEN b ELSE a
  IN  IF ~(IsPrim(a) /\ IsPrim(b)) \/ "none" \in {ga, gb} THEN NoType
      ELSE CASE ga = "bool" -> b
             [] ga # "bool" /\ gb = "bool" -> a
             [] ga = gb /\ ga # "bool" -> wider
             [] ga = "float" /\ gb \notin {"float", "bool"} -> a
             [] gb = "float" /\ ga \notin {"float", "bool"} -> b
             [] OTHER -> IF PrimRank(signed.name) > PrimRank(unsigned.name) THEN signed ELSE unsigned

\* What a scalar argument may be for its parameter.
ArgConvOk(given, to) ==
  LET from == IF IsEnum(given) THEN PrimType(given.name) ELSE given
  IN  /\ ~IsEnum(to)
      /\ \/ from = to
         \/ UsualArithConv(from, to) = to
         \/ /\ IsPrim(from) /\ IsPrim(to)
            /\ {PrimGroup(from.name), PrimGroup(to.name)} \cap {"none", "float"} = {}
            /\ PrimGroup(to.name) # "bool"
            /\ PrimRank(from.name) = PrimRank(to.name)

VariadicPromote(t) ==
  CASE t.name \in {"int8", "int16", "bool"} -> PrimType("int32")
    [] t.name \in {"uint8", "uint16"} -> PrimType("uint32")
    [] t.name = "flo32" -> PrimType("flo64")
    [] OTHER -> PrimType(t.name)

-----------------------------------------------------------------------------
(***************************************************************************)
(* Permissions.                                                            *)
(***************************************************************************)
\* The pointers that two types go through together, and what they reach.
RECURSIVE Levels(_, _)
Levels(f, t) == IF IsPntr(f) /\ IsPntr(t) THEN <<<<f, t>>>> \o Levels(f.base, t.base) ELSE << >>
Reached(f, t) == LET ls == Levels(f, t)
                 IN  IF ls = << >> THEN <<f, t>> ELSE <<ls[Len(ls)][1].base, ls[Len(ls)][2].base>>

SameOwnership(a, b) == IsOwnedBlock(a) <=> IsOwnedBlock(b)

RECURSIVE PtrPermission(_, _)
\* Permissions flow with the values: to the parameters, from the return.
FuncSigPermissionOk(f, t) ==
  f.kind = "func" /\ t.kind = "func" =>
    /\ \A i \in DOMAIN f.params : SameOwnership(t.params[i], f.params[i])
                                  /\ PtrPermission(t.params[i], f.params[i]) = "Ok"
    /\ SameOwnership(f.ret, t.ret)
    /\ PtrPermission(f.ret, t.ret) = "Ok"

\* (as if only upgrades mattered)
NarrowsNowhere(ls) == FALSE

\* A level that narrows below one that may be written.
NarrowsInside(ls) ==
  \E i \in DOMAIN ls : /\ IsWritableThrough(ls[i][1]) /\ ~IsWritableThrough(ls[i][2])
                       /\ \E j \in 1..(i - 1) : IsWritableThrough(ls[j][2])

PtrPermission(from, to) ==
  LET ls == Levels(from, to)
      end == Reached(from, to)
  IN  CASE \E i \in DOMAIN ls : ~IsWritableThrough(ls[i][1]) /\ IsWritableThrough(ls[i][2]) -> "Upgrade"
        [] ~FuncSigPermissionOk(end[1], end[2]) -> "FuncSigMismatch"
        [] OTHER -> IF NarrowsInside(ls) THEN "InnerNarrowing" ELSE "Ok"

-----------------------------------------------------------------------------
(***************************************************************************)
(* Shapes of arrays.                                                       *)
(***************************************************************************)
RECURSIVE ArrShapeMatch(_, _, _)
\* Binding an array to a borrowed array type; slots: whether it may write them.
ArrShapeMatch(from, to, slots) ==
  IF ~slots /\ IsPtrBorrow(to) /\ ~IsWritableThrough(to) /\ (IsArrLevel(from) \/ IsOwnedBlock(from))
  THEN IsArrLevel(from) => ArrShapeMatch(from.base, to.base, FALSE)
  ELSE IF IsArrLevel(from) /\ IsArrLevel(to)
  THEN /\ to.len \in {None, from.len}
       /\ from.embedded = to.embedded
       /\ ArrShapeMatch(from.base, to.base, IsWritableThrough(to))
  ELSE /\ IsArrLevel(from) <=> IsArrLevel(to)
       /\ IsOwnedBlock(from) <=> IsOwnedBlock(to)
       /\ IsPtrBorrow(from) <=> IsPtrBorrow(to)
       /\ IsPtrBorrow(to) => \/ IsWritableThrough(from) <=> IsWritableThrough(to)
                             \/ ~slots /\ ~IsWritableThrough(to)

\* Binding an array to a pointer without a size of its own.
ElemShapeMatch(from, to) ==
  LET varrs == IsVarrPntr(from) /\ IsVarrPntr(to)
      fe == from.base.base
      te == to.base.base
  IN  IF varrs /\ IsArrLevel(te) THEN from.base = to.base
      ELSE IF varrs /\ IsPtrBorrow(te) THEN IsPtrBorrow(fe) /\ ArrShapeMatch(fe, te, IsWritableThrough(to))
      ELSE IsPntr(to) /\ to.len = None /\ IsArrLevel(from) /\ Void \notin {from.base, to.base} =>
             ArrShapeMatch(from.base, to.base, IsWritableThrough(to))

RECURSIVE CopyShapeMatch(_, _)
CopyShapeMatch(from, to) ==
  IF IsArrLevel(to)
  THEN /\ IsArrLevel(from)
       /\ from.embedded = to.embedded
       /\ from.len # None /\ from.len = to.len
       /\ CopyShapeMatch(from.base, to.base)
  ELSE /\ IsStructStorage(from) <=> IsStructStorage(to)
       /\ IsPtrBorrow(from) <=> IsPtrBorrow(to)
       /\ CASE IsPtrBorrow(to) -> PtrPermission(from, to) = "Ok" /\ from.base = to.base
            [] IsStructStorage(to) -> from.base = to.base
            [] ~IsPtrBorrow(to) /\ ~IsStructStorage(to) /\ (IsVarrPntr(from) \/ IsVarrPntr(to)) ->
                 IsVarrPntr(from) /\ IsVarrPntr(to) /\ from.base = to.base
            [] OTHER -> from.kind = to.kind /\ (from.kind \in {"prim", "struct"} => from.name = to.name)

RECURSIVE WithoutArrPermission(_)
WithoutArrPermission(t) ==
  IF IsArrLevel(t) THEN [t EXCEPT !.perm = "own", !.base = WithoutArrPermission(@)] ELSE t

\* A [+]T takes any run of its elements.
VarrCopySourceMatch(from, to) ==
  LET elem == to.base.base
      sized == IsArrLevel(from) /\ from.len # None
  IN  CASE IsPtrBorrow(elem) ->
             \/ IsVarrPntr(from) /\ CopyShapeMatch(from.base.base, elem)
             \/ sized /\ ~from.embedded /\ CopyShapeMatch(from.base, elem)
        [] ~IsPtrBorrow(elem) /\ IsVarrPntr(from) -> from.base = to.base
        [] OTHER -> /\ sized
                    /\ IF to.base.embedded THEN from.stride # None ELSE ~from.embedded
                    /\ WithoutArrPermission(from.base) = elem
CopySourceMatch(from, to) == IF IsVarrStorage(to) THEN VarrCopySourceMatch(from, to) ELSE CopyShapeMatch(from, to)

RECURSIVE WithArrPermission(_, _)
WithArrPermission(t, perm) ==
  IF IsArrLevel(t) THEN [t EXCEPT !.perm = perm, !.base = WithArrPermission(@, perm)] ELSE t

-----------------------------------------------------------------------------
(***************************************************************************)
(* Symbols: every key a type carries tells overloads apart.                *)
(***************************************************************************)
SymbolUserName(x) == ToString(Len(x)) \o x

RECURSIVE SymbolType(_)
\* (as if a borrow that writes were spelled as one that reads)
SymbolBorrow(t) == (IF t.embedded THEN "E" ELSE "") \o (IF t.perm = "own" THEN "P" ELSE "R") \o SymbolType(t.base)
SymbolPntr(t) ==
  (IF t.embedded THEN "E" ELSE "")
  \o (IF t.stride # None THEN "S" \o ToString(t.stride) \o "_" ELSE "")
  \o (IF t.len # None THEN "A" \o ToString(t.len) \o "_" ELSE "")
  \o (CASE t.perm = "own" -> "P" [] t.perm = "write" -> "W" [] t.perm = "read" -> "R")
  \o SymbolType(t.base)

RECURSIVE Joined(_, _)
Joined(ts, sep) == IF ts = << >> THEN "" ELSE sep \o SymbolType(Head(ts)) \o Joined(Tail(ts), sep)

SymbolType(t) ==
  CASE IsPrim(t) -> t.name
    [] IsEnum(t) -> "N" \o SymbolUserName(t.enum) \o t.name
    [] t.kind = "struct" -> SymbolUserName(t.name)
    [] t.kind = "pntr" -> SymbolPntr(t)
    [] t.kind = "varr" -> (IF t.embedded THEN "VC" ELSE "V") \o SymbolType(t.base)
    [] t.kind = "func" -> "F" \o ToString(Len(t.params)) \o "_" \o Joined(t.params, "") \o SymbolType(t.ret)

OperatorFuncNames == [x \in {"+", "-", "*", "/", "%"} |->
  CASE x = "+" -> "0add" [] x = "-" -> "0sub" [] x = "*" -> "0mul" [] x = "/" -> "0div" [] x = "%" -> "0mod"]
FuncSymbol(name, params) ==
  (IF name \in DOMAIN OperatorFuncNames THEN OperatorFuncNames[name] ELSE name)
  \o (IF params = << >> THEN ".v" ELSE Joined(params, "."))
=============================================================================
