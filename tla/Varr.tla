-------------------------------- MODULE Varr --------------------------------
(***************************************************************************)
(* The functions build-mgr generates for structs, rows and variable-length *)
(* arrays ([+]T), run on a heap of blocks: cells that hold a value or the  *)
(* address of a cell.  A slot of an array is the cells its element takes.  *)
(***************************************************************************)
EXTENDS Integers, Sequences, FiniteSets, Functions, Folds

CONSTANTS MaxCalls,   \* bound on the calls before the arrays are released
          MaxLen      \* bound on the length of an array

\* asked is the call that was made last, with what it was given.
VARIABLES elem, store, heads, lists, out, calls, asked
varrVars == <<elem, store, heads, lists, out, calls, asked>>

-----------------------------------------------------------------------------
(***************************************************************************)
(* Element types: kind, length of a row, type of its elements, and the     *)
(* types of a struct's owned fields, which follow a field of plain bytes.  *)
(***************************************************************************)
NoElem == [kind |-> "none"]
Prim == [kind |-> "prim"]
Struct(fields) == [kind |-> "struct", fields |-> fields]
EmbedStruct == [kind |-> "embed-struct"]
VarrOf(leaf) == [kind |-> "varr", leaf |-> leaf]
Row(n, leaf) == [kind |-> "row", n |-> n, leaf |-> leaf]
EmbedRow(n, leaf) == [kind |-> "embed-row", n |-> n, leaf |-> leaf]

RECURSIVE Owned(_), SizeOf(_)
Owned(e) == IF e.kind = "embed-row" THEN Owned(e.leaf) ELSE e.kind \in {"struct", "varr", "row"}
Embedded(e) == e.kind \in {"embed-struct", "embed-row"}
\* Cells of a slot: an embedded struct has two.
SizeOf(e) == CASE e.kind = "embed-row" -> e.n * SizeOf(e.leaf) [] e.kind = "embed-struct" -> 2 [] OTHER -> 1

-----------------------------------------------------------------------------
(***************************************************************************)
(* The heap, as libc keeps it.                                             *)
(***************************************************************************)
Num(n) == <<"num", n, 0>>
At(block, cell) == <<"at", block, cell>>
Null == <<"null", 0, 0>>
Undef == <<"undef", 0, 0>>
Lost == <<"lost", 0, 0>>   \* read where no block is

Reaches(st, p) == p[1] = "at" /\ st.mem[p[2]].alive /\ p[3] \in DOMAIN st.mem[p[2]].cells
Get(st, p) == IF Reaches(st, p) THEN st.mem[p[2]].cells[p[3]] ELSE Lost
Put(st, p, c) ==
  IF Reaches(st, p) THEN [st EXCEPT !.mem[p[2]].cells[p[3]] = c] ELSE [st EXCEPT !.fault = TRUE]
\* The heap once all of ps were read.
Look(st, ps) == IF \A p \in ps : Reaches(st, p) THEN st ELSE [st EXCEPT !.fault = TRUE]
Plus(p, n) == [p EXCEPT ![3] = @ + n]
Malloc(st, n) == [st EXCEPT !.mem = Append(@, [alive |-> TRUE, cells |-> [i \in 1..n |-> Undef]])]
Newest(st) == At(Len(st.mem), 1)
Free(st, p) ==
  IF p = Null THEN st
  ELSE IF p[1] = "at" /\ p[3] = 1 /\ st.mem[p[2]].alive THEN [st EXCEPT !.mem[p[2]] = [alive |-> FALSE, cells |-> << >>]]
  ELSE [st EXCEPT !.fault = TRUE]
RECURSIVE Memcpy(_, _, _, _)
\* memcpy and memmove: n cells.
Memcpy(st, dst, src, n) ==
  IF n = 0 THEN st ELSE Memcpy(Put(Look(st, {src}), dst, Get(st, src)), Plus(dst, 1), Plus(src, 1), n - 1)
\* realloc that moves, as it may.
Realloc(st, p, n) ==
  LET made == Malloc(st, n)
      size == IF Reaches(st, p) THEN Len(st.mem[p[2]].cells) ELSE 0
  IN  Free(Memcpy(made, Newest(made), p, IF size < n THEN size ELSE n), p)

-----------------------------------------------------------------------------
(***************************************************************************)
(* The helpers of one element.  A slot's Ref is what a helper takes for    *)
(* it: its address when the element is laid out there, else its pointer.   *)
(***************************************************************************)
Slot(e, data, i) == Plus(data, i * SizeOf(e))
Ref(st, e, slot) == IF Embedded(e) THEN slot ELSE Get(st, slot)
Referred(st, e, slots) == IF Embedded(e) THEN st ELSE Look(st, slots)
\* The cells of a header.
LenOf(h) == h
CapOf(h) == Plus(h, 1)
DataOf(h) == Plus(h, 2)
Count(st, p) == Get(st, p)[2]
Opened(st, h) == Look(st, {LenOf(h), CapOf(h), DataOf(h)})

RECURSIVE ElemBuild(_, _, _), ElemDrop(_, _, _), ElemSet(_, _, _, _)
RECURSIVE Build(_, _, _, _, _), Drop(_, _, _, _, _), CopyRun(_, _, _, _, _)
\* The slots from 'from' up to 'to', and n slots from src to dst.
Build(st, e, data, from, to) ==
  IF from >= to THEN st ELSE Build(ElemBuild(st, e, Slot(e, data, from)), e, data, from + 1, to)
Drop(st, e, data, from, to) ==
  IF from >= to THEN st ELSE Drop(ElemDrop(st, e, Slot(e, data, from)), e, data, from + 1, to)
CopyRun(st, e, dst, src, n) ==
  IF n = 0 THEN st
  ELSE CopyRun(ElemSet(Referred(st, e, {dst, src}), e, Ref(st, e, dst), Ref(st, e, src)), e, Slot(e, dst, 1), Slot(e, src, 1), n - 1)

\* A struct's own allocator functions; its owned fields follow its first cell.
OverFields(Op(_, _, _), st, e) == FoldFunction(LAMBDA i, s : Op(s, e.fields[i], i), st, [i \in DOMAIN e.fields |-> i])
InitStruct(st, e, p) == OverFields(LAMBDA s, f, i : ElemBuild(s, f, Plus(p, i)), st, e)
FiniStruct(st, e, p) == OverFields(LAMBDA s, f, i : ElemDrop(s, f, Plus(p, i)), st, e)
FreeStruct(st, e, p) == IF p = Null THEN st ELSE Free(FiniStruct(st, e, p), p)
CopyStruct(st, e, dst, src) ==
  OverFields(LAMBDA s, f, i : CopyRun(s, f, Plus(dst, i), Plus(src, i), 1), Memcpy(st, dst, src, 1), e)

\* A [+]T.
InitVarr(st, e, h, len, cap) ==
  LET room == IF cap > 0 THEN Malloc(st, cap * SizeOf(e)) ELSE st
      made == Put(Put(Put(room, LenOf(h), Num(len)), CapOf(h), Num(cap)), DataOf(h), IF cap > 0 THEN Newest(room) ELSE Null)
  IN  IF Owned(e) THEN Build(made, e, Get(made, DataOf(h)), 0, len) ELSE made
AllocVarr(st, e, len, cap) == LET made == Malloc(st, 3) IN InitVarr(made, e, Newest(made), len, cap)
FiniVarr(st, e, h) ==
  LET seen == Opened(st, h)
  IN  Free(IF Owned(e) THEN Drop(seen, e, Get(st, DataOf(h)), 0, Count(st, LenOf(h))) ELSE seen, Get(st, DataOf(h)))
FreeVarr(st, e, h) == IF h = Null THEN st ELSE Free(FiniVarr(st, e, h), h)

AtLeast(c, n) == IF c < n THEN n ELSE c
Reserve(st, e, h, n) ==
  LET c == AtLeast(AtLeast(Count(st, CapOf(h)) * 2, n), 4)
      made == Realloc(Opened(st, h), Get(st, DataOf(h)), c * SizeOf(e))
  IN  Put(Put(made, DataOf(h), Newest(made)), CapOf(h), Num(c))
\* Room for n, and the owned elements the length gains or loses.
Fit(st, e, h, n) ==
  LET room == IF n > Count(st, CapOf(h)) THEN Reserve(st, e, h, n) ELSE Opened(st, h)
      len == Count(st, LenOf(h))
      data == Get(room, DataOf(h))
  IN  IF ~Owned(e) THEN room ELSE IF n > len THEN Build(room, e, data, len, n) ELSE Drop(room, e, data, n, len)
Resize(st, e, h, n) == Put(Fit(st, e, h, n), LenOf(h), Num(n))
\* (as if n bytes were copied)
CopyVarrCells(st, e, h, src, n) ==
  LET fit == Fit(st, e, h, n)
      data == Get(fit, DataOf(h))
  IN  Put(IF Owned(e) THEN CopyRun(fit, e, data, src, n) ELSE Memcpy(fit, data, src, n), LenOf(h), Num(n))
CopyVarr(st, e, h, src, n) ==
  LET fit == Fit(st, e, h, n)
      data == Get(fit, DataOf(h))
  IN  Put(IF Owned(e) THEN CopyRun(fit, e, data, src, n) ELSE Memcpy(fit, data, src, n * SizeOf(e)), LenOf(h), Num(n))
\* (as if it were freed before it is copied)
TakeStructFreed(st, e, slot, x) == Memcpy(Free(st, x), slot, x, SizeOf(e))
\* An embedded struct is copied out of its block.
TakeStruct(st, e, slot, x) == Free(Memcpy(st, slot, x, SizeOf(e)), x)
Push(st, e, h, x) ==
  LET len == Count(st, LenOf(h))
      room == IF len = Count(st, CapOf(h)) THEN Reserve(st, e, h, len + 1) ELSE Opened(st, h)
      slot == Slot(e, Get(room, DataOf(h)), len)
      built == ElemBuild(room, e, slot)
      filled == CASE e.kind \in {"varr", "struct", "prim"} -> Put(room, slot, x)
                  [] e.kind = "embed-struct" -> TakeStruct(room, e, slot, x)
                  [] Owned(e) -> ElemSet(built, e, Ref(built, e, slot), x)
                  [] OTHER -> Memcpy(room, slot, x, SizeOf(e))
  IN  Put(filled, LenOf(h), Num(len + 1))
\* The element leaves its slot: its block, or its cells moved into a block of their own.
Pop(st, e, h) ==
  LET len == Count(st, LenOf(h)) - 1
      slot == Slot(e, Get(st, DataOf(h)), len)
      seen == Opened(st, h)
      block == Malloc(seen, SizeOf(e))
      kept == IF Embedded(e) THEN Memcpy(block, Newest(block), slot, SizeOf(e)) ELSE Look(seen, {slot})
  IN  [st |-> Put(kept, LenOf(h), Num(len)), x |-> IF Embedded(e) THEN Newest(block) ELSE Get(st, slot)]

ElemBuild(st, e, slot) ==
  CASE e.kind = "varr" -> LET h == Malloc(st, 3)
                              zero == Put(Put(Put(h, Newest(h), Num(0)), CapOf(Newest(h)), Num(0)), DataOf(Newest(h)), Null)
                          IN  Put(zero, slot, Newest(h))
    [] e.kind = "row" -> LET made == Malloc(st, e.n * SizeOf(e.leaf))
                             kept == Put(made, slot, Newest(made))
                         IN  IF Owned(e.leaf) THEN Build(kept, e.leaf, Newest(made), 0, e.n) ELSE kept
    [] e.kind = "struct" -> LET made == Malloc(st, 1 + Len(e.fields))
                            IN  InitStruct(Put(made, slot, Newest(made)), e, Newest(made))
    [] e.kind = "embed-row" -> IF Owned(e) THEN Build(st, e.leaf, slot, 0, e.n) ELSE st
    [] OTHER -> st
ElemDrop(st, e, slot) ==
  CASE e.kind = "varr" -> FreeVarr(Look(st, {slot}), e.leaf, Get(st, slot))
    [] e.kind = "row" -> LET seen == Look(st, {slot})
                             p == Get(st, slot)
                         IN  Free(IF Owned(e.leaf) /\ p # Null THEN Drop(seen, e.leaf, p, 0, e.n) ELSE seen, p)
    [] e.kind = "struct" -> FreeStruct(Look(st, {slot}), e, Get(st, slot))
    [] e.kind = "embed-row" -> IF Owned(e) THEN Drop(st, e.leaf, slot, 0, e.n) ELSE st
    [] OTHER -> st
ElemSet(st, e, dst, src) ==
  CASE e.kind = "varr" -> CopyVarr(Opened(st, src), e.leaf, dst, Get(st, DataOf(src)), Count(st, LenOf(src)))
    [] e.kind \in {"row", "embed-row"} ->
         IF Owned(e.leaf) THEN CopyRun(st, e.leaf, dst, src, e.n) ELSE Memcpy(st, dst, src, e.n * SizeOf(e.leaf))
    [] e.kind = "struct" -> CopyStruct(st, e, dst, src)
    [] e.kind = "embed-struct" -> Memcpy(st, dst, src, 2)

\* A fixed array of owned elements, all of them live.
AllocArr(st, e, n) == LET made == Malloc(st, n * SizeOf(e)) IN Build(made, e, Newest(made), 0, n)
FreeArr(st, e, p, n) == IF p = Null THEN st ELSE Free(Drop(st, e, p, 0, n), p)

-----------------------------------------------------------------------------
(***************************************************************************)
(* A program with two arrays, and an element variable of its own where a   *)
(* call needs one: filled with a number of its own, and released after.    *)
(***************************************************************************)
RECURSIVE FillRun(_, _, _, _, _), Fill(_, _, _, _), FreshValue(_, _), IsFresh(_, _), ValueAt(_, _, _)
FillRun(st, e, data, n, x) == IF n = 0 THEN st ELSE FillRun(Fill(st, e, data, x), e, Slot(e, data, 1), n - 1, x)
Fill(st, e, slot, x) ==
  CASE e.kind = "prim" -> Put(st, slot, x)
    [] e.kind = "embed-struct" -> Put(Put(st, slot, x), Plus(slot, 1), x)
    [] e.kind = "struct" -> OverFields(LAMBDA s, f, i : Fill(s, f, Plus(Get(s, slot), i), x), Put(st, Get(st, slot), x), e)
    [] e.kind \in {"row", "embed-row"} -> FillRun(st, e.leaf, Ref(st, e, slot), e.n, x)
    [] e.kind = "varr" -> LET one == Resize(st, e.leaf, Get(st, slot), 1)
                          IN  Fill(one, e.leaf, Get(one, DataOf(Get(one, slot))), x)
\* What Fill leaves.
FreshValue(e, x) ==
  CASE e.kind = "embed-struct" -> <<x, x>>
    [] e.kind = "struct" -> <<x, [i \in DOMAIN e.fields |-> FreshValue(e.fields[i], x)]>>
    [] e.kind \in {"row", "embed-row"} -> [i \in 1..e.n |-> FreshValue(e.leaf, x)]
    [] e.kind = "varr" -> <<FreshValue(e.leaf, x)>>
    [] OTHER -> x
\* What Build leaves: bytes are whatever they were.
IsFresh(e, value) ==
  CASE e.kind = "struct" -> \A i \in DOMAIN e.fields : IsFresh(e.fields[i], value[2][i])
    [] e.kind \in {"row", "embed-row"} -> \A i \in 1..e.n : IsFresh(e.leaf, value[i])
    [] e.kind = "varr" -> value = << >>
    [] OTHER -> TRUE
Gone == << >>
ValueAt(st, e, slot) ==
  LET p == Ref(st, e, slot)
  IN  CASE e.kind = "prim" -> p
        [] e.kind # "prim" /\ p = Null -> Gone
        [] e.kind = "embed-struct" -> <<Get(st, p), Get(st, Plus(p, 1))>>
        [] e.kind = "struct" -> <<Get(st, p), [i \in DOMAIN e.fields |-> ValueAt(st, e.fields[i], Plus(p, i))]>>
        [] e.kind \in {"row", "embed-row"} -> [i \in 1..e.n |-> ValueAt(st, e.leaf, Slot(e.leaf, p, i - 1))]
        [] e.kind = "varr" -> [i \in 1..Count(st, LenOf(p)) |-> ValueAt(st, e.leaf, Slot(e.leaf, Get(st, DataOf(p)), i - 1))]

\* An element variable, whose slot is the newest block before its element is built.
Variable(st, e) == Newest(Malloc(st, SizeOf(e)))
Declare(st, e) ==
  LET made == Malloc(st, SizeOf(e))
  IN  IF e.kind = "row" /\ Owned(e.leaf)
      THEN LET arr == AllocArr(made, e.leaf, e.n) IN Put(arr, Newest(made), At(Len(made.mem) + 1, 1))
      ELSE ElemBuild(made, e, Newest(made))
Leave(st, e, x) ==
  Free(IF e.kind = "row" /\ Owned(e.leaf) THEN FreeArr(st, e.leaf, Get(st, x), e.n) ELSE ElemDrop(st, e, x), x)
\* push takes over a struct and a header; a variable of one is left without it.
Handed(st, e, x) ==
  CASE e.kind = "embed-struct" -> st
    [] e.kind \in {"prim", "struct", "varr"} -> Free(st, x)
    [] OTHER -> Leave(st, e, x)

Arrays == {"v", "w"}
Length(a) == Count(store, LenOf(heads[a]))
SlotOf(a, i) == Slot(elem, Get(store, DataOf(heads[a])), i)
Moved(a, i) == elem.kind \in {"struct", "varr", "row"} /\ Get(store, SlotOf(a, i)) = Null
\* What the program reads in the arrays.
Contents(st, h) ==
  [a \in Arrays |->
     IF h[a] = Null THEN << >>
     ELSE [i \in 1..Count(st, LenOf(h[a])) |-> ValueAt(st, elem, Slot(elem, Get(st, DataOf(h[a])), i - 1))]]
Calls(ask, st) ==
  /\ asked' = ask /\ store' = st /\ lists' = Contents(st, heads)
  /\ calls' = calls + 1 /\ UNCHANGED <<elem, heads>>

PushVariable(a) ==
  /\ Length(a) < MaxLen
  /\ LET x == Variable(store, elem)
         given == Fill(Declare(store, elem), elem, x, Num(calls))
     IN  Calls(<<"push", a, ValueAt(given, elem, x)>>, Handed(Push(given, elem, heads[a], Ref(given, elem, x)), elem, x))
  /\ UNCHANGED out
\* a.push(b[i]): a struct is copied by the caller.  A row laid out in place is lent where it is,
\* which a program must not do to the array that grows.
PushElement(a, b, i) ==
  /\ Length(a) < MaxLen /\ i < Length(b) /\ ~Moved(b, i) /\ ~(a = b /\ elem.kind = "embed-row")
  /\ LET x == Variable(store, elem)
         from == Ref(store, elem, SlotOf(b, i))
         copied == ElemSet(Declare(store, elem), elem, Ref(Declare(store, elem), elem, x), from)
     IN  Calls(<<"push_element", a, b, i>>,
               IF elem.kind \in {"prim", "row", "embed-row"} THEN Push(store, elem, heads[a], from)
               ELSE Handed(Push(copied, elem, heads[a], Ref(copied, elem, x)), elem, x))
  /\ UNCHANGED out
PopElement(a) ==
  /\ Length(a) > 0
  /\ LET popped == Pop(store, elem, heads[a])
         x == Variable(popped.st, elem)
         held == IF Embedded(elem) THEN popped.st ELSE Put(Malloc(popped.st, 1), x, popped.x)
         slot == IF Embedded(elem) THEN popped.x ELSE x
     IN  Calls(<<"pop", a>>, Free(ElemDrop(held, elem, slot), slot)) /\ out' = <<ValueAt(held, elem, slot)>>
ResizeTo(a, n) == Calls(<<"resize", a, n>>, Resize(store, elem, heads[a], n)) /\ UNCHANGED out
CopyTo(a, b) ==
  /\ \A i \in 0..(Length(b) - 1) : ~Moved(b, i) /\ (i < Length(a) => ~Moved(a, i))
  /\ Calls(<<"copy", a, b>>, CopyVarr(store, elem, heads[a], Get(store, DataOf(heads[b])), Length(b))) /\ UNCHANGED out
WriteElement(a, i) ==
  /\ i < Length(a) /\ ~Moved(a, i)
  /\ LET x == Variable(store, elem)
         given == Fill(Declare(store, elem), elem, x, Num(calls))
         to == SlotOf(a, i)
     IN  Calls(<<"write", a, i, ValueAt(given, elem, x)>>,
               IF elem.kind = "prim" THEN Put(store, to, Num(calls))
               ELSE Leave(ElemSet(given, elem, Ref(store, elem, to), Ref(given, elem, x)), elem, x))
  /\ UNCHANGED out
\* a[i] ->> x leaves NULL.
MoveElement(a, i) ==
  /\ i < Length(a) /\ elem.kind \in {"struct", "varr", "row"} /\ ~Moved(a, i)
  /\ LET held == Put(Malloc(store, 1), Variable(store, elem), Get(store, SlotOf(a, i)))
     IN  Calls(<<"move", a, i>>, Leave(Put(held, SlotOf(a, i), Null), elem, Variable(store, elem)))
  /\ UNCHANGED out
Release ==
  /\ heads["v"] # Null
  /\ store' = FreeVarr(FreeVarr(store, elem, heads["v"]), elem, heads["w"])
  /\ heads' = [a \in Arrays |-> Null] /\ lists' = [a \in Arrays |-> << >>] /\ asked' = <<"release">>
  /\ UNCHANGED <<elem, out, calls>>

\* v is empty, with room for one element or for none; w is made of two elements.
NoStore == [mem |-> << >>, fault |-> FALSE]
NoArrays ==
  /\ elem = NoElem /\ store = NoStore /\ out = << >> /\ calls = 1 /\ asked = << >>
  /\ heads = [a \in Arrays |-> Null] /\ lists = [a \in Arrays |-> << >>]
VInit(types) ==
  /\ elem \in types /\ out = << >> /\ calls = 1 /\ asked = << >>
  /\ \E room \in 0..1 :
       LET v == AllocVarr(NoStore, elem, 0, room)
           w == AllocVarr(v, elem, 2, 2)
           h == At(Len(v.mem) + 1, 1)
       IN  /\ heads = [a \in Arrays |-> IF a = "v" THEN At(1, 1) ELSE h]
           /\ store = FillRun(w, elem, Get(w, DataOf(h)), 2, Num(0))
           /\ lists = Contents(store, heads)
VNext ==
  \/ /\ calls <= MaxCalls /\ heads["v"] # Null
     /\ \E a \in Arrays :
          \/ PushVariable(a) \/ PopElement(a)
          \/ \E n \in {0, 1, MaxLen} : ResizeTo(a, n)
          \/ \E b \in Arrays : CopyTo(a, b) \/ \E i \in 0..MaxLen : PushElement(a, b, i)
          \/ \E i \in 0..MaxLen : WriteElement(a, i) \/ MoveElement(a, i)
  \/ Release

-----------------------------------------------------------------------------
(***************************************************************************)
(* The blocks that live are those the arrays reach, each by one way; no    *)
(* function reads, writes or frees one that does not live: no storage left *)
(* by a reallocation, no header or element already freed (elemBuild,       *)
(* elemDrop, __pln_push, __pln_copy).                                      *)
(***************************************************************************)
RECURSIVE BlocksOf(_, _, _)
BlocksIn(st, e, data, n) == FoldFunction(LAMBDA i, s : s \o BlocksOf(st, e, Slot(e, data, i)), << >>, [i \in 1..n |-> i - 1])
BlocksOfVarr(st, e, h) ==
  IF h = Null THEN << >>
  ELSE LET data == Get(st, DataOf(h))
       IN  <<h[2]>> \o (IF data = Null THEN << >> ELSE <<data[2]>>) \o BlocksIn(st, e, data, Count(st, LenOf(h)))
BlocksOf(st, e, slot) ==
  LET p == Ref(st, e, slot)
  IN  CASE e.kind \in {"prim", "embed-struct"} -> << >>
        [] e.kind = "embed-row" -> BlocksIn(st, e.leaf, p, e.n)
        [] e.kind = "varr" -> BlocksOfVarr(st, e.leaf, p)
        [] e.kind \in {"row", "struct"} /\ p = Null -> << >>
        [] e.kind = "row" /\ p # Null -> <<p[2]>> \o BlocksIn(st, e.leaf, p, e.n)
        [] e.kind = "struct" /\ p # Null ->
             FoldFunction(LAMBDA i, s : s \o BlocksOf(st, e.fields[i], Plus(p, i)), <<p[2]>>, [i \in DOMAIN e.fields |-> i])
BlocksOwned ==
  LET reached == BlocksOfVarr(store, elem, heads["v"]) \o BlocksOfVarr(store, elem, heads["w"])
  IN  /\ ~store.fault
      /\ \A i, j \in DOMAIN reached : reached[i] = reached[j] => i = j
      /\ {reached[i] : i \in DOMAIN reached} = {b \in DOMAIN store.mem : store.mem[b].alive}

WrittenValues(e) == {FreshValue(e, Num(n)) : n \in 0..MaxCalls}
List == INSTANCE VarrList WITH Names <- Arrays, Lengths <- 0..MaxLen, Values <- WrittenValues, IsNew <- IsFresh, type <- elem
(***************************************************************************)
(* Every call does to the lists what its name says of what it was given:   *)
(* the value pushed or written, the element, the length, the array copied  *)
(* (__pln_push, __pln_resize, __pln_copy, __pln_pop). A call that leaves   *)
(* them as they are, where another list was asked for, is no such step.    *)
(***************************************************************************)
KeepsLists == List!LSpec
=============================================================================
