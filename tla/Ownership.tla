----------------------------- MODULE Ownership -----------------------------
(***************************************************************************)
(* How palan-sa keeps track of what a function's variables own, while it   *)
(* walks the function's statements: the scopes it opens and closes, the    *)
(* variables each of them must release, and the statements it emits for    *)
(* declarations, `<<=`, `->>`, `>>`, calls and every way out of a scope.   *)
(*                                                                         *)
(* A walk chooses the source's next statement and appends what the         *)
(* analyzer emits for it; OwnedRun runs the result.  Variables own either  *)
(* a block without owned parts (a "leaf": a struct, an [n]T) or an array   *)
(* of owned rows (a "tree").  A location is <<v>> or <<v, k>>, the row     *)
(* that v holds at the index expression k.                                 *)
(***************************************************************************)
EXTENDS Integers, Sequences, SequencesExt, FiniteSets

CONSTANTS
  Leaves, Trees,    \* sequences of names for variables of the two kinds
  Keys,             \* index expressions
  Jobs              \* functions to walk, see JobsAssumption

(***************************************************************************)
(* may: the kinds of statements it has; length: how many, ends of          *)
(* constructs included; params: owned parameters; ret: what it returns;    *)
(* named: its named return, "" for none; args: arguments of a call; nest:  *)
(* depth of constructs; apart: two rows of one array are not given in one  *)
(* call; reuse: a call may replace what one of its arguments reads.        *)
(***************************************************************************)
ASSUME JobsAssumption ==
  \A j \in Jobs :
    /\ j.length \in Nat /\ j.args \in 0..2 /\ j.nest \in 0..3
    /\ j.params \in Seq(ToSet(Leaves) \cup ToSet(Trees)) /\ IsInjective(j.params)
    /\ j.named \in {""} \cup ToSet(Leaves) \cup ToSet(Trees) /\ j.named \notin ToSet(j.params)
    /\ j.ret \in {"none", "leaf", "tree"}
    /\ j.apart \in BOOLEAN /\ j.reuse \in BOOLEAN

VARIABLES
  job,
  scopes,    \* arrayScopeVars_: what each open scope releases, outermost first
  open,      \* the constructs around the next statement
  code,      \* the statements emitted so far
  owners,    \* where each statement of the source starts, and the variables there
  phase      \* "walk", then as OwnedRun says

svars == <<job, scopes, open, code, owners>>

-----------------------------------------------------------------------------
KindOf(x) == IF x \in ToSet(Trees) THEN "tree" ELSE "leaf"
KindAt(l) == IF Len(l) = 2 THEN "leaf" ELSE KindOf(l[1])

\* Names the analyzer makes up: temporaries, and what a `for` walks.
Temp(i) == <<"tmp_1", "tmp_2", "tmp_3">>[i]
RangeVar(n) == <<"for_1", "for_2", "for_3">>[n]
RangeVars == {RangeVar(n) : n \in 1..3}

\* No two variables have one name: `__` names are the analyzer's own.
ASSUME NamesAssumption ==
  /\ Leaves \in Seq(STRING) /\ Trees \in Seq(STRING)
  /\ ToSet(Leaves) \cap ToSet(Trees) = {}
  /\ (ToSet(Leaves) \cup ToSet(Trees)) \cap ({""} \cup RangeVars \cup {Temp(i) : i \in 1..3}) = {}

\* A variable of a scope; a frame ($) variable is not owned: only its rows are released.
ScopeVar(x, owned) == [name |-> x, owned |-> owned]
ScopeVars == ToSet(FlattenSeq(scopes))
Owned == {v.name : v \in {v \in ScopeVars : v.owned}}
Visible == ({v.name : v \in ScopeVars} \cup {job.named}) \ ({""} \cup RangeVars)

\* The first name of its kind that is not taken, if there is one.
Unused(k) ==
  LET names == IF k = "tree" THEN Trees ELSE Leaves
  IN  {names[i] : i \in {i \in DOMAIN names :
         names[i] \notin Visible /\ \A j \in 1..i - 1 : names[j] \in Visible}}

\* What an emitted statement is; nest says which construct a jump belongs to.
Stm(op, to, from) ==
  [op |-> op, to |-> to, from |-> from, args |-> << >>, kind |-> "", nest |-> Len(open)]
Build(op, to, k) == [Stm(op, to, << >>) EXCEPT !.kind = k]

Emit(ss) ==
  /\ code' = code \o ss
  /\ owners' = Append(owners, [at |-> Len(code) + 1, vars |-> {v.name : v \in ScopeVars}])

\* The walk goes on with a statement of this kind.
Ended == code # << >> /\ Last(code).op \in {"break", "continue", "return"}
Goes(kind) ==
  /\ phase = "walk"
  /\ kind \in job.may
  /\ Len(owners) < job.length
  /\ ~Ended

-----------------------------------------------------------------------------
\* Scopes.

Declared(x, owned) ==
  [scopes EXCEPT ![Len(scopes)] = Append(@, ScopeVar(x, owned))]

Release(v) == Stm(IF v.owned THEN "free" ELSE "fini", <<v.name>>, << >>)

\* The releases of the scopes from..to, the last declared first, without keep's.
CollectFree(from, to, keep) ==
  LET vs == Reverse(FlattenSeq(SubSeq(scopes, from, to)))
  IN  FlattenSeq([i \in DOMAIN vs |-> IF vs[i].name = keep THEN << >> ELSE <<Release(vs[i])>>])

\* (as if scopes were counted after the new one was opened)
ConstructOffByOne(kind, range) == [kind |-> kind, outer |-> Len(scopes) + 1, range |-> range]

\* A construct, the number of scopes outside it, and the variable that it walks.
Construct(kind, range) == [kind |-> kind, outer |-> Len(scopes), range |-> range]
Inside == open[Len(open)]
Loops == {n \in DOMAIN open : open[n].kind \in {"while", "for"}}
InnermostLoop == CHOOSE n \in Loops : \A m \in Loops : m <= n

\* (as if a jump left only the scope it stands in)
OwnScopeOnly == Len(scopes)

\* whileScopeStack_: the first scope inside the innermost loop. A `for` keeps what
\* it walks in a scope of its own around it.
LoopScope == open[InnermostLoop].outer + (IF open[InnermostLoop].kind = "for" THEN 2 ELSE 1)

\* (as if a `for` did not hold what it walks)
NothingPinned == {}

\* Arrays that a `for` is walking must be neither moved nor replaced.
Pinned == {open[n].range : n \in Loops} \ {<< >>}

-----------------------------------------------------------------------------
\* What `->>` and `>>` may give away or replace: a variable that owns, or a row.

Rows == {<<w, k>> : w \in {w \in Visible : KindOf(w) = "tree"}, k \in Keys}
Givers == ({<<x>> : x \in Owned \cap Visible} \cup Rows) \ Pinned

Null(l) == Stm("null", l, << >>)
Move(to, from) == Stm("mov", to, from)

\* An argument given with `>>` is read into a temporary; any other is copied
\* into one that the callee will free.
Give(l) == [given |-> TRUE, of |-> l]
CopyOf(l) == [given |-> FALSE, of |-> l]
ArgBody(i, a) ==
  IF a.given THEN <<Move(<<Temp(i)>>, a.of)>>
  ELSE <<Build("new", <<Temp(i)>>, KindAt(a.of)), Stm("copy", <<Temp(i)>>, a.of)>>

\* (as if what is given away were not reset)
NoResets(as) == << >>

\* The owners given away are reset after all arguments, just before the call.
Resets(as) ==
  FlattenSeq([i \in DOMAIN as |-> IF as[i].given THEN <<Null(as[i].of)>> ELSE << >>])

CallOf(as, to, k) ==
  FlattenSeq([i \in DOMAIN as |-> ArgBody(i, as[i])]) \o Resets(as)
  \o <<[Build("call", to, k) EXCEPT !.args = [i \in DOMAIN as |-> <<Temp(i)>>]]>>

\* (as if only the parts of what is given away were refused)
PartsGiven(later, g) == later.given /\ IsStrictPrefix(g.of, later.of)

\* A later argument must not give away what an earlier one has, a part of it
\* or what contains it; paths are compared as they are written.
ChangesGiven(later, g) == later.given /\ (IsPrefix(later.of, g.of) \/ IsPrefix(g.of, later.of))
GivenOnce(as) ==
  \A i, j \in DOMAIN as : i < j /\ as[i].given => ~ChangesGiven(as[j], as[i])

ArgSets == {Give(l) : l \in Givers} \cup {CopyOf(l) : l \in {<<x>> : x \in Visible} \cup Rows}
Args ==
  {as \in UNION {[1..n -> ArgSets] : n \in 0..job.args} :
     /\ GivenOnce(as)
     /\ job.apart => \A i, j \in DOMAIN as :
          i # j /\ as[i].given /\ as[j].given /\ Len(as[i].of) = 2 /\ Len(as[j].of) = 2
            => as[i].of[1] # as[j].of[1]}

-----------------------------------------------------------------------------
Init ==
  /\ job \in Jobs
  /\ scopes = <<[i \in DOMAIN job.params |-> ScopeVar(job.params[i], TRUE)]>>
  /\ open = << >>
  /\ code = IF job.named = "" THEN << >> ELSE <<Build("new", <<job.named>>, KindOf(job.named))>>
  /\ owners = << >>
  /\ phase = "walk"

Kept == UNCHANGED <<job, scopes, open, phase>>

\* `T x;` and `$T x;`
Declare(k, x) ==
  /\ Goes("new")
  /\ Emit(<<Build("new", <<x>>, k)>>)
  /\ scopes' = Declared(x, TRUE)
  /\ UNCHANGED <<job, open, phase>>

DeclareInFrame(x) ==
  /\ Goes("frame")
  /\ Emit(<<Build("frame", <<x>>, "tree")>>)
  /\ scopes' = Declared(x, FALSE)
  /\ UNCHANGED <<job, open, phase>>

\* `T x <<= from;`: the value is read and its owner reset before x is declared.
TakeOver(x, from) ==
  /\ Goes("take")
  /\ Emit(<<Move(<<Temp(1)>>, from), Null(from), Move(<<x>>, <<Temp(1)>>)>>)
  /\ scopes' = Declared(x, TRUE)
  /\ UNCHANGED <<job, open, phase>>

\* `T x = f(..);`: x takes the returned block over.
TakeResult(x, k, as) ==
  /\ Goes("result")
  /\ Emit(CallOf(as, <<x>>, k))
  /\ scopes' = Declared(x, TRUE)
  /\ UNCHANGED <<job, open, phase>>

\* (as if the source of `->>` were not reset)
TransferKeepsSource(from, to) ==
  /\ Goes("give")
  /\ from = to => Len(to) = 2
  /\ Emit(<<Stm("free", to, << >>), Move(to, from)>>)
  /\ Kept

\* `from ->> to;`
Transfer(from, to) ==
  /\ Goes("give")
  /\ from = to => Len(to) = 2
  /\ Emit(<<Stm("free", to, << >>), Move(to, from), Null(from)>>)
  /\ Kept

\* `f(..) ->> to;`
TransferResult(as, to) ==
  /\ Goes("replace")
  /\ \A i \in DOMAIN as : as[i].of[1] = to[1] => job.reuse /\ Len(to) = 1
  /\ Emit(<<Stm("free", to, << >>)>> \o CallOf(as, to, KindAt(to)))
  /\ Kept

\* `f(..);` and a discarded result, which no one else owns.
Call(as) ==
  /\ Goes("call")
  /\ Emit(CallOf(as, << >>, ""))
  /\ Kept

CallAndDiscard(as, k) ==
  /\ Goes("discard")
  /\ Emit(CallOf(as, <<Temp(3)>>, k) \o <<Stm("free", <<Temp(3)>>, << >>)>>)
  /\ Kept

-----------------------------------------------------------------------------
\* Ways out.

AllFrees(keep) == CollectFree(1, Len(scopes), keep)

\* `return x;` of a variable that owns: its caller takes it over.
ReturnOwned(x) ==
  /\ Goes("return")
  /\ job.named = "" /\ KindOf(x) = job.ret
  /\ LET frees == AllFrees(x)
         value == IF frees = << >> THEN <<x>> ELSE <<Temp(1)>>
     IN  Emit((IF frees = << >> THEN << >> ELSE <<Move(<<Temp(1)>>, <<x>>)>>)
              \o frees \o <<Stm("return", << >>, value)>>)
  /\ Kept

\* `return l;` of what the function does not own itself: a copy.
ReturnCopy(l) ==
  /\ Goes("return")
  /\ job.named = "" /\ KindAt(l) = job.ret
  /\ LET frees == AllFrees("")
         value == IF frees = << >> THEN <<Temp(1)>> ELSE <<Temp(2)>>
     IN  Emit(<<Build("new", <<Temp(1)>>, job.ret), Stm("copy", <<Temp(1)>>, l)>>
              \o (IF frees = << >> THEN << >> ELSE <<Move(<<Temp(2)>>, <<Temp(1)>>)>>)
              \o frees \o <<Stm("return", << >>, value)>>)
  /\ Kept

\* `return f(..);`
ReturnResult(as) ==
  /\ Goes("return_result")
  /\ job.named = "" /\ job.ret # "none"
  /\ Emit(CallOf(as, <<Temp(3)>>, job.ret) \o AllFrees("") \o <<Stm("return", << >>, <<Temp(3)>>)>>)
  /\ Kept

\* `return;`
BareReturn ==
  /\ Goes("return")
  /\ job.named # "" \/ job.ret = "none"
  /\ Emit(AllFrees("") \o <<Stm("return", << >>, IF job.named = "" THEN << >> ELSE <<job.named>>)>>)
  /\ Kept

Jump(op) == [Stm(op, << >>, << >>) EXCEPT !.nest = InnermostLoop]
Step == IF open[InnermostLoop].kind = "for" THEN <<Jump("step")>> ELSE << >>

Break ==
  /\ Goes("break")
  /\ Loops # {}
  /\ Emit(CollectFree(LoopScope, Len(scopes), "") \o <<Jump("break")>>)
  /\ Kept

Continue ==
  /\ Goes("continue")
  /\ Loops # {}
  /\ Emit(CollectFree(LoopScope, Len(scopes), "") \o Step \o <<Jump("continue")>>)
  /\ Kept

-----------------------------------------------------------------------------
\* Blocks, branches and loops. The depth of a construct is its nest.

Deeper(op, to, from) == [Stm(op, to, from) EXCEPT !.nest = Len(open) + 1]

Open(kind) ==
  /\ Goes(kind)
  /\ Len(open) < job.nest
  /\ Emit(CASE kind = "block" -> << >>
            [] kind = "if"    -> <<Deeper("if", << >>, << >>)>>
            [] kind = "while" -> <<Deeper("loop", << >>, << >>), Deeper("test", << >>, << >>)>>)
  /\ open' = Append(open, Construct(kind, << >>))
  /\ scopes' = Append(scopes, << >>)
  /\ UNCHANGED <<job, phase>>

\* `for copy x in ..`: in a block of its own the array and a counter; in the
\* loop x, a copy of the element that ends with each turn.
ForLoop(x, held, range, before) ==
  LET n == Len(open) + 1
  IN  /\ n <= job.nest
      /\ Emit(before \o
              <<Deeper("loop", << >>, << >>), Deeper("test", range, <<RangeVar(n)>>),
                [Deeper("new", <<x>>, << >>) EXCEPT !.kind = "leaf"],
                Deeper("copy", <<x>>, <<RangeVar(n), "#">>)>>)
      /\ open' = Append(open, Construct("for", range))
      /\ scopes' = scopes \o <<held, <<ScopeVar(x, TRUE)>>>>
      /\ UNCHANGED <<job, phase>>

\* Over a variable, which stays the owner of what is walked.
OpenFor(x, w) ==
  /\ Goes("for")
  /\ ForLoop(x, << >>, <<w>>, <<Move(<<RangeVar(Len(open) + 1)>>, <<w>>)>>)

\* Over a call's result, which the outer block frees.
OpenForResult(x, as) ==
  /\ Goes("for_result")
  /\ LET f == RangeVar(Len(open) + 1)
     IN  ForLoop(x, <<ScopeVar(f, TRUE)>>, << >>, CallOf(as, <<f>>, "tree"))

Here(op) == Stm(op, << >>, << >>)

\* What the scopes of the construct leave is released at its end.
EndOf(kind) ==
  CollectFree(Len(scopes), Len(scopes), "")
  \o CASE kind = "block" -> << >>
       [] kind \in {"if", "else"} -> <<Here("end")>>
       [] kind = "while" -> <<Here("again"), Here("end")>>
       [] kind = "for" -> <<Here("step"), Here("again"), Here("end")>>
                          \o CollectFree(Len(scopes) - 1, Len(scopes) - 1, "")

Close ==
  /\ phase = "walk"
  /\ open # << >>
  /\ Emit(EndOf(Inside.kind))
  /\ scopes' = SubSeq(scopes, 1, Inside.outer)
  /\ open' = Front(open)
  /\ UNCHANGED <<job, phase>>

OpenElse ==
  /\ phase = "walk"
  /\ "else" \in job.may
  /\ open # << >> /\ Inside.kind = "if"
  /\ Emit(CollectFree(Len(scopes), Len(scopes), "") \o <<Here("else")>>)
  /\ scopes' = Append(Front(scopes), << >>)
  /\ open' = [open EXCEPT ![Len(open)].kind = "else"]
  /\ UNCHANGED <<job, phase>>

\* The end of the function; a trailing return has released what it must.
Finish ==
  /\ phase = "walk"
  /\ open = << >>
  /\ job.ret = "none" \/ job.named # "" \/ Ended
  /\ Emit(IF Ended THEN << >>
          ELSE AllFrees("") \o <<Stm("return", << >>, IF job.named = "" THEN << >> ELSE <<job.named>>)>>)
  /\ phase' = "entry"
  /\ UNCHANGED <<job, scopes, open>>

-----------------------------------------------------------------------------
Walk ==
  \/ \E k \in {"leaf", "tree"} : \E x \in Unused(k) :
       \/ Declare(k, x)
       \/ \E from \in {l \in Givers : KindAt(l) = k} : TakeOver(x, from)
       \/ \E as \in Args : TakeResult(x, k, as)
  \/ \E x \in Unused("tree") : DeclareInFrame(x)
  \/ \E to \in Givers :
       \/ \E from \in {l \in Givers : KindAt(l) = KindAt(to)} : Transfer(from, to)
       \/ \E as \in Args : TransferResult(as, to)
  \/ \E as \in Args : \/ Call(as)
                      \/ \E k \in {"leaf", "tree"} : CallAndDiscard(as, k)
                      \/ ReturnResult(as)
                      \/ \E x \in Unused("leaf") : OpenForResult(x, as)
  \/ \E x \in Owned \cap Visible : ReturnOwned(x)
  \/ \E l \in Rows \cup {<<x>> : x \in Visible \ Owned} : ReturnCopy(l)
  \/ BareReturn \/ Break \/ Continue
  \/ \E kind \in {"block", "if", "while"} : Open(kind)
  \/ \E x \in Unused("leaf"), w \in {w \in Visible : KindOf(w) = "tree"} : OpenFor(x, w)
  \/ Close \/ OpenElse \/ Finish
=============================================================================
