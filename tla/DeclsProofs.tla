----------------------------- MODULE DeclsProofs -----------------------------
(***************************************************************************)
(* The declarations of any program. Resolving them (TopDecls): what is     *)
(* being resolved is nested as the calls are, only a type that contains    *)
(* itself is refused as circular, and when the program is accepted nothing *)
(* that it comes by has been left out. Its globals (Globals): every program*)
(* that is accepted sets a global before a function that sees it runs,     *)
(* whatever the calls in it and however the addresses it takes are passed  *)
(* on.                                                                     *)
(***************************************************************************)
EXTENDS TopDecls, Globals, LeastNats, FiniteSetTheorems, TLAPS

-----------------------------------------------------------------------------
\* The tasks and what is being resolved.

\* The tasks that end what is being resolved.
Ends == {"define", "var"}

\* What a task asks for before anything it is part of can go on: a pointer's
\* struct can wait.
Later(t) == t.do = "ensure" /\ t.via /\ \A n \in Target(t.m, t.name) : KindOf(n) = "struct"
Demands(t) == IF t.do \in {"ensure", "adopt", "resolve"} /\ ~Later(t) THEN Target(t.m, t.name) ELSE {}

\* The declaration that what is being resolved belongs to: a variable's type is
\* looked at for the constant before it.
OwnerOf(stack, i) ==
  LET e == IF stack[i].var THEN stack[i - 1] ELSE stack[i] IN <<e.of, e.name>>

\* What waits until nothing is being resolved, when its turn has come.
Unhurried == {"pointee", "ensure struct"}
Fits(t, stack) ==
  stack # << >> =>
    t.do \notin Unhurried /\ Demands(t) \subseteq Needs(OwnerOf(stack, Len(stack)))

Closes(e, t) == t.do \in Ends /\ e = Entry(t.m, t.name, t.do = "var")

\* pos[i] is the task that ends stack[i]; a task fits what is being resolved when
\* it is reached.
Nests(pos, stack, tasks) ==
  /\ pos \in [1..Len(stack) -> 1..Len(tasks)]
  /\ \A i, j \in 1..Len(stack) : i < j => pos[j] < pos[i]
  /\ \A i \in 1..Len(stack) : Closes(stack[i], tasks[pos[i]])
  /\ \A k \in 1..Len(tasks) : tasks[k].do \in Ends => \E i \in 1..Len(stack) : pos[i] = k
  /\ \A k \in 1..Len(tasks), n \in 0..Len(stack) :
       /\ tasks[k].do \notin Ends
       /\ \A i \in 1..n : pos[i] >= k
       /\ \A i \in n + 1..Len(stack) : pos[i] < k
       => Fits(tasks[k], SubSeq(stack, 1, n))
Nested(stack, tasks) == \E pos \in [1..Len(stack) -> 1..Len(tasks)] : Nests(pos, stack, tasks)

-----------------------------------------------------------------------------
\* The invariant.

TaskOK(t) ==
  /\ DOMAIN t = {"do", "m", "name", "via", "sub", "wide"}
  /\ t.m \in Modules /\ t.sub \in Modules
  /\ t.do \in {"resolve", "define"} => Declares(t.m, t.name)
  /\ t.do \in {"adopt", "copy", "bind"} => Imports(t.m, t.name)
  /\ t.do = "adopt" => ~Declares(t.m, t.name)
  /\ t.do = "var" => VarPos(t.m, t.name) # {}

\* What is being resolved: each declaration once, each needed by the one before it.
StackOK ==
  /\ \A i \in DOMAIN resolving :
       LET e == resolving[i] IN
       IF e.var THEN i > 1 /\ ~resolving[i - 1].var
       ELSE /\ <<e.of, e.name>> \in Everything
            /\ an[e.of].state[e.name] = "resolving"
            /\ i > 1 => <<e.of, e.name>> \in Needs(OwnerOf(resolving, i - 1))
  /\ \A i, j \in DOMAIN resolving :
       ~resolving[i].var /\ ~resolving[j].var /\ resolving[i].of = resolving[j].of
       /\ resolving[i].name = resolving[j].name => i = j
  /\ \A n \in Everything : an[n[1]].state[n[2]] = "resolving" =>
       \E i \in DOMAIN resolving : resolving[i] = Entry(n[1], n[2], FALSE)

\* Some task will see that a declaration is resolved; one of its own module's.
Open == ToSet(todo) \cup ToSet(settled)
Owes(t, n) == t.do \in {"ensure", "adopt", "resolve", "define"} /\ n \in Target(t.m, t.name)
Done(n) == an[n[1]].state[n[2]] = "done"
Due(n) == Done(n) \/ \E t \in Open : Owes(t, n)
DueAtHome(n) == Done(n) \/ \E t \in Open : Owes(t, n) /\ Declares(t.m, t.name)

NothingForgotten ==
  /\ \A n \in Roots : Due(n)
  /\ \A n \in Everything : an[n[1]].state[n[2]] # "pending" => \A t \in Mentions(n) : Due(t)
  /\ \A m \in Modules : \A x \in an[m].adopted : \A n \in Target(m, x) : DueAtHome(n)
  /\ \A t \in Open : t.do \in {"copy", "bind"} => \A n \in Target(t.m, t.name) : DueAtHome(n)

WillSettle == settled # << >> => resolving # << >> \/ \E t \in ToSet(todo) : t.do = "settle"

OriginsOK ==
  \A m \in Modules :
    DOMAIN an[m].origins \subseteq DOMAIN an[m].structs \cup {Wide(n[1], n[2]) : n \in Everything}

\* The fields of every struct are a sequence.
StructsOK == \A m \in Modules : \A w \in DOMAIN an[m].structs : InOrder(an[m].structs[w].fields)

Fields == {"state", "types", "structs", "origins", "adopted", "known", "deferred", "seen", "sized"}
Shapes ==
  /\ program = << >> \/ IsProgram(program)
  /\ program = << >> <=> outcome = "nothing"
  /\ InOrder(todo) /\ InOrder(settled) /\ InOrder(resolving)
  /\ \A t \in Open : TaskOK(t)
  /\ \A t \in ToSet(settled) : t.do \in {"ensure", "adopt", "pointee"}
  /\ DOMAIN an = Modules /\ \A m \in Modules : DOMAIN an[m] = Fields
  /\ outcome \in {"working", "ok", "nothing"} \cup Errors
  /\ \A m \in Modules : an[m].state \in [{d.name : d \in Decls(m)} -> {"pending", "resolving", "done"}]
  /\ OriginsOK /\ StructsOK

Inductive ==
  /\ Shapes
  /\ outcome # "nothing" => Nested(resolving, todo) /\ StackOK /\ NothingForgotten /\ WillSettle
  /\ outcome = "ok" => todo = << >>
  /\ CircularHasCause
-----------------------------------------------------------------------------
\* Sequences.

\* What is in a sequence of some things is some of them.
LEMMA Orderly == ASSUME NEW S, NEW s \in Seq(S) PROVE InOrder(s) /\ ToSet(s) \subseteq S
<1>1. Len(s) \in Nat /\ s \in [1..Len(s) -> S]
  OBVIOUS
<1>2. s \in [1..Len(s) -> ToSet(s)]
  BY <1>1 DEF ToSet
<1> QED
  BY <1>1, <1>2 DEF InOrder, ToSet

\* What is in a sequence is what comes first and the rest.
LEMMA HeadAndTail ==
  ASSUME NEW s, InOrder(s), s # << >>
  PROVE  /\ Len(s) \in Nat \ {0} /\ DOMAIN s = 1..Len(s)
         /\ Head(s) = s[1] /\ Head(s) \in ToSet(s)
         /\ InOrder(Tail(s)) /\ ToSet(s) = {Head(s)} \cup ToSet(Tail(s))
<1> DEFINE S == ToSet(s)
<1>1. s \in Seq(S)
  BY DEF InOrder
<1> HIDE DEF S
<1>2. Len(s) \in Nat \ {0} /\ DOMAIN s = 1..Len(s) /\ Head(s) = s[1] /\ Tail(s) \in Seq(S)
  BY <1>1
<1>3. Len(Tail(s)) = Len(s) - 1 /\ DOMAIN Tail(s) = 1..Len(s) - 1 /\ \A i \in 1..Len(s) - 1 : Tail(s)[i] = s[i + 1]
  BY <1>1, <1>2
<1>4. ToSet(s) = {s[1]} \cup ToSet(Tail(s))
  <2>1. \A i \in 1..Len(s) : i = 1 \/ (i - 1 \in 1..Len(s) - 1 /\ s[i] = Tail(s)[i - 1])
    BY <1>2, <1>3
  <2>2. \A i \in 1..Len(s) - 1 : i + 1 \in 1..Len(s)
    BY <1>2
  <2>3. ASSUME NEW i \in 1..Len(s) PROVE s[i] \in {s[1]} \cup ToSet(Tail(s))
    BY <1>3, <2>1 DEF ToSet
  <2>4. ASSUME NEW i \in 1..Len(s) - 1 PROVE Tail(s)[i] \in ToSet(s)
    BY <1>2, <1>3, <2>2 DEF ToSet
  <2>5. ToSet(s) \subseteq {s[1]} \cup ToSet(Tail(s))
    BY <1>2, <2>3 DEF ToSet
  <2>6. ToSet(Tail(s)) \subseteq ToSet(s)
    BY <1>3, <2>4 DEF ToSet
  <2>7. s[1] \in ToSet(s)
    BY <1>2 DEF ToSet
  <2> QED
    BY <2>5, <2>6, <2>7
<1>5. InOrder(Tail(s))
  BY <1>2, Orderly
<1> QED
  BY <1>2, <1>4, <1>5

\* One sequence behind another, ...
LEMMA Joined ==
  ASSUME NEW s, NEW t, InOrder(s), InOrder(t)
  PROVE  InOrder(s \o t) /\ ToSet(s \o t) = ToSet(s) \cup ToSet(t)
<1> DEFINE S == ToSet(s) \cup ToSet(t)
<1>1. s \in Seq(S) /\ t \in Seq(S)
  BY DEF InOrder
<1>2. InOrder(s \o t)
  <2>1. s \o t \in Seq(S)
    BY <1>1
  <2> QED
    BY <2>1, Orderly
<1> HIDE DEF S
<1>3. /\ Len(s) \in Nat /\ Len(t) \in Nat /\ DOMAIN s = 1..Len(s) /\ DOMAIN t = 1..Len(t)
      /\ DOMAIN (s \o t) = 1..Len(s) + Len(t)
      /\ \A i \in 1..Len(s) : (s \o t)[i] = s[i]
      /\ \A i \in 1..Len(t) : (s \o t)[i + Len(s)] = t[i]
  BY <1>1
<1>4. \A i \in 1..Len(s) + Len(t) : i \in 1..Len(s) \/ (i - Len(s) \in 1..Len(t) /\ i = (i - Len(s)) + Len(s))
  BY <1>3
<1>5. \A i \in 1..Len(t) : i + Len(s) \in 1..Len(s) + Len(t)
  BY <1>3
<1>6. \A i \in 1..Len(s) : i \in 1..Len(s) + Len(t)
  BY <1>3
<1>7. ToSet(s \o t) \subseteq ToSet(s) \cup ToSet(t)
  BY <1>3, <1>4 DEF ToSet
<1>8. ToSet(s) \subseteq ToSet(s \o t)
  BY <1>3, <1>6 DEF ToSet
<1>9. ToSet(t) \subseteq ToSet(s \o t)
  BY <1>3, <1>5 DEF ToSet
<1> QED
  BY <1>2, <1>7, <1>8, <1>9

\* ... one more element, ...
LEMMA Appended ==
  ASSUME NEW s, InOrder(s), NEW e
  PROVE  InOrder(Append(s, e)) /\ ToSet(Append(s, e)) = ToSet(s) \cup {e}
<1> DEFINE S == ToSet(s) \cup {e}
<1>1. s \in Seq(S) /\ e \in S
  BY DEF InOrder
<1>2. InOrder(Append(s, e))
  <2>1. Append(s, e) \in Seq(S)
    BY <1>1
  <2> QED
    BY <2>1, Orderly
<1> HIDE DEF S
<1>3. /\ Len(s) \in Nat /\ DOMAIN s = 1..Len(s) /\ DOMAIN Append(s, e) = 1..Len(s) + 1
      /\ \A i \in 1..Len(s) : Append(s, e)[i] = s[i]
      /\ Append(s, e)[Len(s) + 1] = e
  BY <1>1
<1>4. \A i \in 1..Len(s) + 1 : i \in 1..Len(s) \/ i = Len(s) + 1
  BY <1>3
<1>5. Len(s) + 1 \in 1..Len(s) + 1 /\ \A i \in 1..Len(s) : i \in 1..Len(s) + 1
  BY <1>3
<1> QED
  BY <1>2, <1>3, <1>4, <1>5 DEF ToSet

\* ... sequences of one, ...
LEMMA OneOf == ASSUME NEW e PROVE InOrder(<<e>>) /\ ToSet(<<e>>) = {e}
BY DEF InOrder, ToSet

\* ... of two, ...
LEMMA TwoOf == ASSUME NEW d, NEW e PROVE InOrder(<<d, e>>) /\ ToSet(<<d, e>>) = {d, e}
BY DEF InOrder, ToSet

\* ... and of none.
LEMMA NoneOf == InOrder(<< >>) /\ ToSet(<< >>) = {}
BY DEF InOrder, ToSet

\* Sequences joined: everything in any of them, in order.
LEMMA Flattened ==
  ASSUME NEW S, NEW ss \in Seq(Seq(S))
  PROVE  /\ InOrder(FlattenSeq(ss))
         /\ ToSet(FlattenSeq(ss)) \subseteq S
         /\ \A i \in 1..Len(ss) : ToSet(ss[i]) \subseteq ToSet(FlattenSeq(ss))
<1>1. CASE Len(ss) = 0
  <2>1. ss = << >> /\ FlattenSeq(ss) = << >>
    BY <1>1 DEF FlattenSeq
  <2> QED
    BY <1>1, <2>1, NoneOf
<1>2. CASE Len(ss) # 0
  <2>1. PICK f : /\ \A i \in 1..Len(ss) : f[i] = IF i = 1 THEN ss[i] ELSE f[i - 1] \o ss[i]
                 /\ FlattenSeq(ss) = f[Len(ss)]
    BY <1>2, FlattenedSteps
  <2> DEFINE Good(i) == f[i] \in Seq(S) /\ \A j \in 1..i : ToSet(ss[j]) \subseteq ToSet(f[i])
             T == {i \in 1..Len(ss) : ~Good(i)}
  <2>0. Len(ss) \in Nat
    OBVIOUS
  <2>2. T = {}
    <3> SUFFICES ASSUME T # {} PROVE FALSE
      OBVIOUS
    <3>1. PICK i \in T : \A j \in T : i <= j
      <4>1. T \in SUBSET Nat
        OBVIOUS
      <4> HIDE DEF T
      <4> QED
        BY <4>1, LeastNat
    <3>2. i \in 1..Len(ss) /\ ~Good(i) /\ ss[i] \in Seq(S)
      OBVIOUS
    <3>3. CASE i = 1
      <4>1. f[i] = ss[i]
        BY <2>1, <3>2, <3>3
      <4> QED
        BY <3>2, <3>3, <4>1
    <3>4. CASE i # 1
      <4>1. i - 1 \in 1..Len(ss) /\ ~(i <= i - 1)
        BY <3>2, <3>4
      <4>2. Good(i - 1)
        BY <3>1, <4>1
      <4>3. f[i] = f[i - 1] \o ss[i]
        BY <2>1, <3>2, <3>4
      <4>4. f[i] \in Seq(S) /\ ToSet(f[i]) = ToSet(f[i - 1]) \cup ToSet(ss[i])
        BY <3>2, <4>2, <4>3, Orderly, Joined
      <4>5. \A j \in 1..i : j \in 1..(i - 1) \/ j = i
        BY <3>2
      <4> QED
        BY <3>2, <4>2, <4>4, <4>5
    <3> QED
      BY <3>3, <3>4
  <2>3. Len(ss) \in 1..Len(ss)
    BY <1>2, <2>0
  <2>4. Good(Len(ss))
    BY <2>2, <2>3
  <2> QED
    BY <2>1, <2>4, Orderly
<1> QED
  BY <1>1, <1>2

-----------------------------------------------------------------------------
\* How what is being resolved is nested in the tasks.

\* A task is put back in front of nothing but what it asks for, ...
LEMMA Dropped ==
  ASSUME NEW stack, NEW tasks, InOrder(stack), InOrder(tasks), Nested(stack, tasks),
         tasks # << >>, tasks[1].do \notin Ends
  PROVE  Nested(stack, Tail(tasks)) /\ Fits(tasks[1], stack)
<1> DEFINE N == Len(stack)
           L == Len(tasks)
<1>1. N \in Nat /\ L \in Nat \ {0} /\ Len(Tail(tasks)) = L - 1 /\ \A k \in 1..L - 1 : Tail(tasks)[k] = tasks[k + 1]
  <2>1. stack \in Seq(ToSet(stack)) /\ tasks \in Seq(ToSet(tasks))
    BY DEF InOrder
  <2> QED
    BY <2>1
<1> HIDE DEF N, L
<1>2. PICK pos \in [1..N -> 1..L] : Nests(pos, stack, tasks)
  BY DEF Nested, N, L
<1> DEFINE p == [i \in 1..N |-> pos[i] - 1]
<1>3. \A i \in 1..N : pos[i] \in 1..L /\ pos[i] # 1
  <2>1. ASSUME NEW i \in 1..N, pos[i] = 1 PROVE FALSE
    <3>1. tasks[pos[i]].do \in Ends
      BY <1>2 DEF Nests, Closes, N
    <3> QED
      BY <2>1, <3>1
  <2> QED
    BY <1>2, <2>1
<1>4. p \in [1..N -> 1..L - 1]
  BY <1>1, <1>3
<1>5. \A i, j \in 1..N : i < j => p[j] < p[i]
  <2>1. \A i, j \in 1..N : i < j => pos[j] < pos[i]
    BY <1>2 DEF Nests, N
  <2> QED
    BY <1>1, <1>3, <2>1
<1>6. \A i \in 1..N : Closes(stack[i], Tail(tasks)[p[i]])
  <2> SUFFICES ASSUME NEW i \in 1..N PROVE Closes(stack[i], Tail(tasks)[p[i]])
    OBVIOUS
  <2>1. p[i] \in 1..L - 1 /\ p[i] + 1 = pos[i]
    BY <1>1, <1>3, <1>4
  <2>2. Tail(tasks)[p[i]] = tasks[pos[i]]
    BY <1>1, <2>1
  <2> QED
    BY <1>2, <2>2 DEF Nests, N
<1>7. \A k \in 1..L - 1 : Tail(tasks)[k].do \in Ends => \E i \in 1..N : p[i] = k
  <2> SUFFICES ASSUME NEW k \in 1..L - 1, Tail(tasks)[k].do \in Ends PROVE \E i \in 1..N : p[i] = k
    OBVIOUS
  <2>1. k + 1 \in 1..L /\ tasks[k + 1].do \in Ends
    BY <1>1
  <2>2. PICK i \in 1..N : pos[i] = k + 1
    BY <1>2, <2>1 DEF Nests, N, L
  <2> QED
    BY <1>1, <2>2
<1>8. ASSUME NEW k \in 1..L - 1, NEW n \in 0..N, Tail(tasks)[k].do \notin Ends,
             \A i \in 1..n : p[i] >= k, \A i \in n + 1..N : p[i] < k
      PROVE  Fits(Tail(tasks)[k], SubSeq(stack, 1, n))
  <2>1. k + 1 \in 1..L /\ Tail(tasks)[k] = tasks[k + 1]
    BY <1>1
  <2>2. ASSUME NEW i \in 1..n PROVE pos[i] >= k + 1
    <3>1. i \in 1..N /\ p[i] >= k
      <4>1. i \in 1..N
        BY <1>1
      <4>2. p[i] >= k
        BY <1>8
      <4> QED
        BY <4>1, <4>2
    <3> QED
      BY <1>1, <1>3, <3>1
  <2>3. ASSUME NEW i \in n + 1..N PROVE pos[i] < k + 1
    <3>1. i \in 1..N /\ p[i] < k
      <4>1. i \in 1..N
        BY <1>1
      <4>2. p[i] < k
        BY <1>8
      <4> QED
        BY <4>1, <4>2
    <3> QED
      BY <1>1, <1>3, <3>1
  <2> QED
    BY <1>2, <1>8, <2>1, <2>2, <2>3 DEF Nests, N, L
<1>9. Nested(stack, Tail(tasks))
  <2>1. Nests(p, stack, Tail(tasks))
    <3> HIDE DEF p
    <3> QED
      BY <1>1, <1>4, <1>5, <1>6, <1>7, <1>8 DEF Nests, N, L
  <2> HIDE DEF p
  <2> QED
    BY <1>1, <1>4, <2>1 DEF Nested, N, L
<1>10. Fits(tasks[1], stack)
  <2>1. 1 \in 1..L /\ N \in 0..N /\ (\A i \in 1..N : pos[i] >= 1) /\ (\A i \in N + 1..N : pos[i] < 1)
    BY <1>1, <1>3
  <2>2. Fits(tasks[1], SubSeq(stack, 1, N))
    BY <1>2, <2>1 DEF Nests, N, L
  <2>3. SubSeq(stack, 1, N) = stack
    BY DEF InOrder, N
  <2> QED
    BY <2>2, <2>3
<1> QED
  BY <1>9, <1>10

\* ... what is put there fits what is being resolved, ...
LEMMA PutThere ==
  ASSUME NEW stack, NEW tasks, NEW new, InOrder(stack), InOrder(tasks), InOrder(new), Nested(stack, tasks),
         \A t \in ToSet(new) : t.do \notin Ends /\ Fits(t, stack)
  PROVE  Nested(stack, new \o tasks)
<1> DEFINE N == Len(stack)
           L == Len(tasks)
           M == Len(new)
           all == new \o tasks
<1>1. /\ N \in Nat /\ L \in Nat /\ M \in Nat /\ Len(all) = M + L
      /\ \A k \in 1..M : all[k] = new[k] /\ new[k] \in ToSet(new)
      /\ \A k \in 1..L : all[k + M] = tasks[k]
      /\ SubSeq(stack, 1, N) = stack
  <2>1. stack \in Seq(ToSet(stack)) /\ tasks \in Seq(ToSet(tasks)) /\ new \in Seq(ToSet(new))
    BY DEF InOrder
  <2>2. new \in Seq(ToSet(new) \cup ToSet(tasks)) /\ tasks \in Seq(ToSet(new) \cup ToSet(tasks))
    BY <2>1
  <2>3. \A k \in 1..M : new[k] \in ToSet(new)
    BY <2>1
  <2> QED
    BY <2>1, <2>2, <2>3
<1> HIDE DEF N, L, M, all
<1>2. PICK pos \in [1..N -> 1..L] : Nests(pos, stack, tasks)
  BY DEF Nested, N, L
<1> DEFINE p == [i \in 1..N |-> pos[i] + M]
<1>3. \A i \in 1..N : pos[i] \in 1..L
  BY <1>2
<1>4. p \in [1..N -> 1..M + L]
  BY <1>1, <1>3
<1>5. \A i, j \in 1..N : i < j => p[j] < p[i]
  <2>1. \A i, j \in 1..N : i < j => pos[j] < pos[i]
    BY <1>2 DEF Nests, N
  <2> QED
    BY <1>1, <1>3, <2>1
<1>6. \A i \in 1..N : Closes(stack[i], all[p[i]])
  <2> SUFFICES ASSUME NEW i \in 1..N PROVE Closes(stack[i], all[p[i]])
    OBVIOUS
  <2>1. all[p[i]] = tasks[pos[i]]
    BY <1>1, <1>3
  <2> QED
    BY <1>2, <2>1 DEF Nests, N
<1>7. \A k \in 1..M + L : all[k].do \in Ends => \E i \in 1..N : p[i] = k
  <2> SUFFICES ASSUME NEW k \in 1..M + L, all[k].do \in Ends PROVE \E i \in 1..N : p[i] = k
    OBVIOUS
  <2>1. CASE k \in 1..M
    BY <1>1, <2>1
  <2>2. CASE k \notin 1..M
    <3>1. k - M \in 1..L /\ (k - M) + M = k
      BY <1>1, <2>2
    <3>2. tasks[k - M].do \in Ends
      BY <1>1, <3>1
    <3>3. PICK i \in 1..N : pos[i] = k - M
      BY <1>2, <3>1, <3>2 DEF Nests, N, L
    <3> QED
      BY <1>1, <3>1, <3>3
  <2> QED
    BY <2>1, <2>2
<1>8. ASSUME NEW k \in 1..M + L, NEW n \in 0..N, all[k].do \notin Ends,
             \A i \in 1..n : p[i] >= k, \A i \in n + 1..N : p[i] < k
      PROVE  Fits(all[k], SubSeq(stack, 1, n))
  <2>1. CASE k \in 1..M
    <3>1. n = N
      <4>1. n # N => n + 1 \in n + 1..N /\ n + 1 \in 1..N
        BY <1>1
      <4>2. n # N => p[n + 1] < k /\ pos[n + 1] \in 1..L
        BY <1>3, <1>8, <4>1
      <4> QED
        BY <1>1, <2>1, <4>1, <4>2
    <3> QED
      BY <1>1, <2>1, <3>1
  <2>2. CASE k \notin 1..M
    <3>1. k - M \in 1..L /\ (k - M) + M = k
      BY <1>1, <2>2
    <3>2. all[k] = tasks[k - M]
      BY <1>1, <3>1
    <3>3. ASSUME NEW i \in 1..n PROVE pos[i] >= k - M
      <4>1. i \in 1..N /\ p[i] >= k
        <5>1. i \in 1..N
          BY <1>1
        <5>2. p[i] >= k
          BY <1>8
        <5> QED
          BY <5>1, <5>2
      <4> QED
        BY <1>1, <1>3, <4>1
    <3>4. ASSUME NEW i \in n + 1..N PROVE pos[i] < k - M
      <4>1. i \in 1..N /\ p[i] < k
        <5>1. i \in 1..N
          BY <1>1
        <5>2. p[i] < k
          BY <1>8
        <5> QED
          BY <5>1, <5>2
      <4> QED
        BY <1>1, <1>3, <4>1
    <3> QED
      BY <1>2, <1>8, <3>1, <3>2, <3>3, <3>4 DEF Nests, N, L
  <2> QED
    BY <2>1, <2>2
<1>9. Nests(p, stack, all)
  <2> HIDE DEF p
  <2> QED
    BY <1>1, <1>4, <1>5, <1>6, <1>7, <1>8 DEF Nests, N, L
<1> HIDE DEF p
<1> QED
  BY <1>1, <1>4, <1>9 DEF Nested, N, L, all

\* ... what begins is ended by a task of its own, ...
LEMMA Begun ==
  ASSUME NEW stack, NEW tasks, NEW e, NEW t, InOrder(stack), InOrder(tasks), Nested(stack, tasks), Closes(e, t)
  PROVE  Nested(Append(stack, e), <<t>> \o tasks)
<1> DEFINE N == Len(stack)
           L == Len(tasks)
           all == <<t>> \o tasks
           up == Append(stack, e)
<1>1. /\ N \in Nat /\ L \in Nat /\ Len(all) = L + 1 /\ Len(up) = N + 1
      /\ all[1] = t /\ \A k \in 1..L : all[k + 1] = tasks[k]
      /\ up[N + 1] = e /\ \A i \in 1..N : up[i] = stack[i]
      /\ \A n \in 0..N : SubSeq(up, 1, n) = SubSeq(stack, 1, n)
  <2>1. stack \in Seq(ToSet(stack) \cup {e}) /\ tasks \in Seq(ToSet(tasks) \cup {t}) /\ <<t>> \in Seq(ToSet(tasks) \cup {t})
    BY DEF InOrder
  <2>2. \A n \in 0..N : SubSeq(up, 1, n) = SubSeq(stack, 1, n)
    BY <2>1
  <2> QED
    BY <2>1, <2>2
<1> HIDE DEF N, L, all, up
<1>2. PICK pos \in [1..N -> 1..L] : Nests(pos, stack, tasks)
  BY DEF Nested, N, L
<1> DEFINE p == [i \in 1..N + 1 |-> IF i = N + 1 THEN 1 ELSE pos[i] + 1]
<1>3. \A i \in 1..N : pos[i] \in 1..L
  BY <1>2
<1>0. N \in Nat /\ L \in Nat
  BY <1>1
<1>4. p \in [1..N + 1 -> 1..L + 1] /\ p[N + 1] = 1 /\ \A i \in 1..N : p[i] = pos[i] + 1
  <2>1. ASSUME NEW i \in 1..N + 1 PROVE p[i] \in 1..L + 1 /\ (i \in 1..N => p[i] = pos[i] + 1)
    BY <1>0, <1>3, SMTT(20)
  <2>2. p \in [1..N + 1 -> 1..L + 1]
    BY <2>1
  <2>3. N + 1 \in 1..N + 1 /\ \A i \in 1..N : i \in 1..N + 1
    BY <1>0
  <2> QED
    BY <2>1, <2>2, <2>3
<1> HIDE DEF p
<1>10. \A i \in 1..N + 1 : i \in 1..N \/ i = N + 1
  BY <1>1
<1>5. \A i, j \in 1..N + 1 : i < j => p[j] < p[i]
  <2>1. \A i, j \in 1..N : i < j => pos[j] < pos[i]
    BY <1>2 DEF Nests, N
  <2>2. ASSUME NEW i \in 1..N + 1, NEW j \in 1..N + 1, i < j PROVE p[j] < p[i]
    <3>1. i \in 1..N /\ pos[i] \in 1..L /\ p[i] = pos[i] + 1
      BY <1>1, <1>3, <1>4, <2>2
    <3>2. CASE j = N + 1
      BY <1>1, <1>4, <3>1, <3>2
    <3>3. CASE j \in 1..N
      <4>1. pos[j] < pos[i] /\ pos[j] \in 1..L /\ p[j] = pos[j] + 1
        BY <1>3, <1>4, <2>1, <2>2, <3>1, <3>3
      <4> QED
        BY <3>1, <4>1
    <3> QED
      BY <1>10, <3>2, <3>3
  <2> QED
    BY <2>2
<1>6. \A i \in 1..N + 1 : Closes(up[i], all[p[i]])
  <2> SUFFICES ASSUME NEW i \in 1..N + 1 PROVE Closes(up[i], all[p[i]])
    OBVIOUS
  <2>1. CASE i = N + 1
    BY <1>1, <1>4, <2>1
  <2>2. CASE i \in 1..N
    <3>1. all[p[i]] = tasks[pos[i]] /\ up[i] = stack[i]
      BY <1>1, <1>3, <1>4, <2>2
    <3> QED
      BY <1>2, <2>2, <3>1 DEF Nests, N
  <2> QED
    BY <1>10, <2>1, <2>2
<1>7. \A k \in 1..L + 1 : all[k].do \in Ends => \E i \in 1..N + 1 : p[i] = k
  <2> SUFFICES ASSUME NEW k \in 1..L + 1, all[k].do \in Ends PROVE \E i \in 1..N + 1 : p[i] = k
    OBVIOUS
  <2>1. CASE k = 1
    BY <1>1, <1>4, <2>1
  <2>2. CASE k # 1
    <3>1. k - 1 \in 1..L /\ (k - 1) + 1 = k
      BY <1>1, <2>2
    <3>2. tasks[k - 1].do \in Ends
      BY <1>1, <3>1
    <3>3. PICK i \in 1..N : pos[i] = k - 1
      BY <1>2, <3>1, <3>2 DEF Nests, N, L
    <3> QED
      BY <1>1, <1>4, <3>1, <3>3
  <2> QED
    BY <2>1, <2>2
<1>8. ASSUME NEW k \in 1..L + 1, NEW n \in 0..N + 1, all[k].do \notin Ends,
             \A i \in 1..n : p[i] >= k, \A i \in n + 1..N + 1 : p[i] < k
      PROVE  Fits(all[k], SubSeq(up, 1, n))
  <2>1. k # 1
    BY <1>1, <1>8 DEF Closes
  <2>2. n # N + 1
    <3>1. n = N + 1 => p[N + 1] >= k
      BY <1>1, <1>8
    <3> QED
      BY <1>4, <2>1, <3>1
  <2>3. n \in 0..N /\ k - 1 \in 1..L /\ (k - 1) + 1 = k
    BY <1>0, <2>1, <2>2, SMTT(20)
  <2>4. all[k] = tasks[k - 1] /\ SubSeq(up, 1, n) = SubSeq(stack, 1, n)
    BY <1>1, <2>3
  <2>5. \A i \in 1..n : pos[i] >= k - 1
    BY <1>1, <1>3, <1>4, <1>8, <2>3, SMTT(30)
  <2>6. \A i \in n + 1..N : pos[i] < k - 1
    BY <1>1, <1>3, <1>4, <1>8, <2>3, SMTT(30)
  <2> QED
    BY <1>2, <1>8, <2>3, <2>4, <2>5, <2>6 DEF Nests, N, L
<1>9. Nests(p, up, all)
  BY <1>1, <1>4, <1>5, <1>6, <1>7, <1>8 DEF Nests, N, L
<1> QED
  BY <1>1, <1>4, <1>9 DEF Nested, N, L, all, up

\* ... and what ends is what began last.
LEMMA Ended ==
  ASSUME NEW stack, NEW tasks, InOrder(stack), InOrder(tasks), Nested(stack, tasks),
         tasks # << >>, tasks[1].do \in Ends
  PROVE  stack # << >> /\ Closes(Last(stack), tasks[1]) /\ Nested(Front(stack), Tail(tasks))
<1> DEFINE N == Len(stack)
           L == Len(tasks)
<1>1. N \in Nat /\ L \in Nat \ {0} /\ Len(Tail(tasks)) = L - 1 /\ \A k \in 1..L - 1 : Tail(tasks)[k] = tasks[k + 1]
  <2>1. stack \in Seq(ToSet(stack)) /\ tasks \in Seq(ToSet(tasks))
    BY DEF InOrder
  <2> QED
    BY <2>1
<1> HIDE DEF N, L
<1>2. PICK pos \in [1..N -> 1..L] : Nests(pos, stack, tasks)
  BY DEF Nested, N, L
<1>3. \A i \in 1..N : pos[i] \in 1..L
  BY <1>2
<1>11. \A i, j \in 1..N : i < j => pos[j] < pos[i]
  BY <1>2 DEF Nests, N
<1>12. N # 0 /\ pos[N] = 1
  <2>1. PICK i \in 1..N : pos[i] = 1
    BY <1>1, <1>2 DEF Nests, N, L
  <2>2. i # N => pos[N] < pos[i] /\ pos[N] \in 1..L
    BY <1>1, <1>3, <1>11
  <2> QED
    BY <1>1, <1>3, <2>1, <2>2
<1>13. stack # << >> /\ Closes(Last(stack), tasks[1])
  <2>1. Closes(stack[N], tasks[pos[N]])
    BY <1>1, <1>2, <1>12 DEF Nests, N
  <2> QED
    BY <1>12, <2>1 DEF Last, N
<1>14. /\ Len(Front(stack)) = N - 1 /\ \A i \in 1..N - 1 : Front(stack)[i] = stack[i]
       /\ \A n \in 0..N - 1 : SubSeq(Front(stack), 1, n) = SubSeq(stack, 1, n)
  <2>1. stack \in Seq(ToSet(stack)) /\ Len(stack) = N
    BY DEF InOrder, N
  <2> QED
    BY <1>1, <1>12, <2>1 DEF Front
<1> DEFINE p == [i \in 1..N - 1 |-> pos[i] - 1]
<1>15. \A i \in 1..N - 1 : i \in 1..N /\ pos[i] > 1 /\ p[i] = pos[i] - 1
  BY <1>1, <1>3, <1>11, <1>12
<1>4. p \in [1..N - 1 -> 1..L - 1]
  BY <1>1, <1>3, <1>15
<1> HIDE DEF p
<1>5. \A i, j \in 1..N - 1 : i < j => p[j] < p[i]
  BY <1>1, <1>3, <1>11, <1>15
<1>6. \A i \in 1..N - 1 : Closes(Front(stack)[i], Tail(tasks)[p[i]])
  <2> SUFFICES ASSUME NEW i \in 1..N - 1 PROVE Closes(Front(stack)[i], Tail(tasks)[p[i]])
    OBVIOUS
  <2>1. p[i] \in 1..L - 1 /\ p[i] + 1 = pos[i] /\ i \in 1..N
    BY <1>1, <1>3, <1>4, <1>15
  <2>2. Tail(tasks)[p[i]] = tasks[pos[i]] /\ Front(stack)[i] = stack[i]
    BY <1>1, <1>14, <2>1
  <2> QED
    BY <1>2, <2>1, <2>2 DEF Nests, N
<1>7. \A k \in 1..L - 1 : Tail(tasks)[k].do \in Ends => \E i \in 1..N - 1 : p[i] = k
  <2> SUFFICES ASSUME NEW k \in 1..L - 1, Tail(tasks)[k].do \in Ends PROVE \E i \in 1..N - 1 : p[i] = k
    OBVIOUS
  <2>1. k + 1 \in 1..L /\ tasks[k + 1].do \in Ends
    BY <1>1
  <2>2. PICK i \in 1..N : pos[i] = k + 1
    BY <1>2, <2>1 DEF Nests, N, L
  <2>3. i \in 1..N - 1
    BY <1>1, <1>12, <2>1, <2>2
  <2>4. p[i] = pos[i] - 1
    BY <1>15, <2>3
  <2>5. p[i] = k
    BY <1>1, <2>2, <2>4
  <2> QED
    BY <2>3, <2>5
<1>8. ASSUME NEW k \in 1..L - 1, NEW n \in 0..N - 1, Tail(tasks)[k].do \notin Ends,
             \A i \in 1..n : p[i] >= k, \A i \in n + 1..N - 1 : p[i] < k
      PROVE  Fits(Tail(tasks)[k], SubSeq(Front(stack), 1, n))
  <2>1. k + 1 \in 1..L /\ Tail(tasks)[k] = tasks[k + 1] /\ n \in 0..N
    BY <1>1
  <2>2. \A i \in 1..n : pos[i] >= k + 1
    BY <1>1, <1>3, <1>8, <1>15
  <2>3. \A i \in n + 1..N : pos[i] < k + 1
    <3>1. \A i \in n + 1..N : i \in n + 1..N - 1 \/ i = N
      BY <1>1
    <3>2. \A i \in n + 1..N - 1 : i \in 1..N - 1 /\ pos[i] < k + 1
      BY <1>1, <1>3, <1>8, <1>15, SMTT(20)
    <3> QED
      BY <1>1, <1>12, <3>1, <3>2
  <2> QED
    BY <1>2, <1>8, <1>14, <2>1, <2>2, <2>3 DEF Nests, N, L
<1>9. Nests(p, Front(stack), Tail(tasks))
  BY <1>1, <1>4, <1>5, <1>6, <1>7, <1>8, <1>14 DEF Nests
<1> QED
  BY <1>1, <1>4, <1>9, <1>13, <1>14 DEF Nested

\* Nothing is being resolved when no task would end it.
LEMMA NoneNested ==
  ASSUME NEW stack, InOrder(stack), Nested(stack, << >>) PROVE stack = << >>
<1>1. stack \in Seq(ToSet(stack)) /\ Len(stack) \in Nat
  BY DEF InOrder
<1>2. PICK pos \in [1..Len(stack) -> 1..0] : TRUE
  BY DEF Nested
<1>3. Len(stack) = 0
  <2> SUFFICES ASSUME Len(stack) # 0 PROVE FALSE
    OBVIOUS
  <2>1. 1 \in 1..Len(stack)
    BY <1>1
  <2>2. pos[1] \in 1..0
    BY <1>2, <2>1
  <2> QED
    BY <2>2
<1> QED
  BY <1>1, <1>3

\* Tasks that end nothing fit where nothing is being resolved.
LEMMA NestedAtFirst ==
  ASSUME NEW tasks, InOrder(tasks), \A t \in ToSet(tasks) : t.do \notin Ends PROVE Nested(<< >>, tasks)
<1> DEFINE pos == [i \in 1..0 |-> 1]
<1>1. Len(tasks) \in Nat /\ pos \in [1..0 -> 1..Len(tasks)]
  BY DEF InOrder
<1>2. \A k \in 1..Len(tasks) : tasks[k].do \notin Ends
  BY <1>1 DEF InOrder, ToSet
<1>3. \A k \in 1..Len(tasks) : Fits(tasks[k], SubSeq(<< >>, 1, 0))
  BY DEF Fits
<1> HIDE DEF pos
<1>4. Nests(pos, << >>, tasks)
  BY <1>1, <1>2, <1>3 DEF Nests
<1> QED
  BY <1>1, <1>4 DEF Nested

-----------------------------------------------------------------------------
\* What the source says.

LEMMA ImageFinite ==
  ASSUME NEW S, IsFiniteSet(S), NEW f PROVE IsFiniteSet({f[x] : x \in S})
<1> DEFINE T == {f[x] : x \in S}
           g == [x \in S |-> f[x]]
<1>1. g \in Surjection(S, T)
  BY DEF Surjection
<1> HIDE DEF g, T
<1>2. IsFiniteSet(T)
  BY <1>1, FS_Surjection
<1> QED
  BY <1>2 DEF T

\* A program has a finite number of declarations, in modules it has.
LEMMA ProgramFacts ==
  ASSUME IsProgram(program)
  PROVE  /\ IsFiniteSet(Everything)
         /\ \A m, x : m \in Modules /\ Declares(m, x) =>
              /\ <<m, x>> \in Everything /\ DeclOf(m, x) \in Decls(m) /\ DeclOf(m, x).name = x
         /\ \A n \in Everything : n = <<n[1], n[2]>> /\ n[1] \in Modules /\ Declares(n[1], n[2])
         /\ \A m, x : m \in Modules /\ Imports(m, x) =>
              /\ ImportOf(m, x) \in ImportsOf(m) /\ ImportOf(m, x).as = x
              /\ ImportOf(m, x).of \in Modules /\ Declares(ImportOf(m, x).of, ImportOf(m, x).name)
         /\ \A m, x : m \in Modules => Target(m, x) \subseteq Everything
<1>1. Modules = 1..Len(program) /\ Len(program) \in Nat
  BY DEF Modules, IsProgram, InOrder
<1>2. \A m \in Modules : IsFiniteSet(Decls(m))
  <2> SUFFICES ASSUME NEW m \in Modules PROVE IsFiniteSet(Decls(m))
    OBVIOUS
  <2>1. InOrder(program[m].decls)
    BY DEF IsProgram, Modules
  <2>2. DOMAIN program[m].decls = 1..Len(program[m].decls) /\ Len(program[m].decls) \in Nat
    BY <2>1 DEF InOrder
  <2>6. \A k \in Nat : IsFiniteSet(1..k)
    BY FS_Interval
  <2>3. IsFiniteSet(1..Len(program[m].decls))
    BY <2>2, <2>6
  <2>4. IsFiniteSet(ToSet(program[m].decls))
    BY <2>2, <2>3, ImageFinite DEF ToSet
  <2>5. Decls(m) \in SUBSET ToSet(program[m].decls)
    BY DEF Decls
  <2> QED
    BY <2>4, <2>5, FS_Subset
<1>3. IsFiniteSet(Everything)
  <2> DEFINE names(m) == {<<m, d.name>> : d \in Decls(m)}
             all == [m \in Modules |-> names(m)]
  <2>1. \A m \in Modules : IsFiniteSet(names(m))
    <3> SUFFICES ASSUME NEW m \in Modules PROVE IsFiniteSet(names(m))
      OBVIOUS
    <3> DEFINE f == [d \in Decls(m) |-> <<m, d.name>>]
    <3>1. names(m) = {f[d] : d \in Decls(m)}
      OBVIOUS
    <3> HIDE DEF f, names
    <3> QED
      BY <1>2, <3>1, ImageFinite
  <2>2. IsFiniteSet(Modules)
    BY <1>1, FS_Interval
  <2>3. {names(m) : m \in Modules} = {all[m] : m \in Modules}
    OBVIOUS
  <2> HIDE DEF names, all
  <2>4. IsFiniteSet({names(m) : m \in Modules})
    BY <2>2, <2>3, ImageFinite
  <2>5. IsFiniteSet(UNION {names(m) : m \in Modules})
    BY <2>1, <2>4, FS_UNION
  <2> QED
    BY <2>5 DEF Everything, names
<1>4. ASSUME NEW m \in Modules, NEW x, Declares(m, x)
      PROVE  <<m, x>> \in Everything /\ DeclOf(m, x) \in Decls(m) /\ DeclOf(m, x).name = x
  <2>1. DeclOf(m, x) \in Decls(m) /\ DeclOf(m, x).name = x
    BY <1>4 DEF Declares, DeclOf
  <2> QED
    BY <2>1 DEF Everything
<1>5. ASSUME NEW n \in Everything
      PROVE  n = <<n[1], n[2]>> /\ n[1] \in Modules /\ Declares(n[1], n[2])
  BY DEF Everything, Declares
<1>6. ASSUME NEW m \in Modules, NEW x, Imports(m, x)
      PROVE  /\ ImportOf(m, x) \in ImportsOf(m) /\ ImportOf(m, x).as = x
             /\ ImportOf(m, x).of \in Modules /\ Declares(ImportOf(m, x).of, ImportOf(m, x).name)
  <2>1. ImportOf(m, x) \in ImportsOf(m) /\ ImportOf(m, x).as = x
    BY <1>6 DEF Imports, ImportOf
  <2>2. \A i \in ImportsOf(m) : i.of \in Modules /\ Declares(i.of, i.name)
    BY DEF IsProgram, ImportsOf, Modules, Declares, Decls
  <2> QED
    BY <2>1, <2>2
<1>7. ASSUME NEW m \in Modules, NEW x PROVE Target(m, x) \subseteq Everything
  <2>1. CASE Declares(m, x)
    BY <1>4, <2>1 DEF Target
  <2>2. CASE ~Declares(m, x)
    BY <1>4, <1>6, <2>2 DEF Target
  <2> QED
    BY <2>1, <2>2
<1> QED
  BY <1>3, <1>4, <1>5, <1>6, <1>7

\* What declarations mention and need are declarations.
LEMMA UsesIn ==
  ASSUME IsProgram(program), NEW n \in Everything
  PROVE  Mentions(n) \subseteq Everything /\ Needs(n) \subseteq Everything
<1>1. n[1] \in Modules
  BY ProgramFacts
<1>2. \A x : Target(n[1], x) \subseteq Everything
  BY <1>1, ProgramFacts
<1>3. \A u : SizeTarget(n[1], u) \subseteq Everything
  BY <1>2 DEF SizeTarget
<1> QED
  BY <1>2, <1>3 DEF Mentions, Needs, Targets

\* What the compiled module comes by is declared somewhere.
LEMMA RootsIn == ASSUME IsProgram(program), program # << >> PROVE 1 \in Modules /\ Roots \subseteq Everything
<1>1. 1 \in Modules
  BY DEF Modules, IsProgram, InOrder
<1>2. \A m \in Modules : \A x : Target(m, x) \subseteq Everything
  BY ProgramFacts
<1>3. {<<1, d.name>> : d \in Decls(1)} \subseteq Everything
  BY <1>1 DEF Everything
<1>4. UNION {Target(1, i.as) : i \in ImportsOf(1)} \subseteq Everything
  BY <1>1, <1>2
<1>5. \A m \in Modules : UNION {Target(m, x) : x \in ToSet(program[m].sigs)} \subseteq Everything
  BY <1>2
<1>6. UNION {UNION {Target(m, x) : x \in ToSet(program[m].sigs)} : m \in Modules} \subseteq Everything
  <2> DEFINE Used(m) == UNION {Target(m, x) : x \in ToSet(program[m].sigs)}
  <2>1. \A m \in Modules : Used(m) \subseteq Everything
    BY <1>5
  <2> HIDE DEF Used
  <2>2. UNION {Used(m) : m \in Modules} \subseteq Everything
    BY <2>1
  <2> QED
    BY <2>2 DEF Used
<1>7. Roots \subseteq Everything
  BY <1>3, <1>4, <1>6, Zenon DEF Roots
<1> QED
  BY <1>1, <1>7

\* Following what each leads to as often as there are declarations ...
LEMMA LeadsSteps ==
  ASSUME IsFiniteSet(Everything), NEW step \in [Everything -> SUBSET Everything], NEW from \in SUBSET Everything
  PROVE  \E f : /\ f \in [0..Cardinality(Everything) -> SUBSET Everything]
                /\ f[0] = from
                /\ \A k \in 1..Cardinality(Everything) : f[k] = f[k - 1] \cup UNION {step[n] : n \in f[k - 1]}
                /\ Leads(step, from) = f[Cardinality(Everything)]
<1> DEFINE C == Cardinality(Everything)
           next == [x \in (SUBSET Everything) \X (1..C) |-> x[1] \cup UNION {step[n] : n \in x[1]}]
<1>1. C \in Nat
  BY FS_CardinalityType
<1> HIDE DEF C
<1>2. next \in [(SUBSET Everything) \X (1..C) -> SUBSET Everything]
  OBVIOUS
<1>3. PICK f : Recursion(f, C, SUBSET Everything, from, next)
  <2> HIDE DEF next
  <2> QED
    BY <1>1, <1>2, RecursionExists
<1>4. f \in [0..C -> SUBSET Everything] /\ f[0] = from
  BY <1>3 DEF Recursion
<1>5. ASSUME NEW k \in 1..C PROVE k - 1 \in 0..C /\ f[k] = f[k - 1] \cup UNION {step[n] : n \in f[k - 1]}
  <2>1. k - 1 \in 0..C
    BY <1>1
  <2>2. <<f[k - 1], k>> \in (SUBSET Everything) \X (1..C)
    BY <1>4, <2>1
  <2>3. f[k] = next[<<f[k - 1], k>>]
    BY <1>3 DEF Recursion
  <2> QED
    BY <2>1, <2>2, <2>3
<1> DEFINE Body(g) == [k \in 0..C |-> IF k = 0 THEN from ELSE g[k - 1] \cup UNION {step[n] : n \in g[k - 1]}]
           more == CHOOSE g : g = Body(g)
<1>6. f = Body(f)
  <2>1. f = [k \in 0..C |-> f[k]]
    BY <1>4
  <2>2. \A k \in 0..C : f[k] = IF k = 0 THEN from ELSE f[k - 1] \cup UNION {step[n] : n \in f[k - 1]}
    BY <1>1, <1>4, <1>5
  <2> QED
    BY <2>1, <2>2
<1>7. more = Body(more)
  BY <1>6
<1>8. Leads(step, from) = more[C]
  BY DEF Leads, C
<1> HIDE DEF more
<1>9. /\ more \in [0..C -> SUBSET Everything] /\ more[0] = from
      /\ \A k \in 1..C : more[k] = more[k - 1] \cup UNION {step[n] : n \in more[k - 1]}
  <2>1. /\ DOMAIN more = 0..C /\ more = [k \in 0..C |-> more[k]] /\ more[0] = from
        /\ \A k \in 1..C : more[k] = more[k - 1] \cup UNION {step[n] : n \in more[k - 1]}
    <3>1. \A k \in 0..C : more[k] = IF k = 0 THEN from ELSE more[k - 1] \cup UNION {step[n] : n \in more[k - 1]}
      BY <1>7
    <3>2. DOMAIN more = 0..C /\ more = [k \in 0..C |-> more[k]]
      BY <1>7
    <3>3. 0 \in 0..C /\ \A k \in 1..C : k \in 0..C /\ k # 0
      BY <1>1
    <3>4. more[0] = from
      BY <3>1, <3>3
    <3>5. \A k \in 1..C : more[k] = more[k - 1] \cup UNION {step[n] : n \in more[k - 1]}
      BY <3>1, <3>3
    <3> QED
      BY <3>2, <3>4, <3>5
  <2> DEFINE T == {k \in 0..C : ~(more[k] \in SUBSET Everything)}
  <2>2. T = {}
    <3> SUFFICES ASSUME T # {} PROVE FALSE
      OBVIOUS
    <3>1. PICK k \in T : \A j \in T : k <= j
      <4>1. T \in SUBSET Nat
        OBVIOUS
      <4> HIDE DEF T
      <4> QED
        BY <4>1, LeastNat
    <3>2. k \in 0..C /\ ~(more[k] \in SUBSET Everything)
      OBVIOUS
    <3>3. k # 0
      BY <2>1, <3>2
    <3>4. k \in 1..C /\ k - 1 \in 0..C /\ ~(k <= k - 1)
      BY <1>1, <3>2, <3>3
    <3>5. more[k - 1] \in SUBSET Everything
      BY <3>1, <3>4
    <3>6. UNION {step[n] : n \in more[k - 1]} \subseteq Everything
      BY <3>5
    <3> QED
      BY <2>1, <3>2, <3>4, <3>5, <3>6
  <2> QED
    BY <2>1, <2>2
<1> QED
  BY <1>8, <1>9 DEF C

\* ... leads to all there is to come to ...
LEMMA LeadsClosed ==
  ASSUME IsFiniteSet(Everything), NEW step \in [Everything -> SUBSET Everything], NEW from \in SUBSET Everything
  PROVE  /\ from \subseteq Leads(step, from) /\ Leads(step, from) \subseteq Everything
         /\ \A n \in Leads(step, from) : step[n] \subseteq Leads(step, from)
<1> DEFINE C == Cardinality(Everything)
           Rest(s) == UNION {step[n] : n \in s}
<1>1. PICK f : /\ f \in [0..C -> SUBSET Everything]
               /\ f[0] = from
               /\ \A k \in 1..C : f[k] = f[k - 1] \cup Rest(f[k - 1])
               /\ Leads(step, from) = f[C]
  BY LeadsSteps, ZenonT(40)
<1>2. C \in Nat
  BY FS_CardinalityType
<1>3. \A s \in SUBSET Everything : IsFiniteSet(s) /\ Cardinality(s) \in Nat
                                   /\ (Cardinality(s) >= C => s = Everything)
  <2> SUFFICES ASSUME NEW s \in SUBSET Everything
               PROVE  IsFiniteSet(s) /\ Cardinality(s) \in Nat /\ (Cardinality(s) >= C => s = Everything)
    OBVIOUS
  <2>1. IsFiniteSet(s) /\ Cardinality(s) <= C /\ (C = Cardinality(s) => s = Everything)
    BY FS_Subset
  <2>2. Cardinality(s) \in Nat
    BY <2>1, FS_CardinalityType
  <2> QED
    BY <1>2, <2>1, <2>2
<1>4. \A s, t \in SUBSET Everything : s \subseteq t /\ s # t => Cardinality(s) < Cardinality(t)
  <2> SUFFICES ASSUME NEW s \in SUBSET Everything, NEW t \in SUBSET Everything, s \subseteq t, s # t
               PROVE  Cardinality(s) < Cardinality(t)
    OBVIOUS
  <2>1. Cardinality(s) <= Cardinality(t) /\ Cardinality(t) # Cardinality(s)
    BY <1>3, FS_Subset
  <2> QED
    BY <1>3, <2>1
<1> HIDE DEF C, Rest
<1>5. \A k \in 1..C : k - 1 \in 0..C /\ k \in 0..C /\ f[k - 1] \subseteq f[k]
  BY <1>1, <1>2
<1> DEFINE Fixed(k) == \E j \in 1..k : f[j] = f[j - 1]
<1>6. \A k \in 0..C : Fixed(k) \/ Cardinality(f[k]) >= k
  <2> DEFINE T == {k \in 0..C : ~(Fixed(k) \/ Cardinality(f[k]) >= k)}
  <2> SUFFICES ASSUME T # {} PROVE FALSE
    OBVIOUS
  <2>1. PICK k \in T : \A j \in T : k <= j
    <3>1. T \in SUBSET Nat
      OBVIOUS
    <3> HIDE DEF T
    <3> QED
      BY <3>1, LeastNat
  <2>2. k \in 0..C /\ ~Fixed(k) /\ ~(Cardinality(f[k]) >= k)
    OBVIOUS
  <2>3. k # 0
    BY <1>1, <1>3, <2>2
  <2>4. k \in 1..C /\ k - 1 \in 0..C /\ ~(k <= k - 1) /\ k - 1 \in Int /\ k \in Int
    BY <1>2, <2>2, <2>3
  <2>5. Fixed(k - 1) \/ Cardinality(f[k - 1]) >= k - 1
    BY <2>1, <2>4
  <2>6. ~Fixed(k - 1)
    <3>1. \A j \in 1..k - 1 : j \in 1..k
      BY <2>4
    <3> QED
      BY <2>2, <3>1
  <2>7. f[k] # f[k - 1]
    BY <2>2, <2>4
  <2>8. Cardinality(f[k - 1]) < Cardinality(f[k])
    BY <1>1, <1>4, <1>5, <2>4, <2>7
  <2>9. Cardinality(f[k - 1]) \in Nat /\ Cardinality(f[k]) \in Nat
    BY <1>1, <1>3, <2>4
  <2> QED
    BY <2>2, <2>4, <2>5, <2>6, <2>8, <2>9
<1>7. Rest(f[C]) \subseteq f[C]
  <2>0. C \in 0..C
    BY <1>2
  <2>1. CASE Cardinality(f[C]) >= C
    <3>1. f[C] = Everything
      BY <1>1, <1>3, <2>0, <2>1
    <3> QED
      BY <3>1 DEF Rest
  <2>2. CASE Fixed(C)
    <3>1. PICK j \in 1..C : f[j] = f[j - 1]
      BY <2>2
    <3>2. Rest(f[j]) \subseteq f[j]
      BY <1>1, <3>1
    <3> DEFINE T == {k \in j..C : f[k] # f[j]}
    <3>3. T = {}
      <4> SUFFICES ASSUME T # {} PROVE FALSE
        OBVIOUS
      <4>1. PICK k \in T : \A i \in T : k <= i
        <5>1. T \in SUBSET Nat
          BY <1>2
        <5> HIDE DEF T
        <5> QED
          BY <5>1, LeastNat
      <4>2. k \in j..C /\ f[k] # f[j] /\ k # j
        OBVIOUS
      <4>3. k \in 1..C /\ k - 1 \in j..C /\ ~(k <= k - 1)
        BY <1>2, <4>2
      <4>4. f[k - 1] = f[j]
        BY <4>1, <4>3
      <4> QED
        BY <1>1, <3>2, <4>2, <4>3, <4>4, ZenonT(30)
    <3>4. C \in j..C
      BY <1>2
    <3>5. f[C] = f[j]
      BY <3>3, <3>4
    <3> QED
      BY <3>2, <3>5
  <2> QED
    BY <1>6, <2>0, <2>1, <2>2
<1>8. from \subseteq f[C]
  <2> DEFINE T == {k \in 0..C : ~(from \subseteq f[k])}
  <2>1. T = {}
    <3> SUFFICES ASSUME T # {} PROVE FALSE
      OBVIOUS
    <3>1. PICK k \in T : \A j \in T : k <= j
      <4>1. T \in SUBSET Nat
        OBVIOUS
      <4> HIDE DEF T
      <4> QED
        BY <4>1, LeastNat
    <3>2. k \in 0..C /\ ~(from \subseteq f[k])
      OBVIOUS
    <3>3. k # 0
      BY <1>1, <3>2
    <3>4. k \in 1..C /\ k - 1 \in 0..C /\ ~(k <= k - 1)
      BY <1>2, <3>2, <3>3
    <3>5. from \subseteq f[k - 1]
      BY <3>1, <3>4
    <3> QED
      BY <1>5, <3>2, <3>4, <3>5
  <2>2. C \in 0..C
    BY <1>2
  <2> QED
    BY <2>1, <2>2
<1>9. f[C] \in SUBSET Everything
  <2>1. C \in 0..C
    BY <1>2
  <2> QED
    BY <1>1, <2>1
<1> QED
  BY <1>1, <1>7, <1>8, <1>9 DEF Rest

\* ... and nowhere else.
LEMMA LeadsLeast ==
  ASSUME IsFiniteSet(Everything), NEW step \in [Everything -> SUBSET Everything], NEW from \in SUBSET Everything,
         NEW S, from \subseteq S, \A n \in S \cap Everything : step[n] \subseteq S
  PROVE  Leads(step, from) \subseteq S
<1> DEFINE C == Cardinality(Everything)
<1>1. PICK f : /\ f \in [0..C -> SUBSET Everything]
               /\ f[0] = from
               /\ \A k \in 1..C : f[k] = f[k - 1] \cup UNION {step[n] : n \in f[k - 1]}
               /\ Leads(step, from) = f[C]
  BY LeadsSteps
<1>2. C \in Nat
  BY FS_CardinalityType
<1> HIDE DEF C
<1> DEFINE T == {k \in 0..C : ~(f[k] \subseteq S)}
<1>3. T = {}
  <2> SUFFICES ASSUME T # {} PROVE FALSE
    OBVIOUS
  <2>1. PICK k \in T : \A j \in T : k <= j
    <3>1. T \in SUBSET Nat
      OBVIOUS
    <3> HIDE DEF T
    <3> QED
      BY <3>1, LeastNat
  <2>2. k \in 0..C /\ ~(f[k] \subseteq S)
    OBVIOUS
  <2>3. k # 0
    BY <1>1, <2>2
  <2>4. k \in 1..C /\ k - 1 \in 0..C /\ ~(k <= k - 1)
    BY <1>2, <2>2, <2>3
  <2>5. f[k - 1] \subseteq S /\ f[k - 1] \subseteq Everything
    BY <1>1, <2>1, <2>4
  <2>6. UNION {step[n] : n \in f[k - 1]} \subseteq S
    BY <2>5
  <2> QED
    BY <1>1, <2>2, <2>4, <2>5, <2>6
<1>4. C \in 0..C
  BY <1>2
<1> QED
  BY <1>1, <1>3, <1>4

-----------------------------------------------------------------------------
\* The source stays, and with it all that it says.
LEMMA SameSource ==
  ASSUME program' = program
  PROVE  /\ Modules' = Modules /\ Everything' = Everything /\ Roots' = Roots
         /\ (IsProgram(program))' <=> IsProgram(program)
         /\ \A m : Decls(m)' = Decls(m)
         /\ \A m, x : Target(m, x)' = Target(m, x) /\ Wide(m, x)' = Wide(m, x)
         /\ \A n : Needs(n)' = Needs(n) /\ Mentions(n)' = Mentions(n) /\ (OnCycle(n)' <=> OnCycle(n))
         /\ \A t, n : Owes(t, n)' <=> Owes(t, n)
         /\ \A m, x : Declares(m, x)' <=> Declares(m, x)
         /\ \A t : TaskOK(t)' <=> TaskOK(t)
         /\ \A t, s : Fits(t, s)' <=> Fits(t, s)
         /\ \A s, t : Nested(s, t)' <=> Nested(s, t)
<1>1. \A m : Decls(m)' = Decls(m)
  BY DEF Decls
<1>2. \A m, x : /\ Declares(m, x)' <=> Declares(m, x)
                /\ DeclOf(m, x)' = DeclOf(m, x)
                /\ Imports(m, x)' <=> Imports(m, x)
                /\ ImportOf(m, x)' = ImportOf(m, x)
                /\ VarPos(m, x)' = VarPos(m, x)
  BY DEF Declares, DeclOf, Decls, Imports, ImportOf, ImportsOf, VarPos
<1>3. \A m, x : Target(m, x)' = Target(m, x)
  BY <1>2 DEF Target
<1>4. \A m, x : Wide(m, x)' = Wide(m, x)
  BY <1>2 DEF Wide
<1>5. Modules' = Modules /\ Everything' = Everything /\ Roots' = Roots
  BY DEF Modules, Everything, Roots, Target, DeclOf, Declares, Decls, Imports, ImportOf, ImportsOf
<1>6. (IsProgram(program))' <=> IsProgram(program)
  BY DEF IsProgram
<1>7. \A n : KindOf(n)' = KindOf(n)
  BY <1>2 DEF KindOf
<1>8. \A n : Needs(n)' = Needs(n) /\ Mentions(n)' = Mentions(n)
  BY DEF Needs, Mentions, Target, Targets, SizeTarget, Through, UsesOf, KindOf, DeclOf, Decls, Declares,
         Imports, ImportOf, ImportsOf, VarPos
<1>9. \A n : OnCycle(n)' <=> OnCycle(n)
  BY DEF OnCycle, Leads, Everything, Modules, Needs, Target, SizeTarget, Through, UsesOf, KindOf, DeclOf, Decls,
         Declares, Imports, ImportOf, ImportsOf, VarPos
<1>10. \A t, n : Owes(t, n)' <=> Owes(t, n)
  BY <1>3 DEF Owes
<1>11. \A t : TaskOK(t)' <=> TaskOK(t)
  BY <1>2, <1>5 DEF TaskOK
<1>12. \A t : Demands(t)' = Demands(t)
  BY <1>3, <1>7 DEF Demands, Later
<1>13. \A t, s : Fits(t, s)' <=> Fits(t, s)
  BY <1>8, <1>12 DEF Fits, OwnerOf
<1>14. \A pos, s, t : Nests(pos, s, t)' <=> Nests(pos, s, t)
  BY <1>13, SMTT(30) DEF Nests, Closes, Entry
<1>15. \A s, t : Nested(s, t)' <=> Nested(s, t)
  BY <1>14 DEF Nested
<1> QED
  BY <1>1, <1>2, <1>3, <1>4, <1>5, <1>6, <1>8, <1>9, <1>10, <1>11, <1>13, <1>15

\* What the tasks are.
LEMMA TaskIs ==
  ASSUME NEW do, NEW m, NEW x
  PROVE  /\ Task(do, m, x).do = do /\ Task(do, m, x).m = m /\ Task(do, m, x).name = x /\ Task(do, m, x).sub = m
         /\ DOMAIN Task(do, m, x) = {"do", "m", "name", "via", "sub", "wide"}
BY DEF Task

\* What a task to take over a struct is.
LEMMA AdoptOfIs ==
  ASSUME NEW m, NEW sub, NEW wide, NEW via
  PROVE  /\ AdoptOf(m, sub, wide, via).do = "struct" /\ AdoptOf(m, sub, wide, via).m = m /\ AdoptOf(m, sub, wide, via).sub = sub
         /\ DOMAIN AdoptOf(m, sub, wide, via) = {"do", "m", "name", "via", "sub", "wide"}
BY DEF AdoptOf, Task

-----------------------------------------------------------------------------
\* Steps that leave to other tasks what the next one owed.

Hands(h) ==
  /\ Open \subseteq Open' \cup {h}
  /\ \A n \in Everything : Done(n) => Done(n)'
  /\ \A n \in Everything : Owes(h, n) => Due(n)'
  /\ \A n \in Everything : Owes(h, n) /\ Declares(h.m, h.name) => DueAtHome(n)'

\* What is due while the source stays.
LEMMA StillDue ==
  ASSUME program' = program, NEW h, Hands(h), NEW n \in Everything
  PROVE  (Due(n) => Due(n)') /\ (DueAtHome(n) => DueAtHome(n)')
<1>1. \A t : /\ Owes(t, n)' <=> Owes(t, n)
             /\ Declares(t.m, t.name)' <=> Declares(t.m, t.name)
  BY SameSource
<1>2. ASSUME Due(n) PROVE Due(n)'
  <2>1. CASE Done(n)
    BY <2>1 DEF Hands, Due
  <2>2. CASE ~Done(n)
    <3>1. PICK t \in Open : Owes(t, n)
      BY <1>2, <2>2 DEF Due
    <3>2. CASE t = h
      BY <3>1, <3>2 DEF Hands
    <3>3. CASE t # h
      <4>1. t \in Open' /\ Owes(t, n)'
        BY <1>1, <3>1, <3>3 DEF Hands
      <4> QED
        BY <4>1 DEF Due
    <3> QED
      BY <3>2, <3>3
  <2> QED
    BY <2>1, <2>2
<1>3. ASSUME DueAtHome(n) PROVE DueAtHome(n)'
  <2>1. CASE Done(n)
    BY <2>1 DEF Hands, DueAtHome
  <2>2. CASE ~Done(n)
    <3>1. PICK t \in Open : Owes(t, n) /\ Declares(t.m, t.name)
      BY <1>3, <2>2 DEF DueAtHome
    <3>2. CASE t = h
      BY <3>1, <3>2 DEF Hands
    <3>3. CASE t # h
      <4>1. t \in Open' /\ Owes(t, n)' /\ Declares(t.m, t.name)'
        BY <1>1, <3>1, <3>3 DEF Hands
      <4> QED
        BY <4>1 DEF DueAtHome
    <3> QED
      BY <3>2, <3>3
  <2> QED
    BY <2>1, <2>2
<1> QED
  BY <1>2, <1>3

\* What they begin, take over and are about to take over is asked for.
LEMMA StillRemembered ==
  ASSUME program' = program, IsProgram(program), program # << >>, NothingForgotten, NEW h, Hands(h),
         \A t \in Open : t.m \in Modules, \A t \in Open' : t.m \in Modules,
         \A n \in Everything : (an[n[1]].state[n[2]] # "pending")' =>
            an[n[1]].state[n[2]] # "pending" \/ \A t \in Mentions(n) : Due(t)',
         \A m \in Modules : \A x \in an'[m].adopted :
            x \in an[m].adopted \/ \A n \in Target(m, x) : DueAtHome(n)',
         \A t \in Open' : t.do \in {"copy", "bind"} =>
            t \in Open \/ \A n \in Target(t.m, t.name) : DueAtHome(n)'
  PROVE  NothingForgotten'
<1>1. /\ Modules' = Modules /\ Everything' = Everything /\ Roots' = Roots
      /\ \A m, x : Target(m, x)' = Target(m, x)
      /\ \A n : Mentions(n)' = Mentions(n)
  BY SameSource
<1>2. Roots \subseteq Everything
  BY RootsIn
<1>3. \A n \in Everything : Mentions(n) \subseteq Everything
  BY UsesIn
<1>4. \A m \in Modules : \A x : Target(m, x) \subseteq Everything
  BY ProgramFacts
<1>5. \A n \in Everything : (Due(n) => Due(n)') /\ (DueAtHome(n) => DueAtHome(n)')
  BY StillDue
<1>6. \A n \in Roots : Due(n)'
  BY <1>2, <1>5 DEF NothingForgotten
<1>7. ASSUME NEW n \in Everything, (an[n[1]].state[n[2]] # "pending")'
      PROVE  \A t \in Mentions(n) : Due(t)'
  BY <1>3, <1>5, <1>7 DEF NothingForgotten
<1>8. ASSUME NEW m \in Modules, NEW x \in an'[m].adopted
      PROVE  \A n \in Target(m, x) : DueAtHome(n)'
  BY <1>4, <1>5 DEF NothingForgotten
<1>9. ASSUME NEW t \in Open', t.do \in {"copy", "bind"}
      PROVE  \A n \in Target(t.m, t.name) : DueAtHome(n)'
  BY <1>4, <1>5, <1>9 DEF NothingForgotten
<1> QED
  BY <1>1, <1>6, <1>7, <1>8, <1>9 DEF NothingForgotten

-----------------------------------------------------------------------------
\* Steps that put tasks in the place of the next one.

Waiting == {"ensure", "adopt", "pointee"}
Replaces(new) ==
  /\ InOrder(new) /\ todo' = new \o Tail(todo)
  /\ UNCHANGED <<program, resolving, outcome>>
  /\ \A t \in ToSet(new) : TaskOK(t) /\ t.do \notin Ends /\ Fits(t, resolving)
  /\ \/ settled' = settled
     \/ resolving # << >> /\ \E t : TaskOK(t) /\ t.do \in Waiting /\ settled' = Append(settled, t)
  /\ DOMAIN an' = Modules
  /\ \A m \in Modules : DOMAIN an'[m] = Fields /\ an'[m].state = an[m].state
  /\ OriginsOK' /\ StructsOK'
  /\ Now.do = "settle" => settled = << >> \/ resolving # << >>

\* Of what is taken over, a step forgets no declaration.
Remembers ==
  /\ \A m \in Modules : \A x \in an'[m].adopted : x \in an[m].adopted \/ \A n \in Target(m, x) : DueAtHome(n)'
  /\ \A t \in Open' : t.do \in {"copy", "bind"} => t \in Open \/ \A n \in Target(t.m, t.name) : DueAtHome(n)'

\* What is known while the analyzers work.
LEMMA Working ==
  ASSUME Inductive, outcome = "working"
  PROVE  /\ IsProgram(program) /\ program # << >> /\ Shapes
         /\ Nested(resolving, todo) /\ StackOK /\ NothingForgotten /\ WillSettle
         /\ \A t \in Open : TaskOK(t)
         /\ \A n \in Everything : n[1] \in Modules
BY ProgramFacts DEF Inductive, Shapes

\* The task that is next.
LEMMA Next1 ==
  ASSUME Inductive, outcome = "working", todo # << >>
  PROVE  /\ Now = todo[1] /\ Now \in Open /\ TaskOK(Now) /\ Now.m \in Modules /\ me = an[Now.m]
         /\ InOrder(Tail(todo)) /\ ToSet(todo) = {Now} \cup ToSet(Tail(todo))
         /\ Now.do \notin Ends => Fits(Now, resolving)
<1>1. Now = todo[1] /\ Now \in ToSet(todo) /\ InOrder(Tail(todo)) /\ ToSet(todo) = {Now} \cup ToSet(Tail(todo))
  BY HeadAndTail DEF Inductive, Shapes, Now
<1>2. Now \in Open
  BY <1>1 DEF Open
<1>3. TaskOK(Now)
  BY <1>2, Working
<1>4. Now.do \notin Ends => Fits(Now, resolving)
  BY <1>1, Working, Dropped DEF Shapes
<1> QED
  BY <1>1, <1>2, <1>3, <1>4 DEF TaskOK, me

\* What is being resolved stays well nested when it and the states of declarations
\* stay.
LEMMA StackSame ==
  ASSUME program' = program, IsProgram(program), StackOK, resolving' = resolving,
         \A m \in Modules : an'[m].state = an[m].state
  PROVE  StackOK'
<1>1. Everything' = Everything /\ \A n : Needs(n)' = Needs(n)
  BY SameSource
<1>2. \A n \in Everything : n[1] \in Modules /\ n = <<n[1], n[2]>>
  BY ProgramFacts
<1>3. \A m, x : <<m, x>> \in Everything => m \in Modules
  BY <1>2
<1> QED
  BY <1>1, <1>2, <1>3, ZenonT(20) DEF StackOK, OwnerOf

\* Such a step keeps the invariant when it hands on what was owed.
LEMMA Replaced ==
  ASSUME Inductive, outcome = "working", todo # << >>, Now.do \notin Ends,
         NEW new, Replaces(new), Hands(Now), Remembers
  PROVE  Inductive'
<1>1. /\ program' = program /\ resolving' = resolving /\ outcome' = "working"
      /\ IsProgram(program) /\ program # << >>
  BY Working DEF Replaces
<1>2. InOrder(todo') /\ ToSet(todo') = ToSet(new) \cup ToSet(Tail(todo))
  BY Next1, Joined DEF Replaces
<1>3. /\ InOrder(settled')
      /\ settled' = settled \/ \E t : TaskOK(t) /\ t.do \in Waiting /\ ToSet(settled') = ToSet(settled) \cup {t}
  <2>1. InOrder(settled)
    BY Working DEF Shapes
  <2>2. CASE settled' = settled
    BY <2>1, <2>2
  <2>3. ASSUME NEW t, TaskOK(t), t.do \in Waiting, settled' = Append(settled, t)
        PROVE  InOrder(settled') /\ ToSet(settled') = ToSet(settled) \cup {t}
    BY <2>1, <2>3, Appended
  <2> QED
    BY <2>2, <2>3 DEF Replaces
<1>4. \A t \in Open' : t \in Open \/ TaskOK(t)
  BY <1>2, <1>3, Next1 DEF Open, Replaces
<1>5. \A t \in Open' : TaskOK(t)
  BY <1>4, Working
<1>6. Shapes'
  <2>1. (\A t \in Open : TaskOK(t))'
    BY <1>1, <1>5, SameSource
  <2>2. \A t \in ToSet(settled') : t.do \in Waiting
    BY <1>3, Working DEF Shapes, Waiting
  <2>3. (program = << >> \/ IsProgram(program))'
    BY <1>1, SameSource
  <2>4. DOMAIN an' = Modules' /\ \A m \in Modules' : DOMAIN an'[m] = Fields
    BY <1>1, SameSource DEF Replaces
  <2>5. (\A m \in Modules : an[m].state \in [{d.name : d \in Decls(m)} -> {"pending", "resolving", "done"}])'
    <3>1. \A m \in Modules : an[m].state \in [{d.name : d \in Decls(m)} -> {"pending", "resolving", "done"}]
      BY Working DEF Shapes
    <3>2. Modules' = Modules /\ \A m : Decls(m)' = Decls(m)
      BY <1>1, SameSource
    <3> QED
      BY <3>1, <3>2 DEF Replaces
  <2>6. InOrder(resolving')
    BY <1>1, Working DEF Shapes
  <2> QED
    BY <1>1, <1>2, <1>3, <2>1, <2>2, <2>3, <2>4, <2>5, <2>6 DEF Shapes, Waiting, Replaces
<1>7. Nested(resolving, todo)'
  <2>1. Nested(resolving, Tail(todo))
    BY Working, Next1, Dropped DEF Shapes
  <2>2. Nested(resolving, new \o Tail(todo))
    <3>1. InOrder(resolving)
      BY Working DEF Shapes
    <3> QED
      BY <2>1, <3>1, Next1, PutThere DEF Replaces
  <2>3. Nested(resolving', todo')
    BY <1>1, <2>2 DEF Replaces
  <2> QED
    BY <1>1, <2>3, SameSource
<1>8. StackOK'
  BY <1>1, Working, StackSame DEF Replaces
<1>9. NothingForgotten'
  <2>1. \A t \in Open : t.m \in Modules
    BY Working DEF TaskOK
  <2>2. \A t \in Open' : t.m \in Modules
    BY <1>5 DEF TaskOK
  <2>3. \A n \in Everything : (an[n[1]].state[n[2]] # "pending")' => an[n[1]].state[n[2]] # "pending"
    BY Working DEF Replaces
  <2> QED
    BY <1>1, <2>1, <2>2, <2>3, Working, StillRemembered DEF Remembers
<1>10. WillSettle'
  <2>1. CASE resolving # << >>
    BY <1>1, <2>1 DEF WillSettle
  <2>2. CASE resolving = << >>
    <3>1. settled' = settled
      BY <2>2 DEF Replaces
    <3>2. CASE settled # << >>
      <4>1. PICK t \in ToSet(todo) : t.do = "settle"
        BY <2>2, <3>2, Working DEF WillSettle
      <4>2. t # Now
        BY <2>2, <3>2, <4>1 DEF Replaces
      <4>3. t \in ToSet(todo')
        BY <1>2, <4>1, <4>2, Next1
      <4> QED
        BY <4>1, <4>3 DEF WillSettle
    <3> QED
      BY <3>1, <3>2 DEF WillSettle
  <2> QED
    BY <2>1, <2>2
<1> QED
  BY <1>1, <1>6, <1>7, <1>8, <1>9, <1>10 DEF Inductive, CircularHasCause

\* What the analyzers know of states stays, and what is taken over is the next task's.
Keeps ==
  /\ DOMAIN an' = Modules
  /\ \A m \in Modules :
       /\ DOMAIN an'[m] = Fields /\ an'[m].state = an[m].state
       /\ \A x \in an'[m].adopted : x \in an[m].adopted \/ (m = Now.m /\ x = Now.name /\ Now.do = "bind")
  /\ OriginsOK' /\ StructsOK'

\* A step that changes no analyzer forgets nothing.
LEMMA KeepsAll == ASSUME Inductive, outcome = "working", program' = program, an' = an PROVE Keeps
<1>1. OriginsOK /\ StructsOK /\ DOMAIN an = Modules /\ \A m \in Modules : DOMAIN an[m] = Fields
  BY Working DEF Shapes
<1>2. Modules' = Modules /\ Everything' = Everything /\ \A m, x : Wide(m, x)' = Wide(m, x)
  BY SameSource
<1> QED
  BY <1>1, <1>2 DEF Keeps, OriginsOK, StructsOK

\* Such a step, where what was owed is seen to at home, by another task if it is
\* not done, or owed by a task that is put there or waits.
SeenTo(n, new) ==
  Done(n) \/ \E t \in (Open \ {Now}) \cup ToSet(new) : Owes(t, n) /\ Declares(t.m, t.name)
Owed(n, new) ==
  \E t \in ToSet(new) \cup ToSet(settled') :
    Owes(t, n) /\ (Declares(Now.m, Now.name) => Declares(t.m, t.name))

\* Such a step, where what was owed is seen to at home, by another task if it is not
\* done, or owed by a task that is put there or waits.
LEMMA Passed ==
  ASSUME Inductive, outcome = "working", todo # << >>, Now.do \notin Ends, NEW new, InOrder(new), Keeps,
         todo' = new \o Tail(todo), UNCHANGED <<program, resolving, outcome>>,
         \A t \in ToSet(new) : TaskOK(t) /\ t.do \notin Ends /\ Fits(t, resolving),
         \/ settled' = settled
         \/ resolving # << >> /\ \E t : TaskOK(t) /\ t.do \in Waiting /\ settled' = Append(settled, t),
         Now.do = "settle" => settled = << >> \/ resolving # << >>,
         \A n \in Everything : Owes(Now, n) => SeenTo(n, new) \/ Owed(n, new),
         \A t \in ToSet(new) : t.do \in {"copy", "bind"} => \A n \in Target(t.m, t.name) : SeenTo(n, new)
  PROVE  Inductive'
<1>1. Replaces(new)
  BY DEF Replaces, Keeps
<1>2. InOrder(settled) /\ InOrder(Tail(todo)) /\ ToSet(todo) = {Now} \cup ToSet(Tail(todo))
  BY Working, Next1 DEF Shapes
<1>3. ToSet(todo') = ToSet(new) \cup ToSet(Tail(todo))
  BY <1>2, Joined
<1>4. settled' = settled \/ \E t : t.do \in Waiting /\ ToSet(settled') = ToSet(settled) \cup {t}
  <2>1. ASSUME NEW t, settled' = Append(settled, t) PROVE ToSet(settled') = ToSet(settled) \cup {t}
    BY <1>2, <2>1, Appended
  <2> QED
    BY <2>1
<1>5. Open \subseteq Open' \cup {Now}
  BY <1>2, <1>3, <1>4 DEF Open
<1>6. ToSet(new) \cup ToSet(settled') \subseteq Open'
  BY <1>3 DEF Open
<1>7. \A t, n : /\ Owes(t, n)' <=> Owes(t, n)
                /\ Declares(t.m, t.name)' <=> Declares(t.m, t.name)
  BY SameSource
<1>8. \A n \in Everything : Done(n) => Done(n)'
  BY Working DEF Done, Keeps
<1>11. ASSUME NEW n \in Everything, SeenTo(n, new) PROVE DueAtHome(n)'
  <2>1. CASE Done(n)
    BY <1>8, <2>1 DEF DueAtHome
  <2>2. CASE ~Done(n)
    <3>1. PICK t \in (Open \ {Now}) \cup ToSet(new) : Owes(t, n) /\ Declares(t.m, t.name)
      BY <1>11, <2>2 DEF SeenTo
    <3>2. t \in Open' /\ Owes(t, n)' /\ Declares(t.m, t.name)'
      BY <1>5, <1>6, <1>7, <3>1
    <3> QED
      BY <3>2 DEF DueAtHome
  <2> QED
    BY <2>1, <2>2
<1>9. Hands(Now)
  <2>1. ASSUME NEW n \in Everything PROVE DueAtHome(n)' => Due(n)'
    BY DEF Due, DueAtHome
  <2>2. ASSUME NEW n \in Everything, Owes(Now, n), ~SeenTo(n, new)
        PROVE  Due(n)' /\ (Declares(Now.m, Now.name) => DueAtHome(n)')
    <3>1. PICK t \in ToSet(new) \cup ToSet(settled') :
            Owes(t, n) /\ (Declares(Now.m, Now.name) => Declares(t.m, t.name))
      BY <2>2 DEF Owed
    <3>2. t \in Open' /\ Owes(t, n)' /\ (Declares(Now.m, Now.name) => Declares(t.m, t.name)')
      BY <1>6, <1>7, <3>1
    <3> QED
      BY <3>2 DEF Due, DueAtHome
  <2> QED
    BY <1>5, <1>8, <1>11, <2>1, <2>2 DEF Hands
<1>10. Remembers
  <2>1. \A t \in Open' : t \in Open \/ t \in ToSet(new) \/ t.do \in Waiting
    BY <1>2, <1>3, <1>4 DEF Open
  <2>2. \A t \in ToSet(new) : Target(t.m, t.name) \subseteq Everything
    BY Working, ProgramFacts DEF TaskOK
  <2>3. ASSUME Now.do = "bind", NEW n \in Target(Now.m, Now.name) PROVE DueAtHome(n)'
    <3>1. DueAtHome(n) /\ n \in Everything
      BY <2>3, Next1, Working, ProgramFacts DEF NothingForgotten
    <3>2. SeenTo(n, new)
      BY <2>3, <3>1 DEF DueAtHome, SeenTo, Owes
    <3> QED
      BY <1>11, <3>1, <3>2
  <2>4. \A t \in Open' : t.do \in {"copy", "bind"} => t \in Open \/ \A n \in Target(t.m, t.name) : DueAtHome(n)'
    BY <1>11, <2>1, <2>2 DEF Waiting
  <2>5. \A m \in Modules : \A x \in an'[m].adopted : x \in an[m].adopted \/ \A n \in Target(m, x) : DueAtHome(n)'
    BY <2>3 DEF Keeps
  <2> QED
    BY <2>4, <2>5 DEF Remembers
<1> QED
  BY <1>1, <1>9, <1>10, Replaced

-----------------------------------------------------------------------------
\* The steps of ensureTypeName.

\* What is being resolved has a task that ends it.
LEMMA HasItsEnd ==
  ASSUME NEW stack, NEW tasks, InOrder(tasks), Nested(stack, tasks), NEW i \in 1..Len(stack)
  PROVE  \E t \in ToSet(tasks) : Closes(stack[i], t)
<1>1. PICK pos \in [1..Len(stack) -> 1..Len(tasks)] : Nests(pos, stack, tasks)
  BY DEF Nested
<1>2. pos[i] \in 1..Len(tasks) /\ Closes(stack[i], tasks[pos[i]])
  BY <1>1 DEF Nests
<1>3. tasks[pos[i]] \in ToSet(tasks)
  BY <1>2 DEF InOrder, ToSet
<1> QED
  BY <1>2, <1>3

\* A name of the module's own, done or being resolved.
LEMMA EnsureHereStep == ASSUME Inductive, EnsureHere PROVE Inductive'
<1> DEFINE t == [Now EXCEPT !.via = FALSE]
           r == Task("resolve", Now.m, Now.name)
<1>1. /\ outcome = "working" /\ todo # << >> /\ Now.do = "ensure" /\ Declares(Now.m, Now.name)
      /\ UNCHANGED <<program, an, resolving, outcome>>
  BY DEF EnsureHere, Doing
<1>2. Keeps /\ TaskOK(Now) /\ Fits(Now, resolving) /\ Now.m \in Modules
  BY <1>1, KeepsAll, Next1 DEF Ends
<1>3. /\ TaskOK(t) /\ t.do = "ensure" /\ \A n : Owes(t, n) <=> Owes(Now, n)
      /\ Declares(t.m, t.name)
  BY <1>1, <1>2 DEF TaskOK, Owes
<1>4. /\ TaskOK(r) /\ r.do = "resolve" /\ \A n : Owes(Now, n) => Owes(r, n)
      /\ Declares(r.m, r.name) /\ Demands(r) = Target(Now.m, Now.name)
  <2>1. r.do = "resolve" /\ r.m = Now.m /\ r.name = Now.name /\ r.sub = Now.m /\ DOMAIN r = {"do", "m", "name", "via", "sub", "wide"}
    BY TaskIs
  <2> HIDE DEF r
  <2> QED
    BY <1>1, <1>2, <2>1 DEF TaskOK, Owes, Demands, Later
<1> HIDE DEF t, r
<1>5. CASE Now.via /\ DeclOf(Now.m, Now.name).kind = "struct"
  <2>1. WhenSettled(t)
    BY <1>5 DEF EnsureHere, t
  <2>2. CASE resolving = << >>
    <3>1. todo' = <<t>> \o Tail(todo) /\ settled' = settled
      BY <2>1, <2>2 DEF WhenSettled, Do
    <3>2. \A n \in Everything : Owes(Now, n) => Owed(n, <<t>>)
      BY <1>3, OneOf DEF Owed
    <3>3. \A u \in ToSet(<<t>>) : TaskOK(u) /\ u.do = "ensure" /\ Fits(u, resolving)
      BY <1>3, <2>2, OneOf DEF Fits
    <3> QED
      BY <1>1, <1>2, <3>1, <3>2, <3>3, OneOf, Passed DEF Ends
  <2>3. CASE resolving # << >>
    <3>1. todo' = << >> \o Tail(todo) /\ settled' = Append(settled, t)
      BY <2>1, <2>3 DEF WhenSettled, Do
    <3>2. ToSet(settled') = ToSet(settled) \cup {t}
      BY <1>1, <3>1, Working, Appended DEF Shapes
    <3>3. \A n \in Everything : Owes(Now, n) => Owed(n, << >>)
      BY <1>3, <3>2 DEF Owed
    <3> QED
      BY <1>1, <1>2, <1>3, <2>3, <3>1, <3>3, NoneOf, Passed DEF Ends, Waiting
  <2> QED
    BY <2>2, <2>3
<1>6. CASE ~(Now.via /\ DeclOf(Now.m, Now.name).kind = "struct")
  <2>1. todo' = <<r>> \o Tail(todo) /\ settled' = settled
    BY <1>6 DEF EnsureHere, Do, r
  <2>2. Demands(Now) = Target(Now.m, Now.name)
    <3>1. <<Now.m, Now.name>> \in Target(Now.m, Now.name)
      BY <1>1 DEF Target
    <3>2. ~Later(Now)
      BY <1>6, <3>1 DEF Later, KindOf
    <3> QED
      BY <1>1, <3>2 DEF Demands
  <2>3. Fits(r, resolving)
    BY <1>2, <1>4, <2>2 DEF Fits, Unhurried
  <2>4. \A n \in Everything : Owes(Now, n) => Owed(n, <<r>>)
    BY <1>4, OneOf DEF Owed
  <2>5. \A u \in ToSet(<<r>>) : TaskOK(u) /\ u.do = "resolve" /\ Fits(u, resolving)
    BY <1>4, <2>3, OneOf
  <2> QED
    BY <1>1, <1>2, <2>1, <2>4, <2>5, OneOf, Passed DEF Ends
<1> QED
  BY <1>5, <1>6

\* A name that an import declares.
LEMMA EnsureImportStep == ASSUME Inductive, EnsureImport PROVE Inductive'
<1> DEFINE i == ImportOf(Now.m, Now.name)
           a == Task("adopt", Now.m, Now.name)
           later == Now.via /\ Imported(Now.m, Now.name).kind = "struct"
<1>1. /\ outcome = "working" /\ todo # << >> /\ Now.do = "ensure"
      /\ ~Declares(Now.m, Now.name) /\ Imports(Now.m, Now.name)
      /\ UNCHANGED <<program, resolving, outcome>>
  BY DEF EnsureImport, Doing
<1>2. TaskOK(Now) /\ Fits(Now, resolving) /\ Now.m \in Modules
  BY <1>1, Next1 DEF Ends
<1>3. Keeps
  <2>1. CASE an' = an
    BY <1>1, <2>1, KeepsAll
  <2>2. CASE an' = [an EXCEPT ![Now.m].types = With(@, i.as, Type(<< >>, Global(i.name)))]
    <3>1. OriginsOK /\ StructsOK /\ DOMAIN an = Modules /\ \A m \in Modules : DOMAIN an[m] = Fields
      BY <1>1, Working DEF Shapes
    <3>2. Modules' = Modules /\ Everything' = Everything /\ \A m, x : Wide(m, x)' = Wide(m, x)
      BY <1>1, SameSource
    <3>3. \A m \in Modules : /\ DOMAIN an'[m] = Fields
                             /\ \A f \in Fields \ {"types"} : an'[m][f] = an[m][f]
      BY <1>2, <2>2, <3>1
    <3>4. \A m \in Modules : /\ an'[m].state = an[m].state /\ an'[m].adopted = an[m].adopted
                             /\ an'[m].origins = an[m].origins /\ an'[m].structs = an[m].structs
      BY <3>3 DEF Fields
    <3>5. DOMAIN an' = Modules
      BY <2>2, <3>1
    <3> QED
      BY <3>1, <3>2, <3>3, <3>4, <3>5 DEF Keeps, OriginsOK, StructsOK
  <2> QED
    BY <2>1, <2>2 DEF EnsureImport
<1>4. /\ TaskOK(a) /\ a.do = "adopt" /\ \A n : Owes(Now, n) => Owes(a, n)
      /\ Demands(a) = Target(Now.m, Now.name)
  <2>1. a.do = "adopt" /\ a.m = Now.m /\ a.name = Now.name /\ a.sub = Now.m /\ DOMAIN a = {"do", "m", "name", "via", "sub", "wide"}
    BY TaskIs
  <2> HIDE DEF a
  <2> QED
    BY <1>1, <1>2, <2>1 DEF TaskOK, Owes, Demands, Later
<1>5. later \/ Demands(Now) = Target(Now.m, Now.name)
  <2> SUFFICES ASSUME ~later PROVE Demands(Now) = Target(Now.m, Now.name)
    OBVIOUS
  <2>1. <<i.of, i.name>> \in Target(Now.m, Now.name)
    BY <1>1 DEF Target
  <2>2. ~Later(Now)
    BY <2>1 DEF Later, KindOf, Imported
  <2> QED
    BY <1>1, <2>2 DEF Demands
<1> HIDE DEF a
<1>6. CASE later
  <2>1. WhenSettled(a)
    BY <1>6 DEF EnsureImport, a
  <2>2. CASE resolving = << >>
    <3>1. todo' = <<a>> \o Tail(todo) /\ settled' = settled
      BY <2>1, <2>2 DEF WhenSettled, Do
    <3>2. \A n \in Everything : Owes(Now, n) => Owed(n, <<a>>)
      BY <1>1, <1>4, OneOf DEF Owed
    <3>3. \A u \in ToSet(<<a>>) : TaskOK(u) /\ u.do = "adopt" /\ Fits(u, resolving)
      BY <1>4, <2>2, OneOf DEF Fits
    <3> QED
      BY <1>1, <1>3, <3>1, <3>2, <3>3, OneOf, Passed DEF Ends
  <2>3. CASE resolving # << >>
    <3>1. todo' = << >> \o Tail(todo) /\ settled' = Append(settled, a)
      BY <2>1, <2>3 DEF WhenSettled, Do
    <3>2. ToSet(settled') = ToSet(settled) \cup {a}
      BY <1>1, <3>1, Working, Appended DEF Shapes
    <3>3. \A n \in Everything : Owes(Now, n) => Owed(n, << >>)
      BY <1>1, <1>4, <3>2 DEF Owed
    <3> QED
      BY <1>1, <1>3, <1>4, <2>3, <3>1, <3>3, NoneOf, Passed DEF Ends, Waiting
  <2> QED
    BY <2>2, <2>3
<1>7. CASE ~later
  <2>1. todo' = <<a>> \o Tail(todo) /\ settled' = settled
    BY <1>7 DEF EnsureImport, Do, a
  <2>2. Fits(a, resolving)
    BY <1>2, <1>4, <1>5, <1>7 DEF Fits, Unhurried
  <2>3. \A n \in Everything : Owes(Now, n) => Owed(n, <<a>>)
    BY <1>1, <1>4, OneOf DEF Owed
  <2>4. \A u \in ToSet(<<a>>) : TaskOK(u) /\ u.do = "adopt" /\ Fits(u, resolving)
    BY <1>4, <2>2, OneOf
  <2> QED
    BY <1>1, <1>3, <2>1, <2>3, <2>4, OneOf, Passed DEF Ends
<1> QED
  BY <1>6, <1>7

\* A name that another module is asked for.
LEMMA EnsureOtherStep == ASSUME Inductive, EnsureOther PROVE Inductive'
<1>1. /\ outcome = "working" /\ todo # << >> /\ Now.do = "ensure" /\ ~Declares(Now.m, Now.name)
      /\ Imports(Now.m, Now.name) => Now.name \in me.adopted
      /\ todo' = << >> \o Tail(todo) /\ settled' = settled
      /\ UNCHANGED <<program, an, resolving, outcome>>
  BY DEF EnsureOther, Doing, Do
<1>2. Keeps /\ Now.m \in Modules /\ me = an[Now.m]
  BY <1>1, KeepsAll, Next1
<1>3. ASSUME NEW n \in Everything, Owes(Now, n) PROVE SeenTo(n, << >>)
  <2>1. n \in Target(Now.m, Now.name) /\ Now.name \in an[Now.m].adopted
    BY <1>1, <1>2, <1>3 DEF Owes, Target
  <2>2. DueAtHome(n)
    BY <1>1, <1>2, <2>1, Working DEF NothingForgotten
  <2> QED
    BY <1>1, <2>2 DEF DueAtHome, SeenTo
<1> QED
  BY <1>1, <1>2, <1>3, NoneOf, Passed DEF Ends

\* A struct of the module's own.
LEMMA EnsureStructStep == ASSUME Inductive, EnsureStruct PROVE Inductive'
<1>1. /\ outcome = "working" /\ todo # << >> /\ Now.do = "ensure struct" /\ settled' = settled
      /\ UNCHANGED <<program, an, resolving, outcome>>
      /\ (\E x : Do(<<Ensure(Now.m, x, FALSE)>>)) \/ Do(<< >>)
  BY DEF EnsureStruct, Doing
<1>2. Keeps /\ Now.m \in Modules /\ Fits(Now, resolving)
  BY <1>1, KeepsAll, Next1 DEF Ends
<1>3. resolving = << >>
  BY <1>1, <1>2 DEF Fits, Unhurried
<1>4. \A n : ~Owes(Now, n)
  BY <1>1 DEF Owes
<1>5. CASE todo' = << >> \o Tail(todo)
  BY <1>1, <1>2, <1>4, <1>5, NoneOf, Passed DEF Ends
<1>6. ASSUME NEW x, todo' = <<Ensure(Now.m, x, FALSE)>> \o Tail(todo) PROVE Inductive'
  <2> DEFINE e == Ensure(Now.m, x, FALSE)
  <2>1. TaskOK(e) /\ e.do = "ensure" /\ Fits(e, resolving)
    <3>1. e.do = "ensure" /\ e.m = Now.m /\ e.sub = Now.m /\ DOMAIN e = {"do", "m", "name", "via", "sub", "wide"}
      BY DEF Ensure, Task
    <3> HIDE DEF e
    <3> QED
      BY <1>2, <1>3, <3>1 DEF TaskOK, Fits
  <2> HIDE DEF e
  <2>2. \A u \in ToSet(<<e>>) : TaskOK(u) /\ u.do = "ensure" /\ Fits(u, resolving)
    BY <2>1, OneOf
  <2>3. todo' = <<e>> \o Tail(todo)
    BY <1>6 DEF e
  <2> QED
    BY <1>1, <1>2, <1>4, <2>2, <2>3, OneOf, Passed DEF Ends
<1> QED
  BY <1>1, <1>5, <1>6 DEF Do

-----------------------------------------------------------------------------
\* The steps that leave what is being resolved as it is.

\* What is being resolved is so for a task that ends it.
LEMMA Ending ==
  ASSUME Inductive, outcome = "working", NEW n \in Everything, an[n[1]].state[n[2]] = "resolving"
  PROVE  /\ \E i \in 1..Len(resolving) : resolving[i] = Entry(n[1], n[2], FALSE)
         /\ \E t \in ToSet(todo) : t.do = "define" /\ t.m = n[1] /\ t.name = n[2]
<1>1. InOrder(resolving) /\ InOrder(todo) /\ Nested(resolving, todo) /\ StackOK
  BY Working DEF Shapes
<1>2. DOMAIN resolving = 1..Len(resolving)
  BY <1>1 DEF InOrder
<1>3. PICK i \in 1..Len(resolving) : resolving[i] = Entry(n[1], n[2], FALSE)
  BY <1>1, <1>2 DEF StackOK
<1>4. PICK t \in ToSet(todo) : Closes(resolving[i], t)
  BY <1>1, HasItsEnd
<1>5. t.do \in {"define", "var"} /\ Entry(n[1], n[2], FALSE) = Entry(t.m, t.name, t.do = "var")
  BY <1>3, <1>4 DEF Closes, Ends
<1>6. t.do # "var" /\ t.m = n[1] /\ t.name = n[2]
  BY <1>5 DEF Entry
<1> QED
  BY <1>3, <1>5, <1>6

\* A waiting task is begun.
LEMMA AgainStep == ASSUME Inductive, Again PROVE Inductive'
<1>1. /\ outcome = "working" /\ todo # << >> /\ Now.do = "resolve"
      /\ me.state[Now.name] \in {"done", "resolving"}
      /\ todo' = << >> \o Tail(todo) /\ settled' = settled
      /\ UNCHANGED <<program, an, resolving, outcome>>
  BY DEF Again, Doing, Do
<1>2. Keeps /\ TaskOK(Now) /\ me = an[Now.m]
  BY <1>1, KeepsAll, Next1
<1>3. Declares(Now.m, Now.name) /\ <<Now.m, Now.name>> \in Everything
  BY <1>1, <1>2, Working, ProgramFacts DEF TaskOK
<1>4. ASSUME NEW n \in Everything, Owes(Now, n) PROVE SeenTo(n, << >>)
  <2>1. n = <<Now.m, Now.name>>
    BY <1>3, <1>4 DEF Owes, Target
  <2>2. CASE me.state[Now.name] = "done"
    BY <1>2, <2>1, <2>2 DEF SeenTo, Done
  <2>3. CASE me.state[Now.name] = "resolving"
    <3>1. an[n[1]].state[n[2]] = "resolving"
      BY <1>2, <2>1, <2>3
    <3>2. PICK t \in ToSet(todo) : t.do = "define" /\ t.m = n[1] /\ t.name = n[2]
      BY <1>1, <3>1, Ending
    <3>3. t \in Open \ {Now} /\ Declares(t.m, t.name) /\ Owes(t, n)
      BY <1>1, <1>3, <2>1, <3>2 DEF Open, Owes, Target
    <3> QED
      BY <3>3 DEF SeenTo
  <2> QED
    BY <1>1, <2>2, <2>3
<1> QED
  BY <1>1, <1>2, <1>4, NoneOf, Passed DEF Ends

\* A declaration is taken over from the module it is in.
LEMMA AdoptStep == ASSUME Inductive, Adopt PROVE Inductive'
<1> DEFINE i == ImportOf(Now.m, Now.name)
           e == Ensure(i.of, i.name, FALSE)
           c == Task("copy", Now.m, Now.name)
<1>1. /\ outcome = "working" /\ todo # << >> /\ Now.do = "adopt"
      /\ settled' = settled /\ UNCHANGED <<program, an, resolving, outcome>>
      /\ todo' = (IF Now.name \in me.adopted THEN << >> ELSE <<e, c>>) \o Tail(todo)
  BY DEF Adopt, Doing, Do
<1>2. Keeps /\ TaskOK(Now) /\ Now.m \in Modules /\ me = an[Now.m] /\ Fits(Now, resolving)
  BY <1>1, KeepsAll, Next1 DEF Ends
<1>3. Imports(Now.m, Now.name) /\ ~Declares(Now.m, Now.name)
  BY <1>1, <1>2 DEF TaskOK
<1>4. i.of \in Modules /\ Declares(i.of, i.name)
  BY <1>1, <1>2, <1>3, Working, ProgramFacts
<1>5. Target(Now.m, Now.name) = {<<i.of, i.name>>} /\ Target(i.of, i.name) = {<<i.of, i.name>>}
  BY <1>3, <1>4, SMTT(30) DEF Target
<1>6. CASE Now.name \in me.adopted
  <2>1. ASSUME NEW n \in Everything, Owes(Now, n) PROVE SeenTo(n, << >>)
    <3>1. DueAtHome(n)
      BY <1>1, <1>2, <1>6, <2>1, Working DEF NothingForgotten, Owes
    <3> QED
      BY <1>3, <3>1 DEF DueAtHome, SeenTo
  <2>2. todo' = << >> \o Tail(todo)
    BY <1>1, <1>6
  <2> QED
    BY <1>1, <1>2, <2>1, <2>2, NoneOf, Passed DEF Ends
<1>7. CASE Now.name \notin me.adopted
  <2> DEFINE new == <<e, c>>
  <2>1. todo' = new \o Tail(todo)
    BY <1>1, <1>7
  <2>2. InOrder(new) /\ ToSet(new) = {e, c}
    BY TwoOf
  <2>3. e.do = "ensure" /\ e.m = i.of /\ e.name = i.name /\ e.sub = i.of /\ DOMAIN e = {"do", "m", "name", "via", "sub", "wide"}
    BY DEF Ensure, Task
  <2>4. c.do = "copy" /\ c.m = Now.m /\ c.name = Now.name /\ c.sub = Now.m /\ DOMAIN c = {"do", "m", "name", "via", "sub", "wide"}
    BY TaskIs
  <2> HIDE DEF e, c, i, new
  <2>5. TaskOK(e) /\ TaskOK(c)
    BY <1>2, <1>3, <1>4, <2>3, <2>4 DEF TaskOK
  <2>6. Fits(e, resolving)
    <3>1. Demands(Now) = Target(Now.m, Now.name)
      BY <1>1 DEF Demands, Later
    <3>2. Demands(e) \subseteq Demands(Now)
      BY <1>5, <2>3, <3>1 DEF Demands
    <3> QED
      BY <1>2, <2>3, <3>2 DEF Fits, Unhurried
  <2>7. Fits(c, resolving)
    BY <2>4 DEF Fits, Demands, Unhurried
  <2>8. \A n \in Target(Now.m, Now.name) : SeenTo(n, new)
    <3>1. Owes(e, <<i.of, i.name>>) /\ Declares(e.m, e.name) /\ e \in ToSet(new)
      BY <1>4, <1>5, <2>2, <2>3 DEF Owes
    <3> QED
      BY <1>5, <3>1 DEF SeenTo
  <2>9. \A n \in Everything : Owes(Now, n) => SeenTo(n, new)
    BY <2>8 DEF Owes
  <2>10. \A t \in ToSet(new) : TaskOK(t) /\ t.do \notin Ends /\ Fits(t, resolving)
    BY <2>2, <2>3, <2>4, <2>5, <2>6, <2>7 DEF Ends
  <2>11. \A t \in ToSet(new) : t.do \in {"copy", "bind"} => \A n \in Target(t.m, t.name) : SeenTo(n, new)
    BY <2>2, <2>3, <2>4, <2>8
  <2> QED
    BY <1>1, <1>2, <2>1, <2>2, <2>9, <2>10, <2>11, Passed DEF Ends
<1> QED
  BY <1>6, <1>7

\* What is not told to be resolved is told of nothing.
LEMMA Quiet ==
  ASSUME NEW t, t.do \notin {"ensure", "adopt", "resolve"} \cup Unhurried, NEW stack
  PROVE  Fits(t, stack)
BY DEF Fits, Demands

\* An error, or acceptance, changes nothing else.
LEMMA Stopped ==
  ASSUME Inductive, outcome = "working", UNCHANGED <<program, an, resolving, settled, todo>>,
         outcome' \in Errors \cup {"ok"},
         outcome' = "circular" => \E n \in Everything : OnCycle(n),
         outcome' = "ok" => todo = << >>
  PROVE  Inductive'
<1>1. IsProgram(program) /\ Shapes /\ Nested(resolving, todo) /\ StackOK /\ NothingForgotten /\ WillSettle
  BY Working
<1>2. /\ Modules' = Modules /\ Everything' = Everything /\ Roots' = Roots
      /\ (IsProgram(program))' /\ Nested(resolving, todo)'
      /\ \A m : Decls(m)' = Decls(m)
      /\ \A m, x : Target(m, x)' = Target(m, x) /\ Wide(m, x)' = Wide(m, x)
      /\ \A n : Mentions(n)' = Mentions(n) /\ (OnCycle(n)' <=> OnCycle(n))
      /\ \A t, n : Owes(t, n)' <=> Owes(t, n)
      /\ \A m, x : Declares(m, x)' <=> Declares(m, x)
      /\ \A t : TaskOK(t)' <=> TaskOK(t)
  BY <1>1, SameSource
<1>3. Open' = Open
  BY DEF Open
<1>4. \A n : (Due(n)' <=> Due(n)) /\ (DueAtHome(n)' <=> DueAtHome(n))
  <2>1. \A n : Done(n)' <=> Done(n)
    BY DEF Done
  <2> QED
    BY <1>2, <1>3, <2>1 DEF Due, DueAtHome
<1>5. NothingForgotten'
  <2>1. \A n \in Roots : Due(n)'
    BY <1>1, <1>4 DEF NothingForgotten
  <2>2. \A n \in Everything : an[n[1]].state[n[2]] # "pending" => \A t \in Mentions(n) : Due(t)'
    BY <1>1, <1>4 DEF NothingForgotten
  <2>3. \A m \in Modules : \A x \in an[m].adopted : \A n \in Target(m, x) : DueAtHome(n)'
    BY <1>1, <1>4 DEF NothingForgotten
  <2>4. \A t \in Open : t.do \in {"copy", "bind"} => \A n \in Target(t.m, t.name) : DueAtHome(n)'
    BY <1>1, <1>4 DEF NothingForgotten
  <2> QED
    BY <1>2, <1>3, <2>1, <2>2, <2>3, <2>4 DEF NothingForgotten
<1>6. StackOK'
  BY <1>1, StackSame
<1>7. Shapes'
  <2>1. OriginsOK' /\ StructsOK'
    BY <1>1, <1>2 DEF Shapes, OriginsOK, StructsOK
  <2>2. \A t \in Open' : TaskOK(t)'
    BY <1>1, <1>2, <1>3 DEF Shapes
  <2>3. (\A m \in Modules : an[m].state \in [{d.name : d \in Decls(m)} -> {"pending", "resolving", "done"}])'
    BY <1>1, <1>2 DEF Shapes
  <2>4. outcome' \in {"working", "ok", "nothing"} \cup Errors
    OBVIOUS
  <2>5. program # << >>
    BY Working
  <2>6. (program = << >> <=> outcome = "nothing")'
    BY <2>5 DEF Errors
  <2> QED
    BY <1>1, <1>2, <2>1, <2>2, <2>3, <2>4, <2>6 DEF Shapes
<1>8. WillSettle'
  BY <1>1 DEF WillSettle
<1> QED
  BY <1>2, <1>5, <1>6, <1>7, <1>8 DEF Inductive, CircularHasCause

\* Nothing is left to do.
LEMMA AcceptStep == ASSUME Inductive, Accept PROVE Inductive'
BY Stopped DEF Accept

\* A waiting task's turn comes.
LEMMA SettleStep == ASSUME Inductive, Settle PROVE Inductive'
<1>1. /\ outcome = "working" /\ todo # << >> /\ Now.do = "settle"
      /\ UNCHANGED <<program, an, resolving, outcome>>
  BY DEF Settle, Doing
<1>2. Keeps /\ \A n : ~Owes(Now, n)
  BY <1>1, KeepsAll DEF Owes
<1>3. CASE ~(resolving = << >> /\ settled # << >>)
  <2>1. todo' = << >> \o Tail(todo) /\ settled' = settled
    BY <1>3 DEF Settle, Do
  <2> QED
    BY <1>1, <1>2, <1>3, <2>1, NoneOf, Passed DEF Ends
<1>4. CASE resolving = << >> /\ settled # << >>
  <2> DEFINE h == Head(settled)
  <2>1. todo' = <<h>> \o todo /\ settled' = Tail(settled)
    BY <1>4 DEF Settle
  <2> HIDE DEF h
  <2>2. InOrder(todo) /\ InOrder(settled) /\ InOrder(resolving)
    BY <1>1, Working DEF Shapes
  <2>3. h \in ToSet(settled) /\ InOrder(settled') /\ ToSet(settled) = {h} \cup ToSet(settled')
    BY <1>4, <2>1, <2>2, HeadAndTail DEF h
  <2>4. InOrder(todo') /\ ToSet(todo') = {h} \cup ToSet(todo)
    BY <2>1, <2>2, OneOf, Joined
  <2>5. Open' = Open
    BY <2>3, <2>4 DEF Open
  <2>6. h.do \in Waiting
    BY <1>1, <2>3, Working DEF Shapes, Waiting
  <2>7. Nested(resolving, todo)'
    <3>1. \A t \in ToSet(<<h>>) : t.do \notin Ends /\ Fits(t, resolving)
      BY <1>4, <2>6, OneOf DEF Waiting, Ends, Fits
    <3>2. Nested(resolving, <<h>> \o todo)
      BY <1>1, <2>2, <3>1, OneOf, PutThere, Working
    <3> QED
      BY <1>1, <2>1, <3>2, SameSource
  <2>8. /\ Modules' = Modules /\ Everything' = Everything /\ Roots' = Roots
        /\ (IsProgram(program))' /\ program # << >>
        /\ \A m : Decls(m)' = Decls(m)
        /\ \A t : TaskOK(t)' <=> TaskOK(t)
    BY <1>1, Working, SameSource
  <2>9. StackOK'
    BY <1>1, Working, StackSame
  <2>10. NothingForgotten'
    <3>1. Hands(Now)
      BY <1>1, <1>2, <2>5 DEF Hands, Done
    <3>2. \A t \in Open : t.m \in Modules
      BY <1>1, Working DEF TaskOK
    <3> QED
      BY <1>1, <2>5, <3>1, <3>2, Working, StillRemembered
  <2>11. WillSettle'
    <3>1. Now \in ToSet(todo')
      BY <1>1, <2>4, Next1
    <3> QED
      BY <1>1, <3>1 DEF WillSettle
  <2>12. Shapes'
    <3>1. OriginsOK' /\ StructsOK' /\ DOMAIN an' = Modules /\ \A m \in Modules : DOMAIN an'[m] = Fields
      BY <1>2 DEF Keeps
    <3>2. \A t \in Open' : TaskOK(t)'
      BY <1>1, <2>5, <2>8, Working
    <3>3. (\A m \in Modules : an[m].state \in [{d.name : d \in Decls(m)} -> {"pending", "resolving", "done"}])'
      BY <1>1, <2>8, Working DEF Shapes
    <3>4. \A t \in ToSet(settled') : t.do \in {"ensure", "adopt", "pointee"}
      BY <1>1, <2>3, Working DEF Shapes
    <3> QED
      BY <1>1, <2>2, <2>3, <2>4, <2>8, <3>1, <3>2, <3>3, <3>4 DEF Shapes
  <2> QED
    BY <1>1, <2>7, <2>9, <2>10, <2>11, <2>12 DEF Inductive, CircularHasCause
<1> QED
  BY <1>3, <1>4

\* What another struct of the analyzer's comes with.
LEMMA DepsAre ==
  ASSUME NEW m \in Modules, NEW sub \in Modules, NEW t
  PROVE  /\ InOrder(Deps(m, sub, t))
         /\ \A u \in ToSet(Deps(m, sub, t)) : TaskOK(u) /\ u.do = "struct"
<1> DEFINE a == AdoptOf(m, sub, t.leaf, FALSE)
<1>1. a.do = "struct" /\ a.m = m /\ a.sub = sub /\ DOMAIN a = {"do", "m", "name", "via", "sub", "wide"}
  BY DEF AdoptOf, Task
<1>2. Deps(m, sub, t) = <<a>> \/ Deps(m, sub, t) = << >>
  BY DEF Deps
<1> HIDE DEF a
<1>3. TaskOK(a)
  BY <1>1 DEF TaskOK
<1> QED
  BY <1>1, <1>2, <1>3, OneOf, NoneOf

\* A constant or alias is copied.
LEMMA CopyStep == ASSUME Inductive, Copy PROVE Inductive'
<1> DEFINE i == ImportOf(Now.m, Now.name)
           b == Task("bind", Now.m, Now.name)
           new == CopyOf(i) \o <<b>>
<1>1. /\ outcome = "working" /\ todo # << >> /\ Now.do = "copy"
      /\ settled' = settled /\ UNCHANGED <<program, an, resolving, outcome>>
      /\ todo' = new \o Tail(todo)
  BY DEF Copy, Doing, Do
<1>2. Keeps /\ TaskOK(Now) /\ Now \in Open /\ Now.m \in Modules
  BY <1>1, KeepsAll, Next1 DEF Ends
<1>3. Imports(Now.m, Now.name) /\ i.of \in Modules
  BY <1>1, <1>2, Working, ProgramFacts DEF TaskOK
<1>4. InOrder(CopyOf(i)) /\ \A u \in ToSet(CopyOf(i)) : TaskOK(u) /\ u.do = "struct"
  <2> DEFINE a == AdoptOf(Now.m, i.of, Wide(i.of, i.name), i.as = i.name)
  <2>1. CopyOf(i) = <<a>> \/ \E t : CopyOf(i) = Deps(Now.m, i.of, t)
    BY DEF CopyOf
  <2>2. a.do = "struct" /\ a.m = Now.m /\ a.sub = i.of /\ DOMAIN a = {"do", "m", "name", "via", "sub", "wide"}
    BY DEF AdoptOf, Task
  <2> HIDE DEF a, i
  <2>3. TaskOK(a)
    BY <1>2, <1>3, <2>2 DEF TaskOK
  <2> QED
    BY <1>2, <1>3, <2>1, <2>2, <2>3, OneOf, DepsAre, SMTT(30)
<1>5. b.do = "bind" /\ b.m = Now.m /\ b.name = Now.name /\ b.sub = Now.m /\ DOMAIN b = {"do", "m", "name", "via", "sub", "wide"}
  BY TaskIs
<1> HIDE DEF b
<1>6. InOrder(new) /\ ToSet(new) = ToSet(CopyOf(i)) \cup {b}
  BY <1>4, OneOf, Joined
<1> HIDE DEF new, i
<1>7. TaskOK(b)
  BY <1>2, <1>3, <1>5 DEF TaskOK
<1>8. \A t \in ToSet(new) : TaskOK(t) /\ t.do \notin Ends /\ Fits(t, resolving)
  BY <1>4, <1>5, <1>6, <1>7, Quiet DEF Ends, Unhurried
<1>9. \A n \in Target(Now.m, Now.name) : SeenTo(n, new)
  <2>1. \A n \in Target(Now.m, Now.name) : DueAtHome(n)
    BY <1>1, <1>2, Working DEF NothingForgotten
  <2> QED
    BY <1>1, <2>1 DEF DueAtHome, SeenTo, Owes
<1>10. \A t \in ToSet(new) : t.do \in {"copy", "bind"} => \A n \in Target(t.m, t.name) : SeenTo(n, new)
  BY <1>4, <1>5, <1>6, <1>9, SMTT(30)
<1> QED
  BY <1>1, <1>2, <1>6, <1>8, <1>10, Passed DEF Ends, Owes

\* A name is bound to what has been taken over.
LEMMA BindStep == ASSUME Inductive, Bind PROVE Inductive'
<1> DEFINE i == ImportOf(Now.m, Now.name)
           w == Wide(i.of, i.name)
           t == an[i.of].types[i.name]
           enum == DeclOf(i.of, i.name).kind = "enum"
           there == [me EXCEPT !.types = With(@, Now.name, t),
                               !.origins = IF enum THEN With(@, w, i.of) ELSE @,
                               !.adopted = @ \cup {Now.name}]
<1>1. /\ outcome = "working" /\ todo # << >> /\ Now.do = "bind"
      /\ \/ Fail("duplicate")
         \/ /\ an' = [an EXCEPT ![Now.m].types = With(@, Now.name, t),
                                ![Now.m].origins = IF enum THEN With(@, w, i.of) ELSE @,
                                ![Now.m].adopted = @ \cup {Now.name}]
            /\ todo' = << >> \o Tail(todo) /\ settled' = settled
            /\ UNCHANGED <<program, resolving, outcome>>
  BY Zenon DEF Bind, Doing, Do
<1>2. TaskOK(Now) /\ Now.m \in Modules
  BY <1>1, Next1, Zenon
<1>3. CASE Fail("duplicate")
  BY <1>1, <1>3, Stopped DEF Fail, Errors
<1>4. CASE /\ an' = [an EXCEPT ![Now.m].types = With(@, Now.name, t),
                                ![Now.m].origins = IF enum THEN With(@, w, i.of) ELSE @,
                                ![Now.m].adopted = @ \cup {Now.name}]
            /\ todo' = << >> \o Tail(todo) /\ settled' = settled
            /\ UNCHANGED <<program, resolving, outcome>>
  <2>1. /\ IsProgram(program) /\ OriginsOK /\ StructsOK /\ DOMAIN an = Modules
        /\ \A m \in Modules : DOMAIN an[m] = Fields
    BY <1>1, Working, Zenon DEF Shapes
  <2>2. w \in {Wide(n[1], n[2]) : n \in Everything}
    <3>1. i.of \in Modules /\ Declares(i.of, i.name)
      BY <1>1, <1>2, <2>1, ProgramFacts DEF TaskOK
    <3>2. <<i.of, i.name>> \in Everything
      BY <2>1, <3>1, ProgramFacts, SMTT(30)
    <3> QED
      BY <3>2, SMTT(20)
  <2> HIDE DEF i, t, w, enum
  <2>3. /\ DOMAIN an' = Modules
        /\ \A m \in Modules \ {Now.m} : an'[m] = an[m]
        /\ DOMAIN an'[Now.m] = Fields
        /\ \A f \in Fields \ {"types", "origins", "adopted"} : an'[Now.m][f] = an[Now.m][f]
        /\ an'[Now.m].adopted = an[Now.m].adopted \cup {Now.name}
        /\ an'[Now.m].origins = IF enum THEN With(an[Now.m].origins, w, i.of) ELSE an[Now.m].origins
    <3>1. DOMAIN an[Now.m] = Fields /\ {"types", "origins", "adopted"} \subseteq Fields
      BY <1>2, <2>1 DEF Fields
    <3> QED
      BY <1>2, <1>4, <2>1, <3>1
  <2>4. an'[Now.m].state = an[Now.m].state /\ an'[Now.m].structs = an[Now.m].structs
    BY <2>3 DEF Fields
  <2>5. DOMAIN an'[Now.m].origins \subseteq DOMAIN an[Now.m].origins \cup {w}
    BY <2>3 DEF With
  <2>6. Modules' = Modules /\ Everything' = Everything /\ \A m, x : Wide(m, x)' = Wide(m, x)
    BY <1>4, SameSource
  <2>7. OriginsOK'
    <3> SUFFICES ASSUME NEW m \in Modules
                 PROVE  DOMAIN an'[m].origins \subseteq DOMAIN an'[m].structs \cup {Wide(n[1], n[2]) : n \in Everything}
      BY <2>6 DEF OriginsOK
    <3>1. DOMAIN an[m].origins \subseteq DOMAIN an[m].structs \cup {Wide(n[1], n[2]) : n \in Everything}
      BY <2>1 DEF OriginsOK
    <3> QED
      BY <2>2, <2>3, <2>4, <2>5, <3>1
  <2>8. StructsOK'
    BY <2>1, <2>3, <2>4, <2>6 DEF StructsOK
  <2>9. Keeps
    BY <1>1, <2>1, <2>3, <2>4, <2>7, <2>8 DEF Keeps
  <2>10. \A n : ~Owes(Now, n)
    BY <1>1, Zenon DEF Owes
  <2> QED
    BY <1>1, <1>4, <2>9, <2>10, NoneOf, Passed, Zenon DEF Ends
<1> QED
  BY <1>1, <1>3, <1>4, Zenon

\* A struct is taken over, ...
LEMMA AdoptStructStep == ASSUME Inductive, AdoptStruct PROVE Inductive'
<1> DEFINE w == Now.wide
           sub == an[Now.sub]
           own == w \in DOMAIN sub.origins /\ sub.origins[w] = Now.m
           c == w \notin DOMAIN sub.origins
           new == IF c THEN w \notin DOMAIN me.structs \/ (~me.structs[w].complete /\ sub.structs[w].complete)
                  ELSE w \notin DOMAIN me.origins
           fields == sub.structs[w].fields
           field == [i \in DOMAIN fields |->
                       [Task("field", Now.m, w.name) EXCEPT !.sub = Now.sub, !.wide = fields[i].leaf,
                                                            !.via = IsPointer(fields[i])]]
           more == IF new THEN field ELSE << >>
           Taken == /\ w \in DOMAIN sub.structs
                    /\ an' = [an EXCEPT
                           ![Now.m].structs = IF new THEN With(@, w, sub.structs[w]) ELSE @,
                           ![Now.m].origins = IF c THEN @ ELSE With(@, w, sub.origins[w]),
                           ![Now.m].types = IF Now.via /\ ~c THEN With(@, w.name, Type(<< >>, w)) ELSE @]
                    /\ todo' = more \o Tail(todo) /\ settled' = settled
                    /\ UNCHANGED <<program, resolving, outcome>>
<1>1. /\ outcome = "working" /\ todo # << >> /\ Now.do = "struct"
      /\ \/ todo' = << >> \o Tail(todo) /\ settled' = settled /\ UNCHANGED <<program, an, resolving, outcome>>
         \/ Fail("duplicate")
         \/ Taken
  BY Zenon DEF AdoptStruct, Doing, Do
<1>2. TaskOK(Now) /\ Now.m \in Modules /\ Now.sub \in Modules /\ me = an[Now.m]
  BY <1>1, Next1, Zenon DEF TaskOK
<1>3. \A n : ~Owes(Now, n)
  BY <1>1, Zenon DEF Owes
<1>4. CASE todo' = << >> \o Tail(todo) /\ settled' = settled /\ UNCHANGED <<program, an, resolving, outcome>>
  BY <1>1, <1>3, <1>4, KeepsAll, NoneOf, Passed, Zenon DEF Ends
<1>5. CASE Fail("duplicate")
  BY <1>1, <1>5, Stopped DEF Fail, Errors
<1>6. CASE Taken
  <2>1. /\ IsProgram(program) /\ OriginsOK /\ StructsOK /\ DOMAIN an = Modules
        /\ \A m \in Modules : DOMAIN an[m] = Fields
    BY <1>1, Working, Zenon DEF Shapes
  <2>2. InOrder(fields)
    BY <1>2, <1>6, <2>1, Zenon DEF StructsOK
  <2>3. InOrder(field) /\ \A t \in ToSet(field) : TaskOK(t) /\ t.do = "field"
    <3>1. DOMAIN fields = 1..Len(fields) /\ Len(fields) \in Nat
      BY <2>2 DEF InOrder
    <3> DEFINE base == Task("field", Now.m, w.name)
               F(i) == [base EXCEPT !.sub = Now.sub, !.wide = fields[i].leaf, !.via = IsPointer(fields[i])]
    <3>2. base.do = "field" /\ base.m = Now.m /\ base.sub = Now.m /\ DOMAIN base = {"do", "m", "name", "via", "sub", "wide"}
      BY TaskIs
    <3> HIDE DEF base
    <3>3. \A i : /\ F(i).do = "field" /\ F(i).m = Now.m /\ F(i).sub = Now.sub
                 /\ DOMAIN F(i) = {"do", "m", "name", "via", "sub", "wide"}
      BY <3>2
    <3>4. \A i : TaskOK(F(i))
      <4> SUFFICES ASSUME NEW i PROVE TaskOK(F(i))
        BY Zenon
      <4> HIDE DEF F
      <4> QED
        BY <1>2, <3>3, Zenon DEF TaskOK
    <3>5. field = [i \in DOMAIN fields |-> F(i)]
      BY DEF base
    <3> HIDE DEF F, field, fields
    <3>6. field \in Seq({F(i) : i \in DOMAIN fields})
      BY <3>1, <3>5
    <3>7. InOrder(field) /\ ToSet(field) \subseteq {F(i) : i \in DOMAIN fields}
      BY <3>6, Orderly, Zenon
    <3> QED
      BY <3>3, <3>4, <3>7
  <2>4. InOrder(more) /\ \A t \in ToSet(more) : TaskOK(t) /\ t.do = "field"
    BY <2>3, NoneOf, Zenon
  <2>5. todo' = more \o Tail(todo) /\ settled' = settled /\ UNCHANGED <<program, resolving, outcome>>
    BY <1>6, Zenon
  <2>6. w \in DOMAIN sub.structs
    BY <1>6, Zenon
  <2> HIDE DEF more, field
  <2>7. /\ DOMAIN an' = Modules
        /\ \A m \in Modules \ {Now.m} : an'[m] = an[m]
        /\ DOMAIN an'[Now.m] = Fields
        /\ \A f \in Fields \ {"types", "origins", "structs"} : an'[Now.m][f] = an[Now.m][f]
        /\ an'[Now.m].structs = IF new THEN With(me.structs, w, sub.structs[w]) ELSE me.structs
        /\ an'[Now.m].origins = IF c THEN me.origins ELSE With(me.origins, w, sub.origins[w])
    <3>1. DOMAIN an[Now.m] = Fields /\ {"types", "origins", "structs"} \subseteq Fields
      BY <1>2, <2>1 DEF Fields
    <3> QED
      BY <1>2, <1>6, <2>1, <3>1, Zenon
  <2>8. an'[Now.m].state = an[Now.m].state /\ an'[Now.m].adopted = an[Now.m].adopted
    BY <2>7 DEF Fields
  <2>9. Modules' = Modules /\ Everything' = Everything /\ \A m, x : Wide(m, x)' = Wide(m, x)
    BY <2>5, SameSource
  <2>10. OriginsOK'
    <3> SUFFICES ASSUME NEW m \in Modules
                 PROVE  DOMAIN an'[m].origins \subseteq DOMAIN an'[m].structs \cup {Wide(n[1], n[2]) : n \in Everything}
      BY <2>9 DEF OriginsOK
    <3>1. DOMAIN an[m].origins \subseteq DOMAIN an[m].structs \cup {Wide(n[1], n[2]) : n \in Everything}
      BY <2>1 DEF OriginsOK
    <3>2. CASE m # Now.m
      BY <2>7, <3>1, <3>2
    <3>3. CASE m = Now.m
      <4>1. DOMAIN me.structs \subseteq DOMAIN an'[m].structs /\ (new => w \in DOMAIN an'[m].structs)
        BY <2>7, <3>3, SMTT(30) DEF With
      <4>2. DOMAIN an'[m].origins \subseteq DOMAIN me.origins \cup (IF c THEN {} ELSE {w})
        BY <2>7, <3>3 DEF With
      <4>3. ~c /\ ~new => w \in DOMAIN me.origins
        OBVIOUS
      <4> HIDE DEF c, new, w
      <4> QED
        BY <1>2, <3>1, <3>3, <4>1, <4>2, <4>3, SMTT(30)
    <3> QED
      BY <3>2, <3>3
  <2>11. StructsOK'
    <3> SUFFICES ASSUME NEW m \in Modules, NEW x \in DOMAIN an'[m].structs
                 PROVE  InOrder(an'[m].structs[x].fields)
      BY <2>9 DEF StructsOK
    <3>1. CASE m # Now.m
      BY <2>1, <2>7, <3>1 DEF StructsOK
    <3>2. CASE m = Now.m
      <4>1. \A y \in DOMAIN me.structs : InOrder(me.structs[y].fields)
        BY <1>2, <2>1 DEF StructsOK
      <4>2. an'[m].structs = me.structs \/ an'[m].structs = With(me.structs, w, sub.structs[w])
        BY <2>7, <3>2
      <4> HIDE DEF w, sub
      <4>3. CASE an'[m].structs = me.structs
        BY <4>1, <4>3
      <4>4. CASE an'[m].structs = With(me.structs, w, sub.structs[w])
        <5>1. \/ x = w /\ an'[m].structs[x] = sub.structs[w]
              \/ x \in DOMAIN me.structs /\ an'[m].structs[x] = me.structs[x]
          BY <4>4 DEF With
        <5> QED
          BY <2>2, <4>1, <5>1
      <4> QED
        BY <4>2, <4>3, <4>4
    <3> QED
      BY <3>1, <3>2
  <2>12. Keeps
    BY <2>1, <2>7, <2>8, <2>10, <2>11 DEF Keeps
  <2>13. \A t \in ToSet(more) : TaskOK(t) /\ t.do \notin Ends /\ t.do \notin {"copy", "bind"} /\ Fits(t, resolving)
    BY <2>4, Quiet DEF Ends, Unhurried
  <2> QED
    BY <1>1, <1>3, <2>4, <2>5, <2>12, <2>13, Passed, Zenon DEF Ends
<1> QED
  BY <1>1, <1>4, <1>5, <1>6, Zenon

\* ... with its fields' structs, ...
LEMMA AdoptFieldStep == ASSUME Inductive, AdoptField PROVE Inductive'
<1> DEFINE sub == an[Now.sub]
           a == AdoptOf(Now.m, Now.sub, Now.wide, FALSE)
           p == [Task("pointee", Now.m, Now.name) EXCEPT !.sub = Now.sub, !.wide = Now.wide]
<1>1. /\ outcome = "working" /\ todo # << >> /\ Now.do = "field"
      /\ UNCHANGED <<program, an, resolving, outcome>>
      /\ \/ todo' = <<a>> \o Tail(todo) /\ settled' = settled
         \/ WhenSettled(p)
         \/ todo' = << >> \o Tail(todo) /\ settled' = settled
  BY DEF AdoptField, Doing, Do
<1>2. Keeps /\ TaskOK(Now) /\ Now.m \in Modules /\ Now.sub \in Modules
  BY <1>1, KeepsAll, Next1 DEF TaskOK
<1>3. \A n : ~Owes(Now, n)
  BY <1>1 DEF Owes
<1>4. a.do = "struct" /\ a.m = Now.m /\ a.sub = Now.sub /\ DOMAIN a = {"do", "m", "name", "via", "sub", "wide"}
  BY DEF AdoptOf, Task
<1>5. p.do = "pointee" /\ p.m = Now.m /\ p.sub = Now.sub /\ DOMAIN p = {"do", "m", "name", "via", "sub", "wide"}
  BY DEF Task
<1> HIDE DEF a, p
<1>6. TaskOK(a) /\ TaskOK(p)
  BY <1>2, <1>4, <1>5 DEF TaskOK
<1>7. CASE todo' = << >> \o Tail(todo) /\ settled' = settled
  BY <1>1, <1>2, <1>3, <1>7, NoneOf, Passed DEF Ends
<1>8. CASE todo' = <<a>> \o Tail(todo) /\ settled' = settled
  <2>2. Fits(a, resolving)
    BY <1>4, Quiet DEF Unhurried
  <2>1. \A t \in ToSet(<<a>>) : TaskOK(t) /\ t.do = "struct" /\ Fits(t, resolving)
    BY <1>4, <1>6, <2>2, OneOf
  <2> QED
    BY <1>1, <1>2, <1>3, <1>8, <2>1, OneOf, Passed DEF Ends
<1>9. CASE WhenSettled(p)
  <2>1. CASE resolving = << >>
    <3>1. todo' = <<p>> \o Tail(todo) /\ settled' = settled
      BY <1>9, <2>1 DEF WhenSettled, Do
    <3>2. \A t \in ToSet(<<p>>) : TaskOK(t) /\ t.do = "pointee" /\ Fits(t, resolving)
      BY <1>5, <1>6, <2>1, OneOf DEF Fits
    <3> QED
      BY <1>1, <1>2, <1>3, <3>1, <3>2, OneOf, Passed DEF Ends
  <2>2. CASE resolving # << >>
    <3>1. todo' = << >> \o Tail(todo) /\ settled' = Append(settled, p)
      BY <1>9, <2>2 DEF WhenSettled, Do
    <3> QED
      BY <1>1, <1>2, <1>3, <1>5, <1>6, <2>2, <3>1, NoneOf, Passed DEF Ends, Waiting
  <2> QED
    BY <2>1, <2>2
<1> QED
  BY <1>1, <1>7, <1>8, <1>9

\* ... and the structs they point to.
LEMMA AdoptPointeeStep == ASSUME Inductive, AdoptPointee PROVE Inductive'
<1> DEFINE e == [Task("ensure struct", Now.sub, Now.name) EXCEPT !.wide = Now.wide]
           a == AdoptOf(Now.m, Now.sub, Now.wide, FALSE)
           new == <<e, a>>
<1>1. /\ outcome = "working" /\ todo # << >> /\ Now.do = "pointee"
      /\ UNCHANGED <<program, an, resolving, outcome>>
      /\ todo' = new \o Tail(todo) /\ settled' = settled
  BY DEF AdoptPointee, Doing, Do
<1>2. Keeps /\ TaskOK(Now) /\ Now.m \in Modules /\ Now.sub \in Modules /\ Fits(Now, resolving)
  BY <1>1, KeepsAll, Next1 DEF TaskOK, Ends
<1>3. \A n : ~Owes(Now, n)
  BY <1>1 DEF Owes
<1>4. a.do = "struct" /\ a.m = Now.m /\ a.sub = Now.sub /\ DOMAIN a = {"do", "m", "name", "via", "sub", "wide"}
  BY DEF AdoptOf, Task
<1>5. e.do = "ensure struct" /\ e.m = Now.sub /\ e.sub = Now.sub /\ DOMAIN e = {"do", "m", "name", "via", "sub", "wide"}
  BY DEF Task
<1>6. InOrder(new) /\ ToSet(new) = {e, a}
  BY TwoOf
<1> HIDE DEF a, e, new
<1>7. TaskOK(a) /\ TaskOK(e)
  BY <1>2, <1>4, <1>5 DEF TaskOK
<1>8. resolving = << >>
  BY <1>1, <1>2 DEF Fits, Unhurried
<1>9. \A t \in ToSet(new) : TaskOK(t) /\ t.do \in {"struct", "ensure struct"} /\ Fits(t, resolving)
  BY <1>4, <1>5, <1>6, <1>7, <1>8 DEF Fits
<1> QED
  BY <1>1, <1>2, <1>3, <1>6, <1>9, Passed DEF Ends

\* A function's types are looked at.
LEMMA SignatureStep == ASSUME Inductive, Signature PROVE Inductive'
<1> DEFINE t == Bound(an[Now.sub], [how |-> << >>, type |-> Now.name, size |-> ""])
           new == IF Now.sub = 1 THEN << >> ELSE Deps(1, Now.sub, t)
<1>1. /\ outcome = "working" /\ todo # << >> /\ Now.do = "sig"
      /\ \/ Fail("unknown")
         \/ /\ todo' = new \o Tail(todo) /\ settled' = settled
            /\ UNCHANGED <<program, an, resolving, outcome>>
  BY DEF Signature, Doing, Do
<1>2. TaskOK(Now) /\ Now.m \in Modules /\ Now.sub \in Modules /\ 1 \in Modules
  BY <1>1, Next1, Working, RootsIn DEF TaskOK
<1>3. CASE Fail("unknown")
  BY <1>1, <1>3, Stopped DEF Fail, Errors
<1>4. CASE /\ todo' = new \o Tail(todo) /\ settled' = settled
           /\ UNCHANGED <<program, an, resolving, outcome>>
  <2>1. InOrder(new) /\ \A u \in ToSet(new) : TaskOK(u) /\ u.do = "struct"
    <3> HIDE DEF t
    <3> QED
      BY <1>2, NoneOf, DepsAre
  <2> HIDE DEF new
  <2>2. \A u \in ToSet(new) : TaskOK(u) /\ u.do = "struct" /\ Fits(u, resolving)
    BY <2>1, Quiet DEF Unhurried
  <2>3. Keeps /\ \A n : ~Owes(Now, n)
    BY <1>1, <1>4, KeepsAll DEF Owes
  <2> QED
    BY <1>1, <1>4, <2>1, <2>2, <2>3, Passed DEF Ends
<1> QED
  BY <1>1, <1>3, <1>4

-----------------------------------------------------------------------------
\* The steps that begin to resolve something.

\* ensureTypeRefs asks for every name in a type, and for what is needed at once only
\* as it is needed.
LEMMA RefsAre ==
  ASSUME IsProgram(program), NEW m \in Modules, NEW uses, InOrder(uses)
  PROVE  /\ InOrder(Refs(m, uses))
         /\ \A t \in ToSet(Refs(m, uses)) :
              /\ TaskOK(t) /\ t.do = "ensure"
              /\ \E u \in ToSet(uses) :
                   Demands(t) \subseteq {x \in Target(m, u.type) : ~("ptr" \in ToSet(u.how) /\ KindOf(x) = "struct")}
                                        \cup SizeTarget(m, u)
         /\ \A u \in ToSet(uses) : \A n \in Target(m, u.type) \cup SizeTarget(m, u) :
              \E t \in ToSet(Refs(m, uses)) : Owes(t, n)
<1> DEFINE E(u) == Ensure(m, u.type, "ptr" \in ToSet(u.how))
           Z(u) == Ensure(m, u.size, FALSE)
           G(u) == <<E(u)>> \o IF u.size = "" THEN << >> ELSE <<Z(u)>>
           ss == [i \in DOMAIN uses |-> G(uses[i])]
           Req(u) == {x \in Target(m, u.type) : ~("ptr" \in ToSet(u.how) /\ KindOf(x) = "struct")}
                     \cup SizeTarget(m, u)
           All == (UNION {ToSet(G(u)) : u \in ToSet(uses)})
<1>1. Len(uses) \in Nat /\ DOMAIN uses = 1..Len(uses) /\ \A i \in DOMAIN uses : uses[i] \in ToSet(uses)
  BY DEF InOrder, ToSet
<1>2. Refs(m, uses) = FlattenSeq(ss)
  BY DEF Refs
<1>3. \A u : /\ E(u).do = "ensure" /\ E(u).m = m /\ E(u).name = u.type /\ E(u).sub = m
             /\ DOMAIN E(u) = {"do", "m", "name", "via", "sub", "wide"}
  BY DEF Ensure, Task
<1>4. \A u : /\ Z(u).do = "ensure" /\ Z(u).m = m /\ Z(u).name = u.size /\ Z(u).sub = m
             /\ DOMAIN Z(u) = {"do", "m", "name", "via", "sub", "wide"}
  BY DEF Ensure, Task
<1>5. \A u : E(u).via <=> "ptr" \in ToSet(u.how)
  BY DEF Ensure, Task
<1> HIDE DEF E, Z
<1>6. \A u : TaskOK(E(u)) /\ TaskOK(Z(u))
  BY <1>3, <1>4 DEF TaskOK
<1>7. \A u : /\ InOrder(G(u))
             /\ u.size = "" => ToSet(G(u)) = {E(u)}
             /\ u.size # "" => ToSet(G(u)) = {E(u), Z(u)}
  <2> SUFFICES ASSUME NEW u
               PROVE  /\ InOrder(G(u))
                      /\ u.size = "" => ToSet(G(u)) = {E(u)}
                      /\ u.size # "" => ToSet(G(u)) = {E(u), Z(u)}
    OBVIOUS
  <2> DEFINE e == E(u)
             z == Z(u)
  <2>3. G(u) = <<e>> \o IF u.size = "" THEN << >> ELSE <<z>>
    OBVIOUS
  <2> HIDE DEF G, e, z
  <2>1. CASE u.size = ""
    <3>1. G(u) = <<e>> \o << >>
      BY <2>1, <2>3
    <3>2. InOrder(<<e>> \o << >>) /\ ToSet(<<e>> \o << >>) = ToSet(<<e>>) \cup ToSet(<< >>)
      BY OneOf, NoneOf, Joined
    <3>3. ToSet(G(u)) = {e}
      BY <3>1, <3>2, OneOf, NoneOf
    <3> QED
      BY <2>1, <3>1, <3>2, <3>3 DEF e
  <2>2. CASE u.size # ""
    <3>1. G(u) = <<e>> \o <<z>>
      BY <2>2, <2>3
    <3>2. InOrder(<<e>> \o <<z>>) /\ ToSet(<<e>> \o <<z>>) = ToSet(<<e>>) \cup ToSet(<<z>>)
      BY OneOf, Joined
    <3>3. ToSet(G(u)) = {e, z}
      BY <3>1, <3>2, OneOf
    <3> QED
      BY <2>2, <3>1, <3>2, <3>3 DEF e, z
  <2> QED
    BY <2>1, <2>2
<1>8. \A u : /\ Demands(E(u)) \subseteq Req(u)
             /\ u.size # "" => Demands(Z(u)) \subseteq Req(u)
  <2> SUFFICES ASSUME NEW u PROVE Demands(E(u)) \subseteq Req(u) /\ (u.size # "" => Demands(Z(u)) \subseteq Req(u))
    OBVIOUS
  <2>1. \A x, y \in Target(m, u.type) : x = y
    BY DEF Target
  <2>2. ASSUME NEW x \in Demands(E(u)) PROVE x \in Req(u)
    <3>1. x \in Target(m, u.type) /\ ~Later(E(u))
      BY <1>3, <2>2 DEF Demands
    <3>2. ~(E(u).via /\ KindOf(x) = "struct")
      BY <1>3, <2>1, <3>1 DEF Later
    <3> QED
      BY <1>5, <3>1, <3>2
  <2>3. Demands(Z(u)) \subseteq Target(m, u.size)
    BY <1>4 DEF Demands
  <2> QED
    BY <2>2, <2>3 DEF SizeTarget
<1>9. \A u : /\ \A n \in Target(m, u.type) : Owes(E(u), n)
             /\ u.size # "" => \A n \in SizeTarget(m, u) : Owes(Z(u), n)
             /\ u.size = "" => SizeTarget(m, u) = {}
  BY <1>3, <1>4 DEF Owes, SizeTarget
<1> HIDE DEF G, Req
<1>10. ss \in Seq(Seq(All)) /\ Len(ss) = Len(uses) /\ \A i \in 1..Len(ss) : ss[i] = G(uses[i])
  <2>1. \A i \in DOMAIN uses : G(uses[i]) \in Seq(All)
    <3> SUFFICES ASSUME NEW i \in DOMAIN uses PROVE G(uses[i]) \in Seq(All)
      OBVIOUS
    <3>1. ToSet(G(uses[i])) \subseteq All
      BY <1>1
    <3>2. G(uses[i]) \in Seq(ToSet(G(uses[i])))
      BY <1>7 DEF InOrder
    <3> HIDE DEF All
    <3> QED
      BY <3>1, <3>2
  <2> HIDE DEF All
  <2> QED
    BY <1>1, <2>1
<1> HIDE DEF ss
<1>11. /\ InOrder(Refs(m, uses)) /\ ToSet(Refs(m, uses)) \subseteq All
       /\ \A i \in 1..Len(uses) : ToSet(G(uses[i])) \subseteq ToSet(Refs(m, uses))
  <2> HIDE DEF All
  <2> QED
    BY <1>2, <1>10, Flattened
<1>12. ASSUME NEW t \in ToSet(Refs(m, uses))
       PROVE  TaskOK(t) /\ t.do = "ensure" /\ \E u \in ToSet(uses) : Demands(t) \subseteq Req(u)
  <2>1. PICK u \in ToSet(uses) : t \in ToSet(G(u))
    BY <1>11
  <2>2. t = E(u) \/ (u.size # "" /\ t = Z(u))
    BY <1>7, <2>1
  <2> QED
    BY <1>3, <1>4, <1>6, <1>8, <2>1, <2>2
<1>13. ASSUME NEW u \in ToSet(uses), NEW n \in Target(m, u.type) \cup SizeTarget(m, u)
       PROVE  \E t \in ToSet(Refs(m, uses)) : Owes(t, n)
  <2>1. PICK i \in DOMAIN uses : u = uses[i]
    BY DEF ToSet
  <2>2. ToSet(G(u)) \subseteq ToSet(Refs(m, uses))
    BY <1>1, <1>11, <2>1
  <2>3. E(u) \in ToSet(G(u)) /\ (u.size # "" => Z(u) \in ToSet(G(u)))
    BY <1>7
  <2> QED
    BY <1>9, <2>2, <2>3
<1> QED
  BY <1>11, <1>12, <1>13 DEF Req

\* Tasks joined in any order of joining.
LEMMA JoinedTwice ==
  ASSUME NEW r, NEW s, NEW t, InOrder(r), InOrder(s), InOrder(t)
  PROVE  (r \o s) \o t = r \o (s \o t)
<1> DEFINE S == ToSet(r) \cup ToSet(s) \cup ToSet(t)
<1>1. r \in Seq(S) /\ s \in Seq(S) /\ t \in Seq(S)
  BY DEF InOrder
<1> HIDE DEF S
<1> QED
  BY <1>1, SMTT(30)

\* What a declaration, or a variable's type for it, uses is asked for with the one
\* that it is needed for on top.
LEMMA RefsFit ==
  ASSUME IsProgram(program), NEW n \in Everything, NEW uses, InOrder(uses), ToSet(uses) \subseteq Through(n),
         NEW stack, stack # << >> => OwnerOf(stack, Len(stack)) = n
  PROVE  /\ InOrder(Refs(n[1], uses))
         /\ \A t \in ToSet(Refs(n[1], uses)) : TaskOK(t) /\ t.do = "ensure" /\ Fits(t, stack)
<1>1. n[1] \in Modules
  BY ProgramFacts
<1>2. ASSUME NEW t \in ToSet(Refs(n[1], uses)) PROVE TaskOK(t) /\ t.do = "ensure" /\ Fits(t, stack)
  <2>1. TaskOK(t) /\ t.do = "ensure"
    BY <1>1, RefsAre
  <2>2. PICK u \in ToSet(uses) :
          Demands(t) \subseteq {x \in Target(n[1], u.type) : ~("ptr" \in ToSet(u.how) /\ KindOf(x) = "struct")}
                               \cup SizeTarget(n[1], u)
    BY <1>1, RefsAre
  <2>3. Demands(t) \subseteq Needs(n)
    <3>1. u \in Through(n)
      OBVIOUS
    <3> QED
      BY <2>2, <3>1 DEF Needs
  <2> QED
    BY <2>1, <2>3 DEF Fits, Unhurried
<1> QED
  BY <1>1, <1>2, RefsAre

\* What every step keeps as it should be.
LEMMA ShapesStay ==
  ASSUME Inductive, outcome = "working", UNCHANGED <<program, outcome>>,
         InOrder(todo'), InOrder(settled'), InOrder(resolving'),
         \A t \in Open' : TaskOK(t), ToSet(settled') \subseteq ToSet(settled),
         DOMAIN an' = Modules, \A m \in Modules : DOMAIN an'[m] = Fields,
         \A m \in Modules : an'[m].state \in [{d.name : d \in Decls(m)} -> {"pending", "resolving", "done"}],
         OriginsOK', StructsOK'
  PROVE  Shapes'
<1>1. /\ Modules' = Modules /\ (IsProgram(program))' /\ program # << >>
      /\ \A m : Decls(m)' = Decls(m)
      /\ \A t : TaskOK(t)' <=> TaskOK(t)
  BY Working, SameSource
<1>2. (\A t \in Open : TaskOK(t))'
  BY <1>1
<1>3. (\A t \in ToSet(settled) : t.do \in {"ensure", "adopt", "pointee"})'
  BY Working DEF Shapes
<1>4. (\A m \in Modules : an[m].state \in [{d.name : d \in Decls(m)} -> {"pending", "resolving", "done"}])'
  BY <1>1
<1>5. (DOMAIN an = Modules /\ \A m \in Modules : DOMAIN an[m] = Fields)'
  BY <1>1
<1>6. (outcome \in {"working", "ok", "nothing"} \cup Errors)'
  OBVIOUS
<1> QED
  BY <1>1, <1>2, <1>3, <1>4, <1>5, <1>6 DEF Shapes

\* A declaration begins to be resolved.
LEMMA BeginStep == ASSUME Inductive, Begin PROVE Inductive'
<1> DEFINE m == Now.m
           x == Now.name
           n0 == <<m, x>>
           e == Entry(m, x, FALSE)
           d == Task("define", m, x)
           uses == DeclOf(m, x).uses
           refs == Refs(m, uses)
           N == Len(resolving)
<1>1. /\ outcome = "working" /\ todo # << >> /\ Now.do = "resolve"
      /\ me.state[x] = "pending"
      /\ an' = [an EXCEPT ![m].state[x] = "resolving"]
      /\ resolving' = Append(resolving, e)
      /\ todo' = (refs \o <<d>>) \o Tail(todo)
      /\ UNCHANGED <<program, settled, outcome>>
  BY DEF Begin, Doing, Do
<1>2. /\ IsProgram(program) /\ Shapes /\ StackOK /\ Nested(resolving, todo) /\ program # << >>
      /\ InOrder(todo) /\ InOrder(settled) /\ InOrder(resolving) /\ OriginsOK /\ StructsOK
      /\ DOMAIN an = Modules
  BY <1>1, Working DEF Shapes
<1>3. /\ TaskOK(Now) /\ m \in Modules /\ me = an[m] /\ Now = todo[1] /\ Now \in Open
      /\ InOrder(Tail(todo)) /\ ToSet(todo) = {Now} \cup ToSet(Tail(todo))
      /\ Fits(Now, resolving)
  BY <1>1, Next1 DEF Ends
<1>4. /\ Declares(m, x) /\ n0 \in Everything /\ DeclOf(m, x) \in Decls(m)
      /\ Target(m, x) = {n0}
  <2>1. Declares(m, x)
    BY <1>1, <1>3 DEF TaskOK
  <2> QED
    BY <1>2, <1>3, <2>1, ProgramFacts, SMTT(30) DEF Target
<1>5. InOrder(uses) /\ ToSet(uses) \subseteq Through(n0)
  <2>1. DeclOf(m, x) \in ToSet(program[m].decls)
    BY <1>4 DEF Decls
  <2>2. InOrder(uses)
    BY <1>2, <1>3, <2>1 DEF IsProgram, Modules
  <2> QED
    BY <2>2 DEF Through, UsesOf
<1>6. d.do = "define" /\ d.m = m /\ d.name = x /\ d.sub = m /\ DOMAIN d = {"do", "m", "name", "via", "sub", "wide"}
  BY TaskIs
<1> HIDE DEF d, e, uses, refs
<1>7. /\ N \in Nat /\ DOMAIN resolving = 1..N /\ Len(resolving') = N + 1 /\ DOMAIN resolving' = 1..N + 1
      /\ resolving'[N + 1] = e /\ \A i \in 1..N : resolving'[i] = resolving[i]
      /\ InOrder(resolving')
  <2>1. resolving \in Seq(ToSet(resolving) \cup {e})
    BY <1>2 DEF InOrder
  <2>2. InOrder(resolving')
    BY <1>1, <1>2, Appended
  <2> QED
    BY <1>1, <2>1, <2>2
<1>8. resolving' # << >> /\ OwnerOf(resolving', Len(resolving')) = n0
  <2>1. e.var = FALSE /\ e.of = m /\ e.name = x
    BY DEF e, Entry
  <2> QED
    BY <1>7, <2>1 DEF OwnerOf
<1>9. InOrder(refs) /\ \A t \in ToSet(refs) : TaskOK(t) /\ t.do = "ensure" /\ Fits(t, resolving')
  BY <1>2, <1>4, <1>5, <1>8, RefsFit DEF refs
<1>10. /\ todo' = refs \o (<<d>> \o Tail(todo)) /\ InOrder(<<d>> \o Tail(todo))
       /\ InOrder(todo') /\ ToSet(todo') = ToSet(refs) \cup {d} \cup ToSet(Tail(todo))
  <2>1. InOrder(<<d>> \o Tail(todo)) /\ ToSet(<<d>> \o Tail(todo)) = {d} \cup ToSet(Tail(todo))
    BY <1>3, OneOf, Joined
  <2>2. todo' = refs \o (<<d>> \o Tail(todo))
    BY <1>1, <1>3, <1>9, OneOf, JoinedTwice, SMTT(30)
  <2> QED
    BY <1>9, <2>1, <2>2, Joined
<1>11. Nested(resolving, todo)'
  <2>1. Nested(resolving, Tail(todo))
    BY <1>1, <1>2, <1>3, Dropped DEF Ends
  <2>2. Closes(e, d)
    BY <1>6 DEF Closes, Ends, e
  <2>3. Nested(resolving', <<d>> \o Tail(todo))
    BY <1>1, <1>2, <1>3, <2>1, <2>2, Begun
  <2>4. \A t \in ToSet(refs) : t.do \notin Ends /\ Fits(t, resolving')
    BY <1>9 DEF Ends
  <2>5. Nested(resolving', refs \o (<<d>> \o Tail(todo)))
    <3>1. InOrder(resolving')
      BY <1>7
    <3>2. InOrder(refs)
      BY <1>9
    <3>3. InOrder(<<d>> \o Tail(todo))
      BY <1>10
    <3> DEFINE back == <<d>> \o Tail(todo)
    <3> HIDE DEF back
    <3> QED
      BY <2>3, <2>4, <3>1, <3>2, <3>3, PutThere DEF back
  <2>6. Nested(resolving', todo')
    BY <1>10, <2>5
  <2> QED
    BY <1>1, <2>6, SameSource
<1>12. /\ Modules' = Modules /\ Everything' = Everything /\ Roots' = Roots
       /\ (IsProgram(program))'
       /\ \A k : Decls(k)' = Decls(k)
       /\ \A k, y : Wide(k, y)' = Wide(k, y)
       /\ \A n : Needs(n)' = Needs(n)
       /\ \A t : TaskOK(t)' <=> TaskOK(t)
       /\ \A t, n : Owes(t, n)' <=> Owes(t, n)
       /\ \A k, y : Declares(k, y)' <=> Declares(k, y)
  BY <1>1, <1>2, SameSource, SMTT(30)
<1>13. /\ DOMAIN an' = Modules
       /\ \A k \in Modules : /\ DOMAIN an'[k] = Fields
                             /\ \A f \in Fields \ {"state"} : an'[k][f] = an[k][f]
                             /\ k # m => an'[k] = an[k]
       /\ an'[m].state = [an[m].state EXCEPT ![x] = "resolving"]
  <2>1. \A k \in Modules : DOMAIN an[k] = Fields
    BY <1>2 DEF Shapes
  <2>2. "state" \in Fields
    BY DEF Fields
  <2> QED
    BY <1>1, <1>2, <1>3, <2>1, <2>2
<1>14. \A k \in Modules : /\ an'[k].adopted = an[k].adopted /\ an'[k].origins = an[k].origins
                          /\ an'[k].structs = an[k].structs
  BY <1>13 DEF Fields
<1>15. \A n \in Everything : an'[n[1]].state[n[2]] = IF n = n0 THEN "resolving" ELSE an[n[1]].state[n[2]]
  <2> SUFFICES ASSUME NEW n \in Everything
               PROVE  an'[n[1]].state[n[2]] = IF n = n0 THEN "resolving" ELSE an[n[1]].state[n[2]]
    OBVIOUS
  <2>1. n = <<n[1], n[2]>> /\ n[1] \in Modules /\ Declares(n[1], n[2])
    BY <1>2, ProgramFacts
  <2>2. an[m].state \in [{y.name : y \in Decls(m)} -> {"pending", "resolving", "done"}]
    BY <1>2, <1>3 DEF Shapes
  <2>3. x \in {y.name : y \in Decls(m)}
    BY <1>4 DEF Declares
  <2>4. CASE n[1] # m
    BY <1>13, <2>1, <2>4
  <2>5. CASE n[1] = m
    <3>1. n[2] = x <=> n = n0
      BY <2>1, <2>5
    <3>2. n[2] \in DOMAIN an[m].state
      BY <2>1, <2>2, <2>5 DEF Declares
    <3>3. an'[m].state[n[2]] = IF n[2] = x THEN "resolving" ELSE an[m].state[n[2]]
      BY <1>13, <3>2
    <3> QED
      BY <2>5, <3>1, <3>3
  <2> QED
    BY <2>4, <2>5
<1>16. an[m].state[x] = "pending"
  BY <1>1, <1>3
<1>17. StackOK'
  <2>1. \A i \in 1..N : ~resolving[i].var => <<resolving[i].of, resolving[i].name>> # n0
    BY <1>2, <1>7, <1>16 DEF StackOK
  <2>2. ASSUME NEW i \in 1..N + 1
        PROVE  IF resolving'[i].var THEN i > 1 /\ ~resolving'[i - 1].var
               ELSE /\ <<resolving'[i].of, resolving'[i].name>> \in Everything
                    /\ an'[resolving'[i].of].state[resolving'[i].name] = "resolving"
                    /\ i > 1 => <<resolving'[i].of, resolving'[i].name>> \in Needs(OwnerOf(resolving', i - 1))
    <3>1. \A j \in 1..N : OwnerOf(resolving', j) = OwnerOf(resolving, j)
      <4> SUFFICES ASSUME NEW j \in 1..N PROVE OwnerOf(resolving', j) = OwnerOf(resolving, j)
        OBVIOUS
      <4>1. resolving[j].var => j > 1
        BY <1>2, <1>7 DEF StackOK
      <4>2. j > 1 => j - 1 \in 1..N
        BY <1>7
      <4> QED
        BY <1>7, <4>1, <4>2 DEF OwnerOf
    <3>2. CASE i \in 1..N
      <4>1. IF resolving[i].var THEN i > 1 /\ ~resolving[i - 1].var
            ELSE /\ <<resolving[i].of, resolving[i].name>> \in Everything
                 /\ an[resolving[i].of].state[resolving[i].name] = "resolving"
                 /\ i > 1 => <<resolving[i].of, resolving[i].name>> \in Needs(OwnerOf(resolving, i - 1))
        BY <1>2, <1>7, <3>2 DEF StackOK
      <4>2. resolving'[i] = resolving[i] /\ (i > 1 => i - 1 \in 1..N /\ resolving'[i - 1] = resolving[i - 1])
        BY <1>7, <3>2
      <4>3. i > 1 => OwnerOf(resolving', i - 1) = OwnerOf(resolving, i - 1)
        BY <3>1, <4>2
      <4>4. ~resolving[i].var => an'[resolving[i].of].state[resolving[i].name] = "resolving"
        BY <1>15, <2>1, <3>2, <4>1
      <4> QED
        BY <4>1, <4>2, <4>3, <4>4
    <3>3. CASE i = N + 1
      <4>1. resolving'[i] = e /\ e.var = FALSE /\ e.of = m /\ e.name = x
        BY <1>7, <3>3 DEF e, Entry
      <4>2. an'[m].state[x] = "resolving"
        BY <1>4, <1>15
      <4>3. i > 1 => n0 \in Needs(OwnerOf(resolving', i - 1))
        <5> SUFFICES ASSUME i > 1 PROVE n0 \in Needs(OwnerOf(resolving', i - 1))
          OBVIOUS
        <5>1. i - 1 = N /\ N \in 1..N /\ resolving # << >>
          BY <1>7, <3>3
        <5>2. Demands(Now) = {n0}
          BY <1>1, <1>4 DEF Demands, Later
        <5>3. n0 \in Needs(OwnerOf(resolving, N))
          BY <1>3, <5>1, <5>2 DEF Fits
        <5> QED
          BY <3>1, <5>1, <5>3
      <4> QED
        BY <1>4, <4>1, <4>2, <4>3
    <3> QED
      BY <1>7, <3>2, <3>3
  <2>3. ASSUME NEW i \in 1..N + 1, NEW j \in 1..N + 1, ~resolving'[i].var, ~resolving'[j].var,
               resolving'[i].of = resolving'[j].of, resolving'[i].name = resolving'[j].name
        PROVE  i = j
    <3>1. e.var = FALSE /\ e.of = m /\ e.name = x
      BY DEF e, Entry
    <3>2. \A k \in 1..N : resolving[k].var \/ resolving[k].of # e.of \/ resolving[k].name # e.name
      BY <2>1, <3>1
    <3>3. CASE i \in 1..N /\ j \in 1..N
      BY <1>2, <1>7, <2>3, <3>3 DEF StackOK
    <3>4. CASE i = N + 1 \/ j = N + 1
      BY <1>7, <2>3, <3>2, <3>4
    <3> QED
      BY <1>7, <3>3, <3>4
  <2>4. ASSUME NEW n \in Everything, an'[n[1]].state[n[2]] = "resolving"
        PROVE  \E i \in 1..N + 1 : resolving'[i] = Entry(n[1], n[2], FALSE)
    <3>1. CASE n = n0
      <4>1. e = Entry(n[1], n[2], FALSE)
        BY <3>1 DEF e
      <4>2. N + 1 \in 1..N + 1 /\ resolving'[N + 1] = e
        BY <1>7
      <4> QED
        BY <4>1, <4>2
    <3>2. CASE n # n0
      <4>1. an[n[1]].state[n[2]] = "resolving"
        BY <1>15, <2>4, <3>2
      <4>2. PICK i \in 1..N : resolving[i] = Entry(n[1], n[2], FALSE)
        BY <1>2, <1>7, <4>1 DEF StackOK
      <4>3. i \in 1..N + 1 /\ resolving'[i] = resolving[i]
        BY <1>7
      <4> QED
        BY <4>2, <4>3
    <3> QED
      BY <3>1, <3>2
  <2>5. \A s, i : OwnerOf(s, i)' = OwnerOf(s', i)
    BY DEF OwnerOf
  <2>6. \A i : OwnerOf(resolving, i)' = OwnerOf(resolving', i)
    BY DEF OwnerOf
  <2> QED
    BY <1>7, <1>12, <2>2, <2>3, <2>4, <2>6 DEF StackOK, Entry
<1>18. Open \subseteq Open' \cup {Now} /\ Open' \subseteq Open \cup ToSet(refs) \cup {d}
  BY <1>1, <1>3, <1>10 DEF Open
<1>19. \A t \in Open' : TaskOK(t)
  <2>1. TaskOK(d)
    BY <1>3, <1>4, <1>6 DEF TaskOK
  <2> QED
    BY <1>1, <1>9, <1>18, <2>1, Working
<1>20. NothingForgotten'
  <2>1. Hands(Now)
    <3>1. \A n \in Everything : Done(n) => Done(n)'
      BY <1>4, <1>15, <1>16 DEF Done
    <3>2. \E t \in Open' : Owes(t, n0) /\ Declares(t.m, t.name)
      BY <1>4, <1>6, <1>10 DEF Open, Owes
    <3>3. \A n \in Everything : Owes(Now, n) => n = n0
      BY <1>4 DEF Owes
    <3>4. \A n : n = n0 => Due(n)' /\ DueAtHome(n)'
      <4> SUFFICES ASSUME NEW n, n = n0 PROVE Due(n)' /\ DueAtHome(n)'
        OBVIOUS
      <4>1. PICK t \in Open' : Owes(t, n) /\ Declares(t.m, t.name)
        BY <3>2
      <4>2. Owes(t, n)' /\ Declares(t.m, t.name)'
        BY <1>12, <4>1
      <4> QED
        BY <4>1, <4>2 DEF Due, DueAtHome
    <3> QED
      BY <1>18, <3>1, <3>3, <3>4 DEF Hands
  <2>2. \A n \in Everything : (an[n[1]].state[n[2]] # "pending")' =>
          an[n[1]].state[n[2]] # "pending" \/ \A t \in Mentions(n) : Due(t)'
    <3>1. ASSUME NEW t \in Mentions(n0) PROVE Due(t)'
      <4>1. PICK u \in ToSet(uses) : t \in Target(m, u.type) \cup SizeTarget(m, u)
        BY DEF Mentions, UsesOf, Targets, uses
      <4>2. PICK r \in ToSet(refs) : Owes(r, t)
        BY <1>2, <1>3, <1>5, <4>1, RefsAre DEF refs
      <4>3. r \in Open' /\ Owes(r, t)'
        BY <1>10, <1>12, <4>2 DEF Open
      <4> QED
        BY <4>3 DEF Due
    <3> QED
      BY <1>15, <3>1
  <2>3. \A t \in Open : t.m \in Modules
    BY <1>1, Working DEF TaskOK
  <2>4. \A t \in Open' : t.m \in Modules
    BY <1>19 DEF TaskOK
  <2>5. \A t \in Open' : t.do \in {"copy", "bind"} => t \in Open
    BY <1>6, <1>9, <1>18
  <2> QED
    BY <1>1, <1>2, <1>14, <2>1, <2>2, <2>3, <2>4, <2>5, Working, StillRemembered
<1>21. WillSettle'
  BY <1>8 DEF WillSettle
<1>22. Shapes'
  <2>1. OriginsOK' /\ StructsOK'
    BY <1>2, <1>12, <1>14 DEF OriginsOK, StructsOK
  <2>3. \A k \in Modules : an'[k].state \in [{y.name : y \in Decls(k)} -> {"pending", "resolving", "done"}]
    <3>1. \A k \in Modules : an[k].state \in [{y.name : y \in Decls(k)} -> {"pending", "resolving", "done"}]
      BY <1>2 DEF Shapes
    <3>2. an'[m].state \in [{y.name : y \in Decls(m)} -> {"pending", "resolving", "done"}]
      <4> DEFINE A == {y.name : y \in Decls(m)}
                 f == an[m].state
      <4>1. f \in [A -> {"pending", "resolving", "done"}] /\ an'[m].state = [f EXCEPT ![x] = "resolving"]
        BY <1>3, <1>13, <3>1
      <4> HIDE DEF A, f
      <4>2. an'[m].state \in [A -> {"pending", "resolving", "done"}]
        BY <4>1
      <4> QED
        BY <4>2 DEF A
    <3> QED
      BY <1>13, <3>1, <3>2
  <2>4. \A k \in Modules : DOMAIN an'[k] = Fields
    BY <1>13
  <2> QED
    <3>1. InOrder(todo') /\ InOrder(settled')
      BY <1>1, <1>2, <1>10
    <3>2. ToSet(settled') \subseteq ToSet(settled) /\ InOrder(resolving') /\ DOMAIN an' = Modules
      BY <1>1, <1>7, <1>13
    <3> QED
      BY <1>1, <1>19, <2>1, <2>3, <2>4, <3>1, <3>2, ShapesStay
<1> QED
  BY <1>1, <1>11, <1>17, <1>20, <1>21, <1>22 DEF Inductive, CircularHasCause

-----------------------------------------------------------------------------
\* The steps that end what is being resolved.

LEMMA FrontIs ==
  ASSUME NEW s, InOrder(s), s # << >>
  PROVE  /\ InOrder(Front(s)) /\ Len(Front(s)) = Len(s) - 1 /\ DOMAIN Front(s) = 1..Len(s) - 1
         /\ \A i \in 1..Len(s) - 1 : Front(s)[i] = s[i]
         /\ Len(s) \in Nat \ {0} /\ DOMAIN s = 1..Len(s) /\ Last(s) = s[Len(s)]
<1> DEFINE S == ToSet(s)
<1>1. s \in Seq(S)
  BY DEF InOrder
<1> HIDE DEF S
<1>2. Len(s) \in Nat \ {0} /\ DOMAIN s = 1..Len(s) /\ Last(s) = s[Len(s)]
  BY <1>1 DEF Last
<1>3. Front(s) \in Seq(S)
  BY <1>1, <1>2 DEF Front
<1>4. Len(Front(s)) = Len(s) - 1 /\ \A i \in 1..Len(s) - 1 : Front(s)[i] = s[i]
  BY <1>1, <1>2 DEF Front
<1> QED
  BY <1>2, <1>3, <1>4, Orderly

\* What began last ends, and is done if it is a declaration.
LEMMA TopOff ==
  ASSUME IsProgram(program), program' = program, StackOK, InOrder(resolving), resolving # << >>,
         resolving' = Front(resolving),
         \A n \in Everything :
           an'[n[1]].state[n[2]] = IF Last(resolving) = Entry(n[1], n[2], FALSE) THEN "done"
                                   ELSE an[n[1]].state[n[2]]
  PROVE  /\ InOrder(resolving') /\ StackOK'
         /\ Last(resolving).var => resolving' # << >>
<1> DEFINE N == Len(resolving)
           M == N - 1
<1>1. /\ N \in Nat \ {0} /\ M \in Nat /\ DOMAIN resolving = 1..N /\ Last(resolving) = resolving[N]
      /\ Len(resolving') = M /\ DOMAIN resolving' = 1..M /\ InOrder(resolving')
      /\ \A i \in 1..M : resolving'[i] = resolving[i]
  <2> DEFINE f == Front(resolving)
  <2>1. /\ InOrder(f) /\ Len(f) = M /\ DOMAIN f = 1..M /\ \A i \in 1..M : f[i] = resolving[i]
        /\ N \in Nat \ {0} /\ DOMAIN resolving = 1..N /\ Last(resolving) = resolving[N]
    BY FrontIs
  <2>2. resolving' = f
    OBVIOUS
  <2> HIDE DEF f
  <2> QED
    BY <2>1, <2>2
<1> HIDE DEF N, M
<1>2. /\ \A i \in 1..M : i \in 1..N /\ i # N
      /\ \A i \in 1..N : i \in 1..M \/ i = N
      /\ \A i \in 1..M : i > 1 => i - 1 \in 1..M
  BY <1>1 DEF M
<1>3. Everything' = Everything /\ \A n : Needs(n)' = Needs(n)
  BY SameSource
<1>4. \A n \in Everything : n = <<n[1], n[2]>>
  BY ProgramFacts
<1>5. \A j \in 1..M : OwnerOf(resolving', j) = OwnerOf(resolving, j)
  <2> SUFFICES ASSUME NEW j \in 1..M PROVE OwnerOf(resolving', j) = OwnerOf(resolving, j)
    OBVIOUS
  <2>1. resolving[j].var => j > 1
    BY <1>1, <1>2 DEF StackOK
  <2>2. resolving[j].var => resolving'[j - 1] = resolving[j - 1]
    BY <1>1, <1>2, <2>1
  <2> QED
    BY <1>1, <2>2 DEF OwnerOf
<1>6. ASSUME NEW i \in 1..M
      PROVE  IF resolving'[i].var THEN i > 1 /\ ~resolving'[i - 1].var
             ELSE /\ <<resolving'[i].of, resolving'[i].name>> \in Everything
                  /\ an'[resolving'[i].of].state[resolving'[i].name] = "resolving"
                  /\ i > 1 => <<resolving'[i].of, resolving'[i].name>> \in Needs(OwnerOf(resolving', i - 1))
  <2>1. IF resolving[i].var THEN i > 1 /\ ~resolving[i - 1].var
        ELSE /\ <<resolving[i].of, resolving[i].name>> \in Everything
             /\ an[resolving[i].of].state[resolving[i].name] = "resolving"
             /\ i > 1 => <<resolving[i].of, resolving[i].name>> \in Needs(OwnerOf(resolving, i - 1))
    BY <1>1, <1>2 DEF StackOK
  <2>2. resolving'[i] = resolving[i] /\ (i > 1 => resolving'[i - 1] = resolving[i - 1])
    BY <1>1, <1>2
  <2>3. i > 1 => OwnerOf(resolving', i - 1) = OwnerOf(resolving, i - 1)
    BY <1>2, <1>5
  <2>4. ~resolving[i].var => an'[resolving[i].of].state[resolving[i].name] = "resolving"
    <3> SUFFICES ASSUME ~resolving[i].var PROVE an'[resolving[i].of].state[resolving[i].name] = "resolving"
      OBVIOUS
    <3> DEFINE n == <<resolving[i].of, resolving[i].name>>
    <3>1. n \in Everything /\ an[n[1]].state[n[2]] = "resolving"
      BY <2>1
    <3>2. PICK k \in 1..N : resolving[k] = Entry(n[1], n[2], FALSE)
      BY <1>1, <3>1 DEF StackOK
    <3>3. Last(resolving) # Entry(n[1], n[2], FALSE)
      <4> SUFFICES ASSUME Last(resolving) = Entry(n[1], n[2], FALSE) PROVE FALSE
        OBVIOUS
      <4>1. resolving[N].var = FALSE /\ resolving[N].of = resolving[i].of /\ resolving[N].name = resolving[i].name
        BY <1>1 DEF Entry
      <4>2. \A j \in 1..N : resolving[j].var \/ <<resolving[j].of, resolving[j].name>> \in Everything
        BY <1>1 DEF StackOK
      <4> QED
        BY <1>1, <1>2, <3>1, <4>1, SMTT(20) DEF StackOK
    <3> QED
      BY <3>1, <3>3
  <2> QED
    BY <2>1, <2>2, <2>3, <2>4
<1>7. ASSUME NEW i \in 1..M, NEW j \in 1..M, ~resolving'[i].var, ~resolving'[j].var,
             resolving'[i].of = resolving'[j].of, resolving'[i].name = resolving'[j].name
      PROVE  i = j
  BY <1>1, <1>2, <1>7 DEF StackOK
<1>8. ASSUME NEW n \in Everything, an'[n[1]].state[n[2]] = "resolving"
      PROVE  \E i \in 1..M : resolving'[i] = Entry(n[1], n[2], FALSE)
  <2>1. Last(resolving) # Entry(n[1], n[2], FALSE) /\ an[n[1]].state[n[2]] = "resolving"
    BY <1>8
  <2>2. PICK i \in 1..N : resolving[i] = Entry(n[1], n[2], FALSE)
    BY <1>1, <2>1 DEF StackOK
  <2>3. i \in 1..M /\ resolving'[i] = resolving[i]
    BY <1>1, <1>2, <2>1, <2>2
  <2> QED
    BY <2>2, <2>3
<1>9. StackOK'
  <2>1. \A i : OwnerOf(resolving, i)' = OwnerOf(resolving', i)
    BY DEF OwnerOf
  <2> QED
    BY <1>1, <1>3, <1>6, <1>7, <1>8, <2>1, SMTT(30) DEF StackOK, Entry
<1>10. ASSUME Last(resolving).var PROVE resolving' # << >>
  <2>1. N > 1
    <3>1. N \in DOMAIN resolving /\ resolving[N].var
      BY <1>1, <1>10
    <3> QED
      BY <3>1 DEF StackOK
  <2>2. M # 0
    BY <1>1, <2>1 DEF M
  <2> QED
    BY <1>1, <2>2
<1> QED
  BY <1>1, <1>9, <1>10

\* Every way to finish a declaration.
LEMMA Finished ==
  ASSUME Inductive, Doing("define"), NEW a, Finish(a),
         DOMAIN a = Fields, a.state = me.state, a.adopted = me.adopted,
         DOMAIN a.origins \subseteq DOMAIN a.structs \cup {Wide(n[1], n[2]) : n \in Everything},
         \A w \in DOMAIN a.structs : InOrder(a.structs[w].fields)
  PROVE  Inductive'
<1> DEFINE m == Now.m
           x == Now.name
           n0 == <<m, x>>
           s == Task("settle", m, x)
<1>1. /\ outcome = "working" /\ todo # << >> /\ Now.do = "define"
      /\ an' = [an EXCEPT ![m] = [a EXCEPT !.state[x] = "done"]]
      /\ resolving' = Front(resolving)
      /\ todo' = <<s>> \o Tail(todo)
      /\ UNCHANGED <<program, settled, outcome>>
  BY DEF Doing, Finish, Do
<1>2. /\ IsProgram(program) /\ Shapes /\ StackOK /\ Nested(resolving, todo) /\ program # << >>
      /\ InOrder(todo) /\ InOrder(settled) /\ InOrder(resolving) /\ OriginsOK /\ StructsOK
      /\ DOMAIN an = Modules /\ \A k \in Modules : DOMAIN an[k] = Fields
  BY <1>1, Working DEF Shapes
<1>3. /\ TaskOK(Now) /\ m \in Modules /\ me = an[m] /\ Now = todo[1] /\ Now \in Open
      /\ InOrder(Tail(todo)) /\ ToSet(todo) = {Now} \cup ToSet(Tail(todo))
  BY <1>1, Next1
<1>4. Declares(m, x) /\ n0 \in Everything /\ Target(m, x) = {n0}
  <2>1. Declares(m, x)
    BY <1>1, <1>3 DEF TaskOK
  <2> QED
    BY <1>2, <1>3, <2>1, ProgramFacts DEF Target
<1>5. s.do = "settle" /\ s.m = m /\ s.name = x /\ s.sub = m /\ DOMAIN s = {"do", "m", "name", "via", "sub", "wide"}
  BY TaskIs
<1> HIDE DEF s
<1>6. TaskOK(s)
  BY <1>3, <1>5 DEF TaskOK
<1>7. resolving # << >> /\ Last(resolving) = Entry(m, x, FALSE) /\ Nested(resolving', Tail(todo))
  <2>1. resolving # << >> /\ Closes(Last(resolving), Now) /\ Nested(Front(resolving), Tail(todo))
    BY <1>1, <1>2, <1>3, Ended DEF Ends
  <2>2. Last(resolving) = Entry(m, x, FALSE)
    BY <1>1, <2>1 DEF Closes, Entry
  <2> QED
    BY <1>1, <2>1, <2>2
<1>8. InOrder(todo') /\ ToSet(todo') = {s} \cup ToSet(Tail(todo))
  BY <1>1, <1>3, OneOf, Joined, SMTT(30)
<1>9. /\ DOMAIN an' = Modules
      /\ \A k \in Modules \ {m} : an'[k] = an[k]
      /\ DOMAIN an'[m] = Fields
      /\ \A f \in Fields \ {"state"} : an'[m][f] = a[f]
      /\ an'[m].state = [an[m].state EXCEPT ![x] = "done"]
  <2>1. "state" \in Fields
    BY DEF Fields
  <2> QED
    BY <1>1, <1>2, <1>3, <2>1
<1>10. an'[m].adopted = an[m].adopted /\ an'[m].origins = a.origins /\ an'[m].structs = a.structs
  BY <1>3, <1>9 DEF Fields
<1>11. \A n \in Everything : an'[n[1]].state[n[2]] = IF n = n0 THEN "done" ELSE an[n[1]].state[n[2]]
  <2> SUFFICES ASSUME NEW n \in Everything
               PROVE  an'[n[1]].state[n[2]] = IF n = n0 THEN "done" ELSE an[n[1]].state[n[2]]
    OBVIOUS
  <2>1. n = <<n[1], n[2]>> /\ n[1] \in Modules /\ Declares(n[1], n[2])
    BY <1>2, ProgramFacts
  <2>2. an[m].state \in [{y.name : y \in Decls(m)} -> {"pending", "resolving", "done"}]
    BY <1>2, <1>3 DEF Shapes
  <2>3. CASE n[1] # m
    BY <1>9, <2>1, <2>3
  <2>4. CASE n[1] = m
    <3>1. n[2] = x <=> n = n0
      BY <2>1, <2>4
    <3>2. n[2] \in DOMAIN an[m].state
      BY <2>1, <2>2, <2>4 DEF Declares
    <3>3. an'[m].state[n[2]] = IF n[2] = x THEN "done" ELSE an[m].state[n[2]]
      BY <1>9, <3>2
    <3> QED
      BY <2>4, <3>1, <3>3
  <2> QED
    BY <2>3, <2>4
<1>12. StackOK' /\ InOrder(resolving')
  <2>1. \A n \in Everything : n = n0 <=> Last(resolving) = Entry(n[1], n[2], FALSE)
    <3>1. \A n \in Everything : n = <<n[1], n[2]>>
      BY <1>2, ProgramFacts
    <3>2. \A n \in Everything : n = n0 <=> n[1] = m /\ n[2] = x
      BY <3>1
    <3>3. \A k, y : Entry(m, x, FALSE) = Entry(k, y, FALSE) <=> m = k /\ x = y
      BY DEF Entry
    <3> QED
      BY <1>7, <3>2, <3>3
  <2> QED
    BY <1>1, <1>2, <1>7, <1>11, <2>1, TopOff
<1>13. Nested(resolving, todo)'
  <2>1. Fits(s, resolving')
    BY <1>5, Quiet DEF Unhurried
  <2>2. \A t \in ToSet(<<s>>) : t.do \notin Ends /\ Fits(t, resolving')
    BY <1>5, <2>1, OneOf DEF Ends
  <2>3. InOrder(<<s>>) /\ InOrder(resolving')
    BY <1>12, OneOf
  <2>4. Nested(resolving', <<s>> \o Tail(todo))
    BY <1>3, <1>7, <2>2, <2>3, PutThere
  <2>5. Nested(resolving', todo')
    BY <1>1, <2>4
  <2> QED
    BY <1>1, <2>5, SameSource
<1>14. Open \subseteq Open' \cup {Now} /\ Open' \subseteq Open \cup {s}
  BY <1>1, <1>3, <1>8 DEF Open
<1>15. NothingForgotten'
  <2>1. Hands(Now)
    <3>1. \A n \in Everything : Done(n) => Done(n)'
      BY <1>11 DEF Done
    <3>2. \A n \in Everything : Owes(Now, n) => Done(n)'
      BY <1>4, <1>11 DEF Owes, Done
    <3> QED
      BY <1>14, <3>1, <3>2 DEF Hands, Due, DueAtHome
  <2>2. \A n \in Everything : (an[n[1]].state[n[2]] # "pending")' => an[n[1]].state[n[2]] # "pending"
    <3>1. an[m].state[x] = "resolving"
      <4> DEFINE N == Len(resolving)
      <4>1. N \in DOMAIN resolving /\ resolving[N] = Entry(m, x, FALSE)
        <5>1. N \in Nat \ {0} /\ DOMAIN resolving = 1..N /\ Last(resolving) = resolving[N]
          BY <1>2, <1>7, FrontIs
        <5> HIDE DEF N
        <5>2. N \in 1..N
          BY <5>1
        <5> QED
          BY <1>7, <5>1, <5>2
      <4>2. resolving[N].var = FALSE /\ resolving[N].of = m /\ resolving[N].name = x
        BY <4>1 DEF Entry
      <4> HIDE DEF N
      <4> QED
        BY <1>2, <4>1, <4>2, ZenonT(30) DEF StackOK
    <3> QED
      BY <1>11, <3>1
  <2>3. \A t \in Open : t.m \in Modules
    BY <1>1, Working DEF TaskOK
  <2>4. \A t \in Open' : t.m \in Modules
    BY <1>3, <1>5, <1>14, <2>3
  <2>5. \A t \in Open' : t.do \in {"copy", "bind"} => t \in Open
    BY <1>5, <1>14
  <2>6. \A k \in Modules : an'[k].adopted = an[k].adopted
    BY <1>9, <1>10
  <2> QED
    BY <1>1, <1>2, <2>1, <2>2, <2>3, <2>4, <2>5, <2>6, Working, StillRemembered
<1>16. WillSettle'
  BY <1>5, <1>8 DEF WillSettle
<1>17. Shapes'
  <2>1. Modules' = Modules /\ Everything' = Everything /\ \A k, y : Wide(k, y)' = Wide(k, y)
    BY <1>1, SameSource
  <2>2. OriginsOK'
    <3> SUFFICES ASSUME NEW k \in Modules
                 PROVE  DOMAIN an'[k].origins \subseteq DOMAIN an'[k].structs \cup {Wide(n[1], n[2]) : n \in Everything}
      BY <2>1 DEF OriginsOK
    <3> QED
      BY <1>2, <1>9, <1>10 DEF OriginsOK
  <2>3. StructsOK'
    <3> SUFFICES ASSUME NEW k \in Modules, NEW w \in DOMAIN an'[k].structs PROVE InOrder(an'[k].structs[w].fields)
      BY <2>1 DEF StructsOK
    <3> QED
      BY <1>2, <1>9, <1>10 DEF StructsOK
  <2>4. \A k \in Modules : an'[k].state \in [{y.name : y \in Decls(k)} -> {"pending", "resolving", "done"}]
    <3>1. \A k \in Modules : an[k].state \in [{y.name : y \in Decls(k)} -> {"pending", "resolving", "done"}]
      BY <1>2 DEF Shapes
    <3>2. an'[m].state \in [{y.name : y \in Decls(m)} -> {"pending", "resolving", "done"}]
      <4> DEFINE A == {y.name : y \in Decls(m)}
                 f == an[m].state
      <4>1. f \in [A -> {"pending", "resolving", "done"}] /\ an'[m].state = [f EXCEPT ![x] = "done"]
        BY <1>3, <1>9, <3>1
      <4> HIDE DEF A, f
      <4>2. an'[m].state \in [A -> {"pending", "resolving", "done"}]
        BY <4>1
      <4> QED
        BY <4>2 DEF A
    <3> QED
      BY <1>9, <3>1, <3>2
  <2>5. \A k \in Modules : DOMAIN an'[k] = Fields
    BY <1>2, <1>9
  <2>6. \A t \in Open' : TaskOK(t)
    BY <1>1, <1>6, <1>14, Working
  <2>7. InOrder(todo') /\ InOrder(settled') /\ InOrder(resolving')
    BY <1>1, <1>2, <1>8, <1>12
  <2>8. ToSet(settled') \subseteq ToSet(settled) /\ DOMAIN an' = Modules
    BY <1>1, <1>9
  <2> QED
    BY <1>1, <2>2, <2>3, <2>4, <2>5, <2>6, <2>7, <2>8, ShapesStay
<1> QED
  BY <1>1, <1>12, <1>13, <1>15, <1>16, <1>17 DEF Inductive, CircularHasCause

\* What the analyzer of a declaration knows when it is finished.
LEMMA MeIs ==
  ASSUME Inductive, Doing("define")
  PROVE  /\ DOMAIN me = Fields /\ Now.m \in Modules /\ me = an[Now.m]
         /\ DOMAIN me.origins \subseteq DOMAIN me.structs \cup {Wide(n[1], n[2]) : n \in Everything}
         /\ \A w \in DOMAIN me.structs : InOrder(me.structs[w].fields)
         /\ Self \in {Wide(n[1], n[2]) : n \in Everything}
         /\ Uses = DeclOf(Now.m, Now.name).uses /\ InOrder(Uses)
<1>1. /\ outcome = "working" /\ todo # << >> /\ Now.do = "define" /\ TaskOK(Now) /\ Now.m \in Modules
      /\ me = an[Now.m]
  BY Next1 DEF Doing
<1>2. IsProgram(program) /\ OriginsOK /\ StructsOK /\ \A m \in Modules : DOMAIN an[m] = Fields
  BY <1>1, Working DEF Shapes
<1>3. <<Now.m, Now.name>> \in Everything /\ DeclOf(Now.m, Now.name) \in Decls(Now.m)
  BY <1>1, <1>2, ProgramFacts DEF TaskOK
<1>4. InOrder(Uses)
  <2>1. DeclOf(Now.m, Now.name) \in ToSet(program[Now.m].decls)
    BY <1>3 DEF Decls
  <2> QED
    BY <1>1, <1>2, <2>1 DEF IsProgram, Modules, Uses
<1>5. Self \in {Wide(n[1], n[2]) : n \in Everything}
  BY <1>3 DEF Self
<1> QED
  BY <1>1, <1>2, <1>4, <1>5 DEF OriginsOK, StructsOK, Uses

\* A constant gets its value, ...
LEMMA DefineConstStep == ASSUME Inductive, DefineConst PROVE Inductive'
<1> DEFINE a == [me EXCEPT !.known = @ \cup {Now.name}]
<1>1. Doing("define") /\ Finish(a)
  BY DEF DefineConst, Defining
<1>2. DOMAIN a = Fields /\ \A f \in Fields \ {"known"} : a[f] = me[f]
  BY <1>1, MeIs
<1> HIDE DEF a
<1>3. a.state = me.state /\ a.adopted = me.adopted /\ a.origins = me.origins /\ a.structs = me.structs
  BY <1>2 DEF Fields
<1> QED
  BY <1>1, <1>2, <1>3, MeIs, Finished

\* ... or waits for the variable whose type it names.
LEMMA DeferConstStep == ASSUME Inductive, DeferConst PROVE Inductive'
<1> DEFINE a == [me EXCEPT !.deferred = @ \cup {Now.name}]
<1>1. Doing("define") /\ Finish(a)
  BY DEF DeferConst, Defining
<1>2. DOMAIN a = Fields /\ \A f \in Fields \ {"deferred"} : a[f] = me[f]
  BY <1>1, MeIs
<1> HIDE DEF a
<1>3. a.state = me.state /\ a.adopted = me.adopted /\ a.origins = me.origins /\ a.structs = me.structs
  BY <1>2 DEF Fields
<1> QED
  BY <1>1, <1>2, <1>3, MeIs, Finished

\* An alias gets its type.
LEMMA DefineAliasStep == ASSUME Inductive, DefineAlias PROVE Inductive'
<1> DEFINE t == Bound(me, Uses[1])
           a == [me EXCEPT !.types = With(@, Now.name, t)]
<1>1. Doing("define") /\ Finish(a)
  BY DEF DefineAlias, Defining
<1> HIDE DEF t
<1>2. DOMAIN a = Fields /\ \A f \in Fields \ {"types"} : a[f] = me[f]
  BY <1>1, MeIs
<1> HIDE DEF a
<1>3. a.state = me.state /\ a.adopted = me.adopted /\ a.origins = me.origins /\ a.structs = me.structs
  BY <1>2 DEF Fields
<1> QED
  BY <1>1, <1>2, <1>3, MeIs, Finished

\* A name that is declared is claimed.
LEMMA DeclaredIs ==
  ASSUME Inductive, Doing("define"), NEW t
  PROVE  /\ DOMAIN Declared(t) = Fields
         /\ Declared(t).state = me.state /\ Declared(t).adopted = me.adopted /\ Declared(t).structs = me.structs
         /\ DOMAIN Declared(t).origins \subseteq DOMAIN me.structs \cup {Wide(n[1], n[2]) : n \in Everything}
<1> DEFINE a == Declared(t)
<1>1. /\ DOMAIN a = Fields /\ \A f \in Fields \ {"types", "origins"} : a[f] = me[f]
      /\ a.origins = With(me.origins, Self, Now.m)
  <2>1. DOMAIN me = Fields /\ {"types", "origins"} \subseteq Fields
    BY MeIs DEF Fields
  <2> QED
    BY <2>1 DEF Declared
<1>2. DOMAIN a.origins = DOMAIN me.origins \cup {Self}
  BY <1>1 DEF With
<1> HIDE DEF a
<1>3. a.state = me.state /\ a.adopted = me.adopted /\ a.structs = me.structs
  BY <1>1 DEF Fields
<1> QED
  BY <1>1, <1>2, <1>3, MeIs DEF a

\* An enum gets its constants.
LEMMA DefineEnumStep == ASSUME Inductive, DefineEnum PROVE Inductive'
<1> DEFINE t == Type(<< >>, Global("int32"))
<1>1. Doing("define") /\ Finish(Declared(t))
  BY DEF DefineEnum, Defining
<1> HIDE DEF t
<1> QED
  BY <1>1, MeIs, DeclaredIs, Finished

\* A struct gets its layout.
LEMMA DefineStructStep == ASSUME Inductive, DefineStruct PROVE Inductive'
<1> DEFINE t == Type(<< >>, Self)
           ts == [i \in DOMAIN Uses |-> Bound(me, Uses[i])]
           s == StructOf(me, ts)
           a == [Declared(t) EXCEPT !.structs = With(@, Self, s)]
<1>1. Doing("define") /\ Finish(a)
  BY DEF DefineStruct, Defining
<1>2. InOrder(s.fields)
  <2>1. DOMAIN Uses = 1..Len(Uses) /\ Len(Uses) \in Nat
    BY <1>1, MeIs DEF InOrder
  <2>2. s.fields = ts
    BY DEF StructOf
  <2>3. ts \in Seq({Bound(me, Uses[i]) : i \in DOMAIN Uses})
    BY <2>1
  <2> HIDE DEF ts, s
  <2> QED
    BY <2>2, <2>3, Orderly
<1> HIDE DEF t, s
<1>3. /\ DOMAIN a = Fields /\ \A f \in Fields \ {"structs"} : a[f] = Declared(t)[f]
      /\ a.structs = With(me.structs, Self, s)
  <2>1. "structs" \in Fields
    BY DEF Fields
  <2>2. DOMAIN Declared(t) = Fields /\ Declared(t).structs = me.structs
    BY <1>1, DeclaredIs
  <2> QED
    BY <2>1, <2>2
<1>4. /\ DOMAIN a.structs = DOMAIN me.structs \cup {Self}
      /\ \A w \in DOMAIN a.structs : InOrder(a.structs[w].fields)
  <2>1. /\ DOMAIN a.structs = DOMAIN me.structs \cup {Self}
        /\ \A w \in DOMAIN a.structs : a.structs[w] = IF w = Self THEN s ELSE me.structs[w]
    BY <1>3 DEF With
  <2> QED
    BY <1>1, <1>2, <2>1, MeIs
<1> HIDE DEF a
<1>5. a.state = me.state /\ a.adopted = me.adopted /\ a.origins = Declared(t).origins
  <2>1. Declared(t).state = me.state /\ Declared(t).adopted = me.adopted
    BY <1>1, DeclaredIs
  <2> QED
    BY <1>3, <2>1 DEF Fields
<1>6. DOMAIN a.origins \subseteq DOMAIN a.structs \cup {Wide(n[1], n[2]) : n \in Everything}
  BY <1>1, <1>4, <1>5, DeclaredIs
<1> QED
  BY <1>1, <1>3, <1>4, <1>5, <1>6, Finished

\* A declaration is wrong.
LEMMA DefineFailsStep == ASSUME Inductive, DefineFails PROVE Inductive'
<1>1. \A a, self, t : FieldError(a, self, t) \in (Errors \ {"circular"}) \cup {""}
  BY DEF FieldError, Errors
<1>2. \A u : RefusalOf(u) \in (Errors \ {"circular"}) \cup {""}
  BY <1>1 DEF RefusalOf, Errors
<1>3. StructError \in (Errors \ {"circular"}) \cup {""} /\ EnumError \in (Errors \ {"circular"}) \cup {""}
  BY <1>2 DEF StructError, EnumError, Errors
<1>4. \E why : /\ Fail(why) /\ why # ""
              /\ \/ why = ""
                 \/ Doing("define") /\ why \in {StructError, EnumError, "unknown"}
  BY DEF DefineFails, Defining
<1>5. Doing("define") /\ \E why : Fail(why) /\ why \in Errors /\ why # "circular"
  BY <1>3, <1>4 DEF Errors
<1>6. PICK why : Fail(why) /\ why \in Errors /\ why # "circular"
  BY <1>5
<1>7. "ok" \notin Errors
  BY DEF Errors
<1> QED
  BY <1>5, <1>6, <1>7, Stopped DEF Fail, Doing

\* A least number there is.
LEMMA MinIs == ASSUME NEW T \in SUBSET Nat, T # {} PROVE Min(T) \in T /\ \A y \in T : Min(T) <= y
<1>1. PICK x \in T : \A y \in T : x <= y
  BY LeastNat
<1> QED
  BY <1>1 DEF Min

\* A variable's type has been looked at for a constant.
LEMMA TopVarTypeStep == ASSUME Inductive, TopVarType PROVE Inductive'
<1> DEFINE m == Now.m
           x == Now.name
           e == Last(resolving)
<1>1. /\ outcome = "working" /\ todo # << >> /\ Now.do = "var"
      /\ \E s, z : an' = [an EXCEPT ![m].seen = s, ![m].sized = z]
      /\ resolving' = Front(resolving)
      /\ todo' = << >> \o Tail(todo)
      /\ UNCHANGED <<program, settled, outcome>>
  BY DEF TopVarType, Doing, Do
<1>2. /\ IsProgram(program) /\ Shapes /\ StackOK /\ Nested(resolving, todo) /\ program # << >>
      /\ InOrder(todo) /\ InOrder(settled) /\ InOrder(resolving) /\ OriginsOK /\ StructsOK
      /\ DOMAIN an = Modules /\ \A k \in Modules : DOMAIN an[k] = Fields
  BY <1>1, Working DEF Shapes
<1>3. /\ TaskOK(Now) /\ m \in Modules /\ Now = todo[1] /\ Now \in Open
      /\ InOrder(Tail(todo)) /\ ToSet(todo) = {Now} \cup ToSet(Tail(todo))
  BY <1>1, Next1
<1>4. todo' = Tail(todo)
  BY <1>1, <1>3 DEF InOrder
<1>5. resolving # << >> /\ e.var = TRUE /\ Nested(resolving', todo')
  <2>1. resolving # << >> /\ Closes(e, Now) /\ Nested(Front(resolving), Tail(todo))
    BY <1>1, <1>2, <1>3, Ended DEF Ends
  <2>2. e = Entry(m, x, TRUE)
    BY <1>1, <2>1 DEF Closes
  <2> QED
    BY <1>1, <1>4, <2>1, <2>2 DEF Entry
<1>6. /\ DOMAIN an' = Modules
      /\ \A k \in Modules : /\ DOMAIN an'[k] = Fields
                            /\ \A f \in Fields \ {"seen", "sized"} : an'[k][f] = an[k][f]
  BY <1>1, <1>2, <1>3
<1>7. \A k \in Modules : /\ an'[k].adopted = an[k].adopted /\ an'[k].origins = an[k].origins
                         /\ an'[k].structs = an[k].structs /\ an'[k].state = an[k].state
  BY <1>6 DEF Fields
<1>8. \A n \in Everything : n[1] \in Modules /\ an'[n[1]].state = an[n[1]].state
  BY <1>1, <1>7, Working
<1>9. StackOK' /\ InOrder(resolving') /\ resolving' # << >>
  <2>1. \A k, y : e # Entry(k, y, FALSE)
    BY <1>5 DEF Entry
  <2> HIDE DEF e
  <2>2. \A n \in Everything :
          an'[n[1]].state[n[2]] = IF e = Entry(n[1], n[2], FALSE) THEN "done" ELSE an[n[1]].state[n[2]]
    BY <1>8, <2>1
  <2> QED
    BY <1>1, <1>2, <1>5, <2>2, TopOff DEF e
<1>10. Nested(resolving, todo)'
  BY <1>1, <1>5, SameSource
<1>11. Open \subseteq Open' \cup {Now} /\ Open' \subseteq Open
  BY <1>1, <1>3, <1>4, SMTT(30) DEF Open
<1>12. NothingForgotten'
  <2>1. Hands(Now)
    <3>1. \A n \in Everything : Done(n) => Done(n)'
      BY <1>8 DEF Done
    <3> QED
      BY <1>1, <1>11, <3>1 DEF Hands, Owes
  <2>2. \A t \in Open : t.m \in Modules
    BY <1>1, Working DEF TaskOK
  <2> QED
    BY <1>1, <1>2, <1>7, <1>8, <1>11, <2>1, <2>2, Working, StillRemembered
<1>13. WillSettle'
  BY <1>9 DEF WillSettle
<1>14. Shapes'
  <2>1. Modules' = Modules /\ Everything' = Everything /\ \A k, y : Wide(k, y)' = Wide(k, y)
    BY <1>1, SameSource
  <2>2. OriginsOK' /\ StructsOK'
    BY <1>2, <1>7, <2>1 DEF OriginsOK, StructsOK
  <2>3. \A k \in Modules : an'[k].state \in [{y.name : y \in Decls(k)} -> {"pending", "resolving", "done"}]
    BY <1>2, <1>7 DEF Shapes
  <2>4. \A k \in Modules : DOMAIN an'[k] = Fields
    BY <1>6
  <2>5. \A t \in Open' : TaskOK(t)
    BY <1>1, <1>11, Working
  <2>6. InOrder(todo') /\ InOrder(settled') /\ InOrder(resolving')
    BY <1>1, <1>2, <1>3, <1>4, <1>9
  <2>7. ToSet(settled') \subseteq ToSet(settled) /\ DOMAIN an' = Modules
    BY <1>1, <1>6
  <2> QED
    BY <1>1, <2>2, <2>3, <2>4, <2>5, <2>6, <2>7, ShapesStay
<1> QED
  BY <1>1, <1>9, <1>10, <1>12, <1>13, <1>14 DEF Inductive, CircularHasCause

\* A constant looks at the type of a variable that it names.
LEMMA LookAtVarStep == ASSUME Inductive, LookAtVar PROVE Inductive'
<1> DEFINE m == Now.m
           x == Now.name
           n0 == <<m, x>>
           w == Waited
           e == Entry(m, w, TRUE)
           d == Task("var", m, w)
           uses == VarType(m, w)
           refs == Refs(m, uses)
           N == Len(resolving)
<1>1. /\ outcome = "working" /\ todo # << >> /\ Now.do = "define" /\ Doing("define")
      /\ NotConst # {} /\ VarPos(m, w) # {}
      /\ resolving' = Append(resolving, e)
      /\ todo' = (refs \o <<d>>) \o todo
      /\ UNCHANGED <<program, an, settled, outcome>>
  BY DEF LookAtVar, Defining, Doing, Looked
<1>2. /\ IsProgram(program) /\ Shapes /\ StackOK /\ Nested(resolving, todo) /\ program # << >>
      /\ InOrder(todo) /\ InOrder(settled) /\ InOrder(resolving) /\ OriginsOK /\ StructsOK
      /\ DOMAIN an = Modules /\ \A k \in Modules : DOMAIN an[k] = Fields
  BY <1>1, Working DEF Shapes
<1>3. TaskOK(Now) /\ m \in Modules /\ Now = todo[1] /\ Now \in Open
  BY <1>1, Next1
<1>4. Declares(m, x) /\ n0 \in Everything
  <2>1. Declares(m, x)
    BY <1>1, <1>3 DEF TaskOK
  <2> QED
    BY <1>2, <1>3, <2>1, ProgramFacts
<1>5. InOrder(uses) /\ ToSet(uses) \subseteq Through(n0)
  <2> DEFINE k == Min(VarPos(m, w))
             j == Min(NotConst)
  <2>1. DOMAIN program[m].decls \in SUBSET Nat
    <3>1. InOrder(program[m].decls)
      BY <1>2, <1>3 DEF IsProgram, Modules
    <3> QED
      BY <3>1 DEF InOrder
  <2>2. VarPos(m, w) \in SUBSET Nat
    BY <2>1 DEF VarPos
  <2>3. k \in VarPos(m, w)
    BY <1>1, <2>2, MinIs, SMTT(30)
  <2>4. k \in DOMAIN program[m].decls
    BY <2>3 DEF VarPos
  <2>5. program[m].decls[k] \in ToSet(program[m].decls)
    BY <2>4 DEF ToSet
  <2>6. uses = program[m].decls[k].uses
    BY DEF VarType
  <2>7. InOrder(uses)
    BY <1>2, <1>3, <2>5, <2>6 DEF IsProgram, Modules
  <2>8. DOMAIN Uses \in SUBSET Nat /\ Uses = DeclOf(m, x).uses
    BY <1>1, MeIs DEF InOrder
  <2>9. NotConst \in SUBSET Nat /\ NotConst \subseteq DOMAIN Uses
    BY <2>8 DEF NotConst
  <2>10. j \in DOMAIN Uses
    BY <1>1, <2>9, MinIs
  <2>11. Uses[j] \in UsesOf(n0) /\ w = Uses[j].type
    BY <2>8, <2>10 DEF UsesOf, ToSet, Waited
  <2> HIDE DEF k, j, w
  <2>12. k \in UNION {VarPos(n0[1], u.type) : u \in UsesOf(n0)}
    BY <2>3, <2>11
  <2>13. ToSet(program[m].decls[k].uses) \subseteq Through(n0)
    BY <2>12 DEF Through
  <2> QED
    BY <2>6, <2>7, <2>13
<1>6. d.do = "var" /\ d.m = m /\ d.name = w /\ d.sub = m /\ DOMAIN d = {"do", "m", "name", "via", "sub", "wide"}
  BY TaskIs
<1>7. e.var = TRUE /\ e.of = m /\ e.name = w
  BY DEF Entry
<1>8. Closes(e, d)
  BY <1>6 DEF Closes, Ends
<1> HIDE DEF d, e, uses, refs, w
<1>9. TaskOK(d)
  BY <1>1, <1>3, <1>6 DEF TaskOK
<1>10. resolving # << >> /\ Last(resolving).var = FALSE /\ Last(resolving).of = m /\ Last(resolving).name = x
  <2>1. resolving # << >> /\ Closes(Last(resolving), Now)
    BY <1>1, <1>2, <1>3, Ended DEF Ends
  <2>2. Last(resolving) = Entry(m, x, FALSE)
    BY <1>1, <2>1 DEF Closes, Entry
  <2> QED
    BY <2>1, <2>2 DEF Entry
<1>11. /\ N \in Nat \ {0} /\ DOMAIN resolving = 1..N /\ Last(resolving) = resolving[N]
       /\ Len(resolving') = N + 1 /\ DOMAIN resolving' = 1..N + 1
       /\ resolving'[N + 1] = e /\ \A i \in 1..N : resolving'[i] = resolving[i]
  <2>1. resolving \in Seq(ToSet(resolving) \cup {e})
    BY <1>2 DEF InOrder
  <2>2. N \in Nat \ {0} /\ DOMAIN resolving = 1..N /\ Last(resolving) = resolving[N]
    BY <1>2, <1>10, FrontIs
  <2>3. /\ Len(resolving') = N + 1 /\ DOMAIN resolving' = 1..N + 1
        /\ resolving'[N + 1] = e /\ \A i \in 1..N : resolving'[i] = resolving[i]
    BY <1>1, <2>1
  <2> QED
    BY <2>2, <2>3
<1> HIDE DEF N
<1>12. InOrder(resolving')
  BY <1>1, <1>2, Appended
<1>13. resolving' # << >> /\ OwnerOf(resolving', Len(resolving')) = n0
  <2>1. Len(resolving') = N + 1 /\ resolving'[N + 1].var /\ resolving'[(N + 1) - 1] = Last(resolving)
    BY <1>7, <1>11
  <2> QED
    BY <1>10, <1>11, <2>1 DEF OwnerOf
<1>14. InOrder(refs) /\ \A t \in ToSet(refs) : TaskOK(t) /\ t.do = "ensure" /\ Fits(t, resolving')
  BY <1>2, <1>4, <1>5, <1>13, RefsFit DEF refs
<1>15. InOrder(<<d>> \o todo) /\ todo' = refs \o (<<d>> \o todo)
  BY <1>1, <1>2, <1>14, OneOf, Joined, JoinedTwice, SMTT(20)
<1>16. InOrder(todo') /\ ToSet(todo') = ToSet(refs) \cup {d} \cup ToSet(todo)
  <2>1. ToSet(<<d>> \o todo) = {d} \cup ToSet(todo)
    BY <1>2, OneOf, Joined
  <2> QED
    BY <1>14, <1>15, <2>1, Joined
<1>17. Nested(resolving, todo)'
  <2> DEFINE back == <<d>> \o todo
  <2>1. Nested(resolving', back)
    BY <1>1, <1>2, <1>8, Begun
  <2>2. \A t \in ToSet(refs) : t.do \notin Ends /\ Fits(t, resolving')
    BY <1>14 DEF Ends
  <2> HIDE DEF back
  <2>3. Nested(resolving', refs \o back)
    BY <1>12, <1>14, <1>15, <2>1, <2>2, PutThere DEF back
  <2>4. Nested(resolving', todo')
    BY <1>15, <2>3 DEF back
  <2> QED
    BY <1>1, <2>4, SameSource
<1>18. Everything' = Everything /\ \A n : Needs(n)' = Needs(n)
  BY <1>1, SameSource
<1>19. StackOK'
  <2>1. \A j \in 1..N : OwnerOf(resolving', j) = OwnerOf(resolving, j)
    <3> SUFFICES ASSUME NEW j \in 1..N PROVE OwnerOf(resolving', j) = OwnerOf(resolving, j)
      OBVIOUS
    <3>1. resolving[j].var => j > 1
      BY <1>2, <1>11 DEF StackOK
    <3>2. j > 1 => j - 1 \in 1..N
      BY <1>11
    <3> QED
      BY <1>11, <3>1, <3>2 DEF OwnerOf
  <2>2. ASSUME NEW i \in 1..N + 1
        PROVE  IF resolving'[i].var THEN i > 1 /\ ~resolving'[i - 1].var
               ELSE /\ <<resolving'[i].of, resolving'[i].name>> \in Everything
                    /\ an[resolving'[i].of].state[resolving'[i].name] = "resolving"
                    /\ i > 1 => <<resolving'[i].of, resolving'[i].name>> \in Needs(OwnerOf(resolving', i - 1))
    <3>1. CASE i \in 1..N
      <4>1. IF resolving[i].var THEN i > 1 /\ ~resolving[i - 1].var
            ELSE /\ <<resolving[i].of, resolving[i].name>> \in Everything
                 /\ an[resolving[i].of].state[resolving[i].name] = "resolving"
                 /\ i > 1 => <<resolving[i].of, resolving[i].name>> \in Needs(OwnerOf(resolving, i - 1))
        BY <1>2, <1>11, <3>1 DEF StackOK
      <4>2. resolving'[i] = resolving[i] /\ (i > 1 => i - 1 \in 1..N /\ resolving'[i - 1] = resolving[i - 1])
        BY <1>11, <3>1
      <4>3. i > 1 => OwnerOf(resolving', i - 1) = OwnerOf(resolving, i - 1)
        BY <2>1, <4>2
      <4> QED
        BY <4>1, <4>2, <4>3
    <3>2. CASE i = N + 1
      <4>1. resolving'[i] = e /\ i > 1 /\ i - 1 = N /\ N \in 1..N
        BY <1>11, <3>2
      <4>2. resolving'[i - 1] = Last(resolving)
        BY <1>11, <4>1
      <4> QED
        BY <1>7, <1>10, <4>1, <4>2
    <3> QED
      BY <1>11, <3>1, <3>2
  <2>3. ASSUME NEW i \in 1..N + 1, NEW j \in 1..N + 1, ~resolving'[i].var, ~resolving'[j].var,
               resolving'[i].of = resolving'[j].of, resolving'[i].name = resolving'[j].name
        PROVE  i = j
    <3>1. i # N + 1 /\ j # N + 1
      BY <1>7, <1>11, <2>3
    <3>2. i \in 1..N /\ j \in 1..N
      BY <1>11, <3>1
    <3> QED
      BY <1>2, <1>11, <2>3, <3>2 DEF StackOK
  <2>4. ASSUME NEW n \in Everything, an[n[1]].state[n[2]] = "resolving"
        PROVE  \E i \in 1..N + 1 : resolving'[i] = Entry(n[1], n[2], FALSE)
    <3>1. PICK i \in 1..N : resolving[i] = Entry(n[1], n[2], FALSE)
      BY <1>2, <1>11, <2>4 DEF StackOK
    <3>2. i \in 1..N + 1 /\ resolving'[i] = resolving[i]
      BY <1>11
    <3> QED
      BY <3>1, <3>2
  <2>5. \A i : OwnerOf(resolving, i)' = OwnerOf(resolving', i)
    BY DEF OwnerOf
  <2> QED
    BY <1>1, <1>11, <1>18, <2>2, <2>3, <2>4, <2>5, ZenonT(30) DEF StackOK, Entry
<1>20. Open \subseteq Open' /\ Open' \subseteq Open \cup ToSet(refs) \cup {d}
  BY <1>1, <1>16 DEF Open
<1>21. \A t \in Open' : TaskOK(t)
  BY <1>1, <1>9, <1>14, <1>20, Working
<1>22. NothingForgotten'
  <2>1. Hands(Now)
    <3>1. \A n \in Everything : Done(n)' <=> Done(n)
      BY <1>1 DEF Done
    <3>2. \A t, n : /\ Owes(t, n)' <=> Owes(t, n)
                    /\ Declares(t.m, t.name)' <=> Declares(t.m, t.name)
      BY <1>1, SameSource
    <3>3. \E t \in Open' : t = Now
      BY <1>3, <1>20
    <3>4. \A n \in Everything : Owes(Now, n) => Due(n)'
      BY <3>2, <3>3 DEF Due
    <3>5. \A n \in Everything : Owes(Now, n) /\ Declares(Now.m, Now.name) => DueAtHome(n)'
      BY <3>2, <3>3 DEF DueAtHome
    <3> QED
      BY <1>20, <3>1, <3>4, <3>5 DEF Hands
  <2>2. \A t \in Open : t.m \in Modules
    BY <1>1, Working DEF TaskOK
  <2>3. \A t \in Open' : t.m \in Modules
    BY <1>21 DEF TaskOK
  <2>4. \A t \in Open' : t.do \in {"copy", "bind"} => t \in Open
    BY <1>6, <1>14, <1>20
  <2> QED
    BY <1>1, <1>2, <2>1, <2>2, <2>3, <2>4, Working, StillRemembered
<1>23. WillSettle'
  BY <1>13 DEF WillSettle
<1>24. Shapes'
  <2>1. Modules' = Modules /\ Everything' = Everything /\ \A k, y : Wide(k, y)' = Wide(k, y)
    BY <1>1, SameSource
  <2>2. OriginsOK' /\ StructsOK'
    BY <1>1, <1>2, <2>1 DEF OriginsOK, StructsOK
  <2>3. \A k \in Modules : an'[k].state \in [{y.name : y \in Decls(k)} -> {"pending", "resolving", "done"}]
    BY <1>1, <1>2 DEF Shapes
  <2>4. \A k \in Modules : DOMAIN an'[k] = Fields
    BY <1>1, <1>2
  <2>5. InOrder(todo') /\ InOrder(settled') /\ ToSet(settled') \subseteq ToSet(settled) /\ DOMAIN an' = Modules
    BY <1>1, <1>2, <1>16
  <2> QED
    BY <1>1, <1>12, <1>21, <2>2, <2>3, <2>4, <2>5, ShapesStay
<1> QED
  BY <1>1, <1>17, <1>19, <1>22, <1>23, <1>24 DEF Inductive, CircularHasCause

\* What is found again while it is being resolved contains itself.
LEMMA CircularStep == ASSUME Inductive, Circular PROVE Inductive'
<1> DEFINE m == Now.m
           x == Now.name
           n0 == <<m, x>>
           N == Len(resolving)
           needs == [t \in Everything |-> Needs(t)]
           led == Leads(needs, Needs(n0))
<1>1. outcome = "working" /\ todo # << >> /\ Now.do = "resolve" /\ me.state[x] = "resolving" /\ Fail("circular")
  BY DEF Circular, Doing
<1>2. /\ IsProgram(program) /\ Shapes /\ StackOK /\ InOrder(resolving)
      /\ TaskOK(Now) /\ m \in Modules /\ me = an[m] /\ Fits(Now, resolving)
  BY <1>1, Working, Next1 DEF Shapes, Ends
<1>3. Declares(m, x) /\ n0 \in Everything /\ Target(m, x) = {n0}
  <2>1. Declares(m, x)
    BY <1>1, <1>2 DEF TaskOK
  <2> QED
    BY <1>2, <2>1, ProgramFacts DEF Target
<1>4. /\ N \in Nat /\ DOMAIN resolving = 1..N
  BY <1>2 DEF InOrder
<1>5. PICK i \in 1..N : resolving[i] = Entry(m, x, FALSE)
  <2>1. an[n0[1]].state[n0[2]] = "resolving"
    BY <1>1, <1>2
  <2> QED
    BY <1>1, <1>3, <2>1, Ending
<1>6. /\ Needs(n0) \subseteq led
      /\ \A n \in led : Needs(n) \subseteq led
  <2>1. IsFiniteSet(Everything) /\ needs \in [Everything -> SUBSET Everything] /\ Needs(n0) \in SUBSET Everything
    BY <1>2, <1>3, ProgramFacts, UsesIn
  <2> HIDE DEF needs
  <2>2. /\ Needs(n0) \subseteq led /\ led \subseteq Everything
        /\ \A n \in led : needs[n] \subseteq led
    BY <2>1, LeadsClosed
  <2> QED
    BY <2>2 DEF needs
<1> HIDE DEF led, N
<1>7. \A j \in 1..N : j >= i => OwnerOf(resolving, j) \in led \cup {n0}
  <2> DEFINE T == {j \in 1..N : j >= i /\ OwnerOf(resolving, j) \notin led \cup {n0}}
  <2> SUFFICES ASSUME T # {} PROVE FALSE
    OBVIOUS
  <2>1. PICK j \in T : \A k \in T : j <= k
    <3>1. T \in SUBSET Nat
      BY <1>4
    <3> HIDE DEF T
    <3> QED
      BY <3>1, LeastNat
  <2>2. j \in 1..N /\ j >= i /\ OwnerOf(resolving, j) \notin led \cup {n0} /\ i \in Nat /\ j \in Nat
    BY <1>4
  <2>3. j # i
    BY <1>5, <2>2 DEF OwnerOf, Entry
  <2>4. j - 1 \in 1..N /\ j - 1 >= i /\ j > 1 /\ ~(j <= j - 1)
    BY <1>4, <2>2, <2>3
  <2>5. OwnerOf(resolving, j - 1) \in led \cup {n0}
    BY <2>1, <2>4
  <2>6. CASE resolving[j].var
    <3>1. ~resolving[j - 1].var
      BY <1>2, <1>4, <2>2, <2>6 DEF StackOK
    <3>2. OwnerOf(resolving, j) = OwnerOf(resolving, j - 1)
      BY <2>6, <3>1 DEF OwnerOf
    <3> QED
      BY <2>2, <2>5, <3>2
  <2>7. CASE ~resolving[j].var
    <3>1. <<resolving[j].of, resolving[j].name>> \in Needs(OwnerOf(resolving, j - 1))
      BY <1>2, <1>4, <2>2, <2>4, <2>7 DEF StackOK
    <3>2. OwnerOf(resolving, j) = <<resolving[j].of, resolving[j].name>>
      BY <2>7 DEF OwnerOf
    <3> QED
      BY <1>6, <2>2, <2>5, <3>1, <3>2
  <2> QED
    BY <2>6, <2>7
<1>8. n0 \in Needs(OwnerOf(resolving, N))
  <2>1. Demands(Now) = {n0}
    BY <1>1, <1>3 DEF Demands, Later
  <2>2. resolving # << >>
    BY <1>4, <1>5
  <2> QED
    BY <1>2, <2>1, <2>2 DEF Fits, N
<1>9. n0 \in led
  <2>1. N \in 1..N /\ N >= i
    BY <1>4, <1>5
  <2>2. OwnerOf(resolving, N) \in led \cup {n0}
    BY <1>7, <2>1
  <2> QED
    BY <1>6, <1>8, <2>2
<1>10. OnCycle(n0)
  BY <1>9 DEF OnCycle, led
<1>11. outcome' = "circular" /\ UNCHANGED <<program, an, resolving, settled, todo>>
  BY <1>1 DEF Fail
<1> HIDE DEF n0
<1> QED
  BY <1>1, <1>3, <1>10, <1>11, Stopped DEF Errors

-----------------------------------------------------------------------------
\* At the start.

\* Laying out the C types of a module one by one is done.
LEMMA CTypesSteps ==
  ASSUME NEW m, InOrder(program[m].c)
  PROVE  \E f : /\ f[0] = [structs |-> NoOne]
                /\ \A k \in 1..Len(program[m].c) : f[k] = RegisterC(f[k - 1], program[m].c[k])
                /\ CTypes(m) = f[Len(program[m].c)].structs
<1> DEFINE c == program[m].c
           N == Len(c)
           First == [structs |-> NoOne]
           Laid(f, n) == f = [k \in 0..n |-> IF k = 0 THEN First ELSE RegisterC(f[k - 1], c[k])]
           T == {n \in 0..N : ~\E f : Laid(f, n)}
<1>1. N \in Nat
  BY DEF InOrder
<1> HIDE DEF N, First, c
<1>2. T = {}
  <2> SUFFICES ASSUME T # {} PROVE FALSE
    OBVIOUS
  <2>1. PICK n \in T : \A j \in T : n <= j
    <3>1. T \in SUBSET Nat
      OBVIOUS
    <3> HIDE DEF T
    <3> QED
      BY <3>1, LeastNat
  <2>2. n \in 0..N /\ ~\E f : Laid(f, n)
    OBVIOUS
  <2>3. CASE n = 0
    <3> DEFINE f == [k \in 0..0 |-> First]
    <3>1. \A k \in 0..0 : k = 0
      OBVIOUS
    <3>2. Laid(f, 0)
      BY <3>1
    <3> QED
      BY <2>2, <2>3, <3>2
  <2>4. CASE n # 0
    <3>1. n - 1 \in 0..N /\ ~(n <= n - 1)
      BY <1>1, <2>2, <2>4
    <3>2. PICK f : Laid(f, n - 1)
      BY <2>1, <3>1
    <3>3. \A k \in 0..(n - 1) : f[k] = IF k = 0 THEN First ELSE RegisterC(f[k - 1], c[k])
      BY <3>2
    <3> DEFINE g == [k \in 0..n |-> IF k = n THEN RegisterC(f[n - 1], c[n]) ELSE f[k]]
    <3>4. \A k \in 0..n : g[k] = IF k = 0 THEN First ELSE RegisterC(g[k - 1], c[k])
      <4> SUFFICES ASSUME NEW k \in 0..n PROVE g[k] = IF k = 0 THEN First ELSE RegisterC(g[k - 1], c[k])
        OBVIOUS
      <4>1. CASE k = 0
        <5>1. 0 \in 0..(n - 1) /\ 0 \in 0..n /\ 0 # n
          BY <2>2, <2>4
        <5> QED
          BY <3>3, <4>1, <5>1
      <4>2. CASE k # 0
        <5>1. k - 1 \in 0..n /\ k - 1 # n
          BY <2>2, <4>2
        <5>2. g[k - 1] = f[k - 1]
          BY <5>1
        <5>3. CASE k = n
          BY <4>2, <5>2, <5>3
        <5>4. CASE k # n
          <6>1. k \in 0..(n - 1)
            BY <2>2, <5>4
          <6>2. g[k] = f[k]
            BY <5>4
          <6> HIDE DEF g
          <6> QED
            BY <3>3, <4>2, <5>2, <6>1, <6>2
        <5> QED
          BY <5>3, <5>4
      <4> QED
        BY <4>1, <4>2
    <3>5. g = [k \in 0..n |-> g[k]]
      OBVIOUS
    <3> HIDE DEF g
    <3>6. Laid(g, n)
      BY <3>4, <3>5
    <3> QED
      BY <2>2, <3>6
  <2> QED
    BY <2>3, <2>4
<1>3. N \in 0..N
  BY <1>1
<1> DEFINE after == CHOOSE f : Laid(f, N)
<1>4. Laid(after, N)
  <2>1. \E f : Laid(f, N)
    BY <1>2, <1>3
  <2> HIDE DEF Laid
  <2> QED
    BY <2>1
<1>5. CTypes(m) = after[N].structs
  BY DEF CTypes, N, c, First
<1> HIDE DEF after
<1>6. \A k \in 0..N : after[k] = IF k = 0 THEN First ELSE RegisterC(after[k - 1], c[k])
  BY <1>4
<1>7. 0 \in 0..N /\ \A k \in 1..N : k \in 0..N /\ k # 0
  BY <1>1
<1>8. after[0] = First /\ \A k \in 1..N : after[k] = RegisterC(after[k - 1], c[k])
  BY <1>6, <1>7
<1> QED
  BY <1>5, <1>8 DEF N, First, c

\* Registering one more C struct keeps every struct's fields a sequence.
LEMMA RegisteredC ==
  ASSUME NEW a, "structs" \in DOMAIN a, \A w \in DOMAIN a.structs : InOrder(a.structs[w].fields),
         NEW c, InOrder(c.fields)
  PROVE  LET b == RegisterC(a, c)
         IN  "structs" \in DOMAIN b /\ \A w \in DOMAIN b.structs : InOrder(b.structs[w].fields)
<1> DEFINE w == Global(c.name)
           ts == [i \in DOMAIN c.fields |-> Type(c.fields[i].how, Global(c.fields[i].type))]
           ok == c.fields # << >> /\ \A i \in DOMAIN ts : FieldError(a, w, ts[i]) = ""
           s == IF ok THEN StructOf(a, ts) ELSE Opaque
           b == [a EXCEPT !.structs = With(@, w, s)]
<1>1. RegisterC(a, c) = IF IsStruct(a, w) /\ a.structs[w].complete THEN a ELSE b
  BY DEF RegisterC
<1>2. InOrder(ts)
  <2>1. DOMAIN c.fields = 1..Len(c.fields) /\ Len(c.fields) \in Nat
    BY DEF InOrder
  <2>2. ts \in Seq({ts[i] : i \in DOMAIN c.fields})
    BY <2>1
  <2> HIDE DEF ts
  <2> QED
    BY <2>2, Orderly
<1> HIDE DEF ts, ok, w
<1>3. InOrder(s.fields)
  <2>1. StructOf(a, ts).fields = ts
    BY DEF StructOf
  <2>2. Opaque.fields = << >>
    BY DEF Opaque
  <2>3. CASE ok
    BY <1>2, <2>1, <2>3
  <2>4. CASE ~ok
    BY <2>2, <2>4, NoneOf
  <2> QED
    BY <2>3, <2>4
<1> HIDE DEF s
<1>4. "structs" \in DOMAIN b /\ b.structs = With(a.structs, w, s)
  OBVIOUS
<1> HIDE DEF b
<1>5. \A v \in DOMAIN b.structs : InOrder(b.structs[v].fields)
  <2>1. /\ DOMAIN b.structs = DOMAIN a.structs \cup {w}
        /\ \A v \in DOMAIN b.structs : b.structs[v] = IF v = w THEN s ELSE a.structs[v]
    BY <1>4 DEF With
  <2> QED
    BY <1>3, <2>1
<1> QED
  BY <1>1, <1>4, <1>5

\* The structs of a module's C headers have sequences of fields.
LEMMA CTypesAre ==
  ASSUME IsProgram(program), NEW m \in Modules
  PROVE  \A w \in DOMAIN CTypes(m) : InOrder(CTypes(m)[w].fields)
<1> DEFINE c == program[m].c
           N == Len(c)
<1>1. InOrder(c) /\ \A d \in ToSet(c) : InOrder(d.fields)
  BY DEF IsProgram, Modules
<1>2. N \in Nat /\ \A k \in 1..N : c[k] \in ToSet(c)
  BY <1>1 DEF InOrder, ToSet
<1>3. PICK f : /\ f[0] = [structs |-> NoOne]
               /\ \A k \in 1..N : f[k] = RegisterC(f[k - 1], c[k])
               /\ CTypes(m) = f[N].structs
  BY <1>1, CTypesSteps
<1> HIDE DEF c, N
<1> DEFINE Good(k) == "structs" \in DOMAIN f[k] /\ \A w \in DOMAIN f[k].structs : InOrder(f[k].structs[w].fields)
           T == {k \in 0..N : ~Good(k)}
<1>4. T = {}
  <2> SUFFICES ASSUME T # {} PROVE FALSE
    OBVIOUS
  <2>1. PICK k \in T : \A j \in T : k <= j
    <3>1. T \in SUBSET Nat
      OBVIOUS
    <3> HIDE DEF T
    <3> QED
      BY <3>1, LeastNat
  <2>2. k \in 0..N /\ ~Good(k)
    OBVIOUS
  <2>3. CASE k = 0
    <3>1. f[k] = [structs |-> NoOne]
      BY <1>3, <2>3
    <3>2. DOMAIN f[k] = {"structs"} /\ DOMAIN f[k].structs = {}
      BY <3>1 DEF NoOne
    <3> QED
      BY <2>2, <3>2
  <2>4. CASE k # 0
    <3>1. k \in 1..N /\ k - 1 \in 0..N /\ ~(k <= k - 1)
      BY <1>2, <2>2, <2>4
    <3>2. Good(k - 1)
      BY <2>1, <3>1
    <3>3. f[k] = RegisterC(f[k - 1], c[k]) /\ InOrder(c[k].fields)
      BY <1>1, <1>2, <1>3, <3>1
    <3>4. Good(k)
      BY <3>2, <3>3, RegisteredC
    <3> QED
      BY <2>2, <3>4
  <2> QED
    BY <2>3, <2>4
<1>5. N \in 0..N
  BY <1>2
<1>6. Good(N)
  BY <1>4, <1>5
<1> QED
  BY <1>3, <1>6

\* The first tasks: a name to resolve, or a function's type to look at.
Written ==
  {i.as : i \in UNION {ImportsOf(m) : m \in Modules}}
  \cup {d.name : d \in UNION {ToSet(program[m].decls) : m \in Modules}}
  \cup UNION {ToSet(program[m].sigs) : m \in Modules}
SigTask(m, x) == [Task("sig", 1, x) EXCEPT !.sub = m]
FirstTasks ==
  UNION {{Ensure(m, x, FALSE) : x \in Written} \cup {SigTask(m, x) : x \in Written} : m \in Modules}

\* Asking for a written name, or for a function's type, is one of them.
LEMMA InFirst ==
  ASSUME NEW m \in Modules, NEW x \in Written PROVE Ensure(m, x, FALSE) \in FirstTasks /\ SigTask(m, x) \in FirstTasks
<1> DEFINE both(k) == {Ensure(k, y, FALSE) : y \in Written} \cup {SigTask(k, y) : y \in Written}
<1>1. Ensure(m, x, FALSE) \in both(m) /\ SigTask(m, x) \in both(m)
  OBVIOUS
<1>2. FirstTasks = UNION {both(k) : k \in Modules}
  BY DEF FirstTasks
<1> HIDE DEF both
<1> QED
  BY <1>1, <1>2

\* Sequences, given by what is at each place.
LEMMA EachIn ==
  ASSUME NEW S, NEW N \in Nat, NEW f, f = [i \in 1..N |-> f[i]], \A i \in 1..N : f[i] \in S
  PROVE  f \in Seq(S) /\ Len(f) = N
OBVIOUS

\* Sequences of up to two.
LEMMA FewIn == ASSUME NEW S, NEW d \in S, NEW e \in S PROVE << >> \in Seq(S) /\ <<e>> \in Seq(S) /\ <<d, e>> \in Seq(S)
OBVIOUS

\* The first tasks are tasks, and none of them ends anything.
LEMMA FirstAre ==
  ASSUME IsProgram(program), program # << >>, NEW t \in FirstTasks
  PROVE  TaskOK(t) /\ t.do \in {"ensure", "sig"}
<1>1. PICK m \in Modules, x \in Written : t = Ensure(m, x, FALSE) \/ t = SigTask(m, x)
  BY DEF FirstTasks
<1>2. /\ t.do \in {"ensure", "sig"} /\ t.m \in {m, 1} /\ t.sub = m
      /\ DOMAIN t = {"do", "m", "name", "via", "sub", "wide"}
  BY <1>1 DEF Ensure, SigTask, Task
<1>3. 1 \in Modules
  BY RootsIn
<1> QED
  BY <1>2, <1>3 DEF TaskOK

\* The types a module's functions name are asked for.
LEMMA SigsAre ==
  ASSUME IsProgram(program), NEW m \in Modules
  PROVE  /\ Sigs(m) \in Seq(FirstTasks)
         /\ \A x \in ToSet(program[m].sigs) : Ensure(m, x, FALSE) \in ToSet(Sigs(m))
<1> DEFINE sigs == program[m].sigs
           ss == [i \in DOMAIN sigs |-> Sig(m, sigs[i])]
<1>1. DOMAIN sigs = 1..Len(sigs) /\ Len(sigs) \in Nat
  BY DEF IsProgram, Modules, InOrder
<1>2. ASSUME NEW x \in ToSet(sigs)
      PROVE  Sig(m, x) \in Seq(FirstTasks) /\ ToSet(Sig(m, x)) = {Ensure(m, x, FALSE), SigTask(m, x)}
  <2>1. x \in Written
    BY DEF Written
  <2>2. Ensure(m, x, FALSE) \in FirstTasks /\ SigTask(m, x) \in FirstTasks
    BY <2>1, InFirst
  <2>3. Sig(m, x) = <<Ensure(m, x, FALSE), SigTask(m, x)>>
    BY DEF Sig, SigTask
  <2>4. <<Ensure(m, x, FALSE), SigTask(m, x)>> \in Seq(FirstTasks)
    BY <2>2, FewIn
  <2>5. ToSet(<<Ensure(m, x, FALSE), SigTask(m, x)>>) = {Ensure(m, x, FALSE), SigTask(m, x)}
    BY TwoOf
  <2> QED
    BY <2>3, <2>4, <2>5
<1>3. \A i \in DOMAIN sigs : sigs[i] \in ToSet(sigs)
  BY DEF ToSet
<1>4. \A x \in ToSet(sigs) : \E i \in DOMAIN sigs : sigs[i] = x
  BY DEF ToSet
<1>5. Sigs(m) = FlattenSeq(ss)
  BY DEF Sigs
<1> HIDE DEF sigs
<1>6. ss \in Seq(Seq(FirstTasks)) /\ Len(ss) = Len(sigs)
  <2>1. ASSUME NEW i \in 1..Len(sigs) PROVE ss[i] \in Seq(FirstTasks)
    <3>1. ss[i] = Sig(m, sigs[i]) /\ sigs[i] \in ToSet(sigs)
      BY <1>1, <1>3
    <3> QED
      BY <1>2, <3>1
  <2>2. ss = [i \in 1..Len(sigs) |-> ss[i]]
    BY <1>1
  <2> HIDE DEF ss
  <2> QED
    BY <1>1, <2>1, <2>2, EachIn
<1>7. \A i \in 1..Len(sigs) : ss[i] = Sig(m, sigs[i])
  BY <1>1
<1> HIDE DEF ss
<1>8. /\ InOrder(FlattenSeq(ss)) /\ ToSet(FlattenSeq(ss)) \subseteq FirstTasks
      /\ \A i \in 1..Len(sigs) : ToSet(ss[i]) \subseteq ToSet(FlattenSeq(ss))
  BY <1>6, Flattened
<1>9. \A x \in ToSet(sigs) : Ensure(m, x, FALSE) \in ToSet(Sigs(m))
  <2> SUFFICES ASSUME NEW x \in ToSet(sigs) PROVE Ensure(m, x, FALSE) \in ToSet(Sigs(m))
    OBVIOUS
  <2>1. PICK i \in 1..Len(sigs) : sigs[i] = x
    BY <1>1, <1>4
  <2>2. Ensure(m, x, FALSE) \in ToSet(ss[i])
    BY <1>2, <1>7, <2>1
  <2> QED
    BY <1>5, <1>8, <2>2
<1>10. Sigs(m) \in Seq(FirstTasks)
  <2>1. FlattenSeq(ss) \in Seq(ToSet(FlattenSeq(ss)))
    BY <1>8 DEF InOrder
  <2> QED
    BY <1>5, <1>8, <2>1
<1> QED
  BY <1>9, <1>10 DEF sigs

\* Everything that is a root is among what is resolved first.
LEMMA AnalysisAre ==
  ASSUME IsProgram(program), program # << >>
  PROVE  /\ InOrder(Analysis) /\ ToSet(Analysis) \subseteq FirstTasks
         /\ \A n \in Roots : \E t \in ToSet(Analysis) : Owes(t, n)
<1> DEFINE F == FirstTasks
           imports == program[1].imports
           ds == program[1].decls
           one == [i \in DOMAIN imports |-> Ensure(1, imports[i].as, FALSE)]
           each == [i \in DOMAIN ds |-> IF ds[i].kind = "var" THEN << >> ELSE <<Ensure(1, ds[i].name, FALSE)>>]
           rest == [i \in 1..Len(program) - 1 |-> Sigs(i + 1)]
<1>1. 1 \in Modules /\ Modules = 1..Len(program) /\ Len(program) \in Nat
  BY RootsIn DEF IsProgram, InOrder, Modules
<1>2. /\ DOMAIN imports = 1..Len(imports) /\ Len(imports) \in Nat
      /\ DOMAIN ds = 1..Len(ds) /\ Len(ds) \in Nat
  BY <1>1 DEF IsProgram, Modules, InOrder
<1>3. ASSUME NEW x \in Written PROVE Ensure(1, x, FALSE) \in F
  BY <1>1, InFirst
<1>4. /\ \A i \in DOMAIN imports : imports[i] \in ImportsOf(1) /\ imports[i].as \in Written
      /\ \A i \in DOMAIN ds : ds[i].name \in Written
      /\ \A i \in ImportsOf(1) : \E k \in DOMAIN imports : imports[k] = i
      /\ \A d \in Decls(1) : \E k \in DOMAIN ds : ds[k] = d /\ ds[k].kind # "var"
  BY <1>1 DEF ImportsOf, Written, ToSet, Decls
<1>5. Analysis = one \o ((FlattenSeq(each) \o Sigs(1)) \o FlattenSeq(rest))
  BY DEF Analysis
<1> HIDE DEF F, imports, ds
<1>6. /\ one \in Seq(F)
      /\ \A i \in ImportsOf(1) : Ensure(1, i.as, FALSE) \in ToSet(one)
  <2>1. one \in Seq(F)
    <3>1. \A i \in 1..Len(imports) : one[i] \in F
      BY <1>2, <1>3, <1>4
    <3>2. one = [i \in 1..Len(imports) |-> one[i]]
      BY <1>2
    <3> HIDE DEF one
    <3> QED
      BY <1>2, <3>1, <3>2, EachIn
  <2>2. ASSUME NEW i \in ImportsOf(1) PROVE Ensure(1, i.as, FALSE) \in ToSet(one)
    <3>1. PICK k \in DOMAIN imports : imports[k] = i
      BY <1>4
    <3>2. k \in DOMAIN one /\ one[k] = Ensure(1, i.as, FALSE)
      BY <3>1
    <3> QED
      BY <3>2 DEF ToSet
  <2> QED
    BY <2>1, <2>2
<1>7. /\ FlattenSeq(each) \in Seq(F)
      /\ \A d \in Decls(1) : Ensure(1, d.name, FALSE) \in ToSet(FlattenSeq(each))
  <2>1. each \in Seq(Seq(F)) /\ Len(each) = Len(ds)
    <3>1. ASSUME NEW i \in DOMAIN ds PROVE each[i] \in Seq(F)
      <4>1. Ensure(1, ds[i].name, FALSE) \in F
        BY <1>3, <1>4
      <4>2. <<Ensure(1, ds[i].name, FALSE)>> \in Seq(F) /\ << >> \in Seq(F)
        BY <4>1, FewIn
      <4> QED
        BY <4>2
    <3>2. DOMAIN each = 1..Len(ds)
      BY <1>2
    <3>3. each = [i \in 1..Len(ds) |-> each[i]]
      BY <1>2
    <3> HIDE DEF each
    <3> QED
      BY <1>2, <3>1, <3>2, <3>3, EachIn
  <2>2. \A d \in Decls(1) : \E k \in 1..Len(ds) : Ensure(1, d.name, FALSE) \in ToSet(each[k])
    <3> SUFFICES ASSUME NEW d \in Decls(1) PROVE \E k \in 1..Len(ds) : Ensure(1, d.name, FALSE) \in ToSet(each[k])
      OBVIOUS
    <3>1. PICK k \in DOMAIN ds : ds[k] = d /\ ds[k].kind # "var"
      BY <1>4
    <3>2. each[k] = <<Ensure(1, d.name, FALSE)>>
      BY <3>1
    <3>3. ToSet(each[k]) = {Ensure(1, d.name, FALSE)}
      BY <3>2, OneOf
    <3> QED
      BY <1>2, <3>3
  <2> HIDE DEF each
  <2>3. /\ InOrder(FlattenSeq(each)) /\ ToSet(FlattenSeq(each)) \subseteq F
        /\ \A i \in 1..Len(each) : ToSet(each[i]) \subseteq ToSet(FlattenSeq(each))
    BY <2>1, Flattened
  <2>4. FlattenSeq(each) \in Seq(F)
    <3>1. FlattenSeq(each) \in Seq(ToSet(FlattenSeq(each)))
      BY <2>3 DEF InOrder
    <3> QED
      BY <2>3, <3>1
  <2> QED
    BY <2>1, <2>2, <2>3, <2>4
<1>8. /\ FlattenSeq(rest) \in Seq(F)
      /\ \A m \in Modules \ {1} : ToSet(Sigs(m)) \subseteq ToSet(FlattenSeq(rest))
  <2>1. Len(program) - 1 \in Nat /\ \A i \in 1..Len(program) - 1 : i + 1 \in Modules
    BY <1>1
  <2>2. \A m \in Modules : Sigs(m) \in Seq(F)
    BY SigsAre DEF F
  <2>3. rest \in Seq(Seq(F)) /\ Len(rest) = Len(program) - 1
    BY <2>1, <2>2
  <2>4. ASSUME NEW m \in Modules \ {1} PROVE m - 1 \in 1..Len(program) - 1 /\ rest[m - 1] = Sigs(m)
    <3>1. m - 1 \in 1..Len(program) - 1 /\ (m - 1) + 1 = m
      BY <1>1
    <3> QED
      BY <3>1
  <2> HIDE DEF rest
  <2>5. /\ InOrder(FlattenSeq(rest)) /\ ToSet(FlattenSeq(rest)) \subseteq F
        /\ \A i \in 1..Len(rest) : ToSet(rest[i]) \subseteq ToSet(FlattenSeq(rest))
    BY <2>3, Flattened
  <2>6. FlattenSeq(rest) \in Seq(F)
    <3>1. FlattenSeq(rest) \in Seq(ToSet(FlattenSeq(rest)))
      BY <2>5 DEF InOrder
    <3> QED
      BY <2>5, <3>1
  <2>7. \A m \in Modules \ {1} : ToSet(Sigs(m)) \subseteq ToSet(FlattenSeq(rest))
    BY <2>3, <2>4, <2>5
  <2> QED
    BY <2>6, <2>7
<1>9. Sigs(1) \in Seq(F)
  BY <1>1, SigsAre DEF F
<1> HIDE DEF one, each, rest
<1>10. InOrder(Analysis) /\ ToSet(Analysis) \subseteq F
       /\ ToSet(Analysis) = ToSet(one) \cup ((ToSet(FlattenSeq(each)) \cup ToSet(Sigs(1))) \cup ToSet(FlattenSeq(rest)))
  <2>1. /\ InOrder(one) /\ InOrder(FlattenSeq(each)) /\ InOrder(Sigs(1)) /\ InOrder(FlattenSeq(rest))
        /\ ToSet(one) \subseteq F /\ ToSet(FlattenSeq(each)) \subseteq F /\ ToSet(Sigs(1)) \subseteq F
        /\ ToSet(FlattenSeq(rest)) \subseteq F
    BY <1>6, <1>7, <1>8, <1>9, Orderly
  <2> DEFINE s == FlattenSeq(each) \o Sigs(1)
             t == s \o FlattenSeq(rest)
  <2>2. InOrder(s) /\ ToSet(s) = ToSet(FlattenSeq(each)) \cup ToSet(Sigs(1))
    BY <2>1, Joined
  <2> HIDE DEF s
  <2>3. InOrder(t) /\ ToSet(t) = ToSet(s) \cup ToSet(FlattenSeq(rest))
    BY <2>1, <2>2, Joined
  <2>4. Analysis = one \o t
    BY <1>5 DEF s
  <2> HIDE DEF t
  <2>5. InOrder(Analysis) /\ ToSet(Analysis) = ToSet(one) \cup ToSet(t)
    BY <2>1, <2>3, <2>4, Joined
  <2> QED
    BY <2>1, <2>2, <2>3, <2>5
<1>11. ASSUME NEW n \in Roots PROVE \E t \in ToSet(Analysis) : Owes(t, n)
  <2>1. \A m, x : \A k \in Target(m, x) : Owes(Ensure(m, x, FALSE), k)
    BY DEF Owes, Ensure, Task
  <2>2. ASSUME NEW d \in Decls(1), n = <<1, d.name>> PROVE \E t \in ToSet(Analysis) : Owes(t, n)
    <3>1. n \in Target(1, d.name)
      BY <2>2 DEF Target, Declares
    <3>2. Ensure(1, d.name, FALSE) \in ToSet(Analysis)
      BY <1>7, <1>10
    <3> QED
      BY <2>1, <3>1, <3>2
  <2>3. ASSUME NEW i \in ImportsOf(1), n \in Target(1, i.as) PROVE \E t \in ToSet(Analysis) : Owes(t, n)
    <3>1. Ensure(1, i.as, FALSE) \in ToSet(Analysis)
      BY <1>6, <1>10
    <3> QED
      BY <2>1, <2>3, <3>1
  <2>4. ASSUME NEW m \in Modules, NEW x \in ToSet(program[m].sigs), n \in Target(m, x)
        PROVE  \E t \in ToSet(Analysis) : Owes(t, n)
    <3>1. Ensure(m, x, FALSE) \in ToSet(Sigs(m))
      BY SigsAre
    <3>2. ToSet(Sigs(m)) \subseteq ToSet(Analysis)
      BY <1>8, <1>10
    <3>3. Ensure(m, x, FALSE) \in ToSet(Analysis)
      BY <3>1, <3>2
    <3> QED
      BY <2>1, <2>4, <3>3
  <2>5. \/ \E d \in Decls(1) : n = <<1, d.name>>
        \/ \E i \in ImportsOf(1) : n \in Target(1, i.as)
        \/ \E m \in Modules : \E x \in ToSet(program[m].sigs) : n \in Target(m, x)
    <3> DEFINE used(m) == UNION {Target(m, x) : x \in ToSet(program[m].sigs)}
    <3>1. \/ n \in {<<1, d.name>> : d \in Decls(1)}
          \/ n \in UNION {Target(1, i.as) : i \in ImportsOf(1)}
          \/ n \in UNION {used(m) : m \in Modules}
      BY DEF Roots
    <3>2. n \in {<<1, d.name>> : d \in Decls(1)} => \E d \in Decls(1) : n = <<1, d.name>>
      OBVIOUS
    <3>3. n \in UNION {Target(1, i.as) : i \in ImportsOf(1)} => \E i \in ImportsOf(1) : n \in Target(1, i.as)
      OBVIOUS
    <3>4. \A m \in Modules : n \in used(m) => \E x \in ToSet(program[m].sigs) : n \in Target(m, x)
      OBVIOUS
    <3> HIDE DEF used
    <3>5. n \in UNION {used(m) : m \in Modules} => \E m \in Modules : n \in used(m)
      OBVIOUS
    <3> QED
      BY <3>1, <3>2, <3>3, <3>4, <3>5
  <2> QED
    BY <2>2, <2>3, <2>4, <2>5
<1> QED
  BY <1>10, <1>11 DEF F

\* The analyzer of each module at first.
LEMMA AnalyzerIs ==
  ASSUME IsProgram(program), NEW m \in Modules
  PROVE  /\ DOMAIN Analyzer(m) = Fields
         /\ Analyzer(m).state \in [{d.name : d \in Decls(m)} -> {"pending", "resolving", "done"}]
         /\ \A d \in Decls(m) : Analyzer(m).state[d.name] = "pending"
         /\ DOMAIN Analyzer(m).origins = {} /\ Analyzer(m).adopted = {}
         /\ Analyzer(m).structs = CTypes(m)
BY DEF Analyzer, Fields, NoOne

\* At the start nothing is being resolved and every root is asked for.
LEMMA InitOK == Init => Inductive
<1> SUFFICES ASSUME Init PROVE Inductive
  OBVIOUS
<1>1. IsProgram(program)
  BY ProgramsAreWhole DEF Init
<1>2. /\ an = [m \in Modules |-> Analyzer(m)]
      /\ resolving = << >> /\ settled = << >>
      /\ todo = IF program = << >> THEN << >> ELSE Analysis
      /\ outcome = IF program = << >> THEN "nothing"
                   ELSE IF \E m \in Modules : Clash(m) THEN "duplicate" ELSE "working"
  BY DEF Init
<1>3. \A m \in Modules : an[m] = Analyzer(m)
  BY <1>2
<1>4. \A m \in Modules : \A w \in DOMAIN an[m].structs : InOrder(an[m].structs[w].fields)
  BY <1>1, <1>3, AnalyzerIs, CTypesAre
<1>5. /\ DOMAIN an = Modules /\ \A m \in Modules : DOMAIN an[m] = Fields
      /\ \A m \in Modules : an[m].state \in [{d.name : d \in Decls(m)} -> {"pending", "resolving", "done"}]
      /\ OriginsOK /\ StructsOK
  BY <1>1, <1>2, <1>3, <1>4, AnalyzerIs DEF OriginsOK, StructsOK
<1>6. InOrder(resolving) /\ InOrder(settled) /\ ToSet(settled) = {} /\ resolving = << >>
  BY <1>2, NoneOf
<1>7. CASE program = << >>
  <2>1. todo = << >> /\ outcome = "nothing"
    BY <1>2, <1>7
  <2>2. InOrder(todo) /\ Open = {}
    BY <1>6, <2>1, NoneOf DEF Open
  <2>3. Shapes
    <3>1. /\ \A t \in Open : TaskOK(t)
          /\ \A t \in ToSet(settled) : t.do \in {"ensure", "adopt", "pointee"}
      BY <1>6, <2>2
    <3> QED
      BY <1>1, <1>5, <1>6, <1>7, <2>1, <2>2, <3>1 DEF Shapes
  <2> QED
    BY <2>1, <2>3 DEF Inductive, CircularHasCause
<1>8. CASE program # << >>
  <2>1. todo = Analysis /\ outcome \in {"duplicate", "working"}
    BY <1>2, <1>8
  <2>2. /\ InOrder(todo) /\ Open = ToSet(todo) /\ \A t \in Open : TaskOK(t) /\ t.do \in {"ensure", "sig"}
        /\ \A n \in Roots : \E t \in Open : Owes(t, n)
    BY <1>1, <1>6, <1>8, <2>1, AnalysisAre, FirstAre DEF Open
  <2>3. Shapes
    BY <1>1, <1>5, <1>6, <1>8, <2>1, <2>2 DEF Shapes, Errors
  <2>4. Nested(resolving, todo)
    BY <1>6, <2>2, NestedAtFirst DEF Ends
  <2>5. \A n \in Everything : an[n[1]].state[n[2]] = "pending"
    <3>1. \A m \in Modules : \A d \in Decls(m) : an[m].state[d.name] = "pending"
      BY <1>1, <1>3, AnalyzerIs, ZenonT(30)
    <3> QED
      BY <3>1 DEF Everything
  <2>6. StackOK
    <3>1. DOMAIN resolving = {}
      BY <1>6
    <3> QED
      BY <2>5, <3>1 DEF StackOK
  <2>7. NothingForgotten
    <3>1. \A m \in Modules : an[m].adopted = {}
      BY <1>1, <1>3, AnalyzerIs
    <3> QED
      BY <2>2, <2>5, <3>1 DEF NothingForgotten, Due
  <2>8. WillSettle
    BY <1>2 DEF WillSettle
  <2> QED
    BY <2>1, <2>3, <2>4, <2>6, <2>7, <2>8 DEF Inductive, CircularHasCause
<1> QED
  BY <1>7, <1>8

-----------------------------------------------------------------------------
\* Every step.

\* Nothing but the state of the resolution is in it.
LEMMA Idle == ASSUME Inductive, UNCHANGED vars PROVE Inductive'
<1>1. UNCHANGED <<program, an, resolving, settled, todo, outcome>>
  BY DEF vars
<1>2. /\ Modules' = Modules /\ Everything' = Everything /\ Roots' = Roots
      /\ (IsProgram(program))' <=> IsProgram(program)
      /\ Nested(resolving, todo)' <=> Nested(resolving, todo)
      /\ \A m : Decls(m)' = Decls(m)
      /\ \A m, x : Target(m, x)' = Target(m, x) /\ Wide(m, x)' = Wide(m, x)
      /\ \A n : Needs(n)' = Needs(n) /\ Mentions(n)' = Mentions(n) /\ (OnCycle(n)' <=> OnCycle(n))
      /\ \A t, n : Owes(t, n)' <=> Owes(t, n)
      /\ \A m, x : Declares(m, x)' <=> Declares(m, x)
      /\ \A t : TaskOK(t)' <=> TaskOK(t)
  BY <1>1, SameSource
<1>3. Open' = Open
  BY <1>1 DEF Open
<1>4. \A n : (Due(n)' <=> Due(n)) /\ (DueAtHome(n)' <=> DueAtHome(n))
  <2>1. \A n : Done(n)' <=> Done(n)
    BY <1>1 DEF Done
  <2> QED
    BY <1>2, <1>3, <2>1 DEF Due, DueAtHome
<1>5. NothingForgotten => NothingForgotten'
  <2> SUFFICES ASSUME NothingForgotten PROVE NothingForgotten'
    OBVIOUS
  <2>1. \A n \in Roots : Due(n)'
    BY <1>4 DEF NothingForgotten
  <2>2. \A n \in Everything : an[n[1]].state[n[2]] # "pending" => \A t \in Mentions(n) : Due(t)'
    BY <1>4 DEF NothingForgotten
  <2>3. \A m \in Modules : \A x \in an[m].adopted : \A n \in Target(m, x) : DueAtHome(n)'
    BY <1>4 DEF NothingForgotten
  <2>4. \A t \in Open : t.do \in {"copy", "bind"} => \A n \in Target(t.m, t.name) : DueAtHome(n)'
    BY <1>4 DEF NothingForgotten
  <2> QED
    BY <1>1, <1>2, <1>3, <2>1, <2>2, <2>3, <2>4 DEF NothingForgotten
<1>6. outcome # "nothing" /\ StackOK => StackOK'
  <2>1. outcome # "nothing" => IsProgram(program)
    BY DEF Inductive, Shapes
  <2> QED
    BY <1>1, <2>1, StackSame
<1>7. Shapes'
  <2>0. Shapes
    BY DEF Inductive
  <2>1. OriginsOK' /\ StructsOK'
    BY <1>1, <1>2, <2>0 DEF Shapes, OriginsOK, StructsOK
  <2>2. \A t \in Open' : TaskOK(t)'
    BY <1>2, <1>3, <2>0 DEF Shapes
  <2>3. (\A m \in Modules : an[m].state \in [{d.name : d \in Decls(m)} -> {"pending", "resolving", "done"}])'
    BY <1>1, <1>2, <2>0 DEF Shapes
  <2>4. ToSet(settled)' = ToSet(settled) /\ (InOrder(todo) /\ InOrder(settled) /\ InOrder(resolving))'
    BY <1>1, <2>0 DEF Shapes
  <2> QED
    BY <1>1, <1>2, <2>0, <2>1, <2>2, <2>3, <2>4 DEF Shapes
<1>8. WillSettle => WillSettle'
  BY <1>1 DEF WillSettle
<1>9. CircularHasCause'
  BY <1>1, <1>2 DEF Inductive, CircularHasCause
<1> QED
  BY <1>1, <1>2, <1>5, <1>6, <1>7, <1>8, <1>9 DEF Inductive

\* Every step keeps the invariant.
LEMMA NextOK == Inductive /\ [Next]_vars => Inductive'
<1> SUFFICES ASSUME Inductive, [Next]_vars PROVE Inductive'
  OBVIOUS
<1>1. CASE EnsureHere BY <1>1, EnsureHereStep
<1>2. CASE EnsureImport BY <1>2, EnsureImportStep
<1>3. CASE EnsureOther BY <1>3, EnsureOtherStep
<1>4. CASE EnsureStruct BY <1>4, EnsureStructStep
<1>5. CASE Begin BY <1>5, BeginStep
<1>6. CASE Again BY <1>6, AgainStep
<1>7. CASE Circular BY <1>7, CircularStep
<1>8. CASE DefineStruct BY <1>8, DefineStructStep
<1>9. CASE DefineEnum BY <1>9, DefineEnumStep
<1>10. CASE DefineAlias BY <1>10, DefineAliasStep
<1>11. CASE DefineFails BY <1>11, DefineFailsStep
<1>12. CASE DefineConst BY <1>12, DefineConstStep
<1>13. CASE LookAtVar BY <1>13, LookAtVarStep
<1>14. CASE TopVarType BY <1>14, TopVarTypeStep
<1>15. CASE DeferConst BY <1>15, DeferConstStep
<1>16. CASE Settle BY <1>16, SettleStep
<1>17. CASE Adopt BY <1>17, AdoptStep
<1>18. CASE Copy BY <1>18, CopyStep
<1>19. CASE Bind BY <1>19, BindStep
<1>20. CASE AdoptStruct BY <1>20, AdoptStructStep
<1>21. CASE AdoptField BY <1>21, AdoptFieldStep
<1>22. CASE AdoptPointee BY <1>22, AdoptPointeeStep
<1>23. CASE Signature BY <1>23, SignatureStep
<1>24. CASE Accept BY <1>24, AcceptStep
<1>25. CASE UNCHANGED vars BY <1>25, Idle
<1> QED
  BY <1>1, <1>2, <1>3, <1>4, <1>5, <1>6, <1>7, <1>8, <1>9, <1>10, <1>11, <1>12, <1>13, <1>14, <1>15, <1>16, <1>17,
     <1>18, <1>19, <1>20, <1>21, <1>22, <1>23, <1>24, <1>25 DEF Next

-----------------------------------------------------------------------------
\* What holds of every resolution.

LEMMA Held == Spec => []Inductive
BY InitOK, NextOK, PTL DEF Spec

\* A declaration that is being resolved is there once.
LEMMA InductiveTyped == Inductive => TypeOK
<1> SUFFICES ASSUME Inductive PROVE TypeOK
  OBVIOUS
<1>1. Shapes
  BY DEF Inductive
<1>2. ASSUME NEW n \in Everything
      PROVE  an[n[1]].state[n[2]] = "resolving"
               <=> Cardinality({i \in DOMAIN resolving : resolving[i] = Entry(n[1], n[2], FALSE)}) = 1
  <2> DEFINE e == Entry(n[1], n[2], FALSE)
             places == {i \in DOMAIN resolving : resolving[i] = e}
  <2>1. outcome # "nothing" /\ StackOK
    <3>1. CASE program = << >>
      <4>1. Everything = {}
        BY <3>1 DEF Everything, Modules
      <4> QED
        BY <4>1
    <3>2. CASE program # << >>
      BY <3>2 DEF Inductive, Shapes
    <3> QED
      BY <3>1, <3>2
  <2>2. e.of = n[1] /\ e.name = n[2] /\ ~e.var
    BY DEF Entry
  <2> HIDE DEF e
  <2>3. \A i, j \in places : i = j
    BY <2>1, <2>2 DEF StackOK
  <2>4. \A i \in places : an[n[1]].state[n[2]] = "resolving"
    <3> SUFFICES ASSUME NEW i \in DOMAIN resolving, resolving[i] = e PROVE an[n[1]].state[n[2]] = "resolving"
      BY DEF places
    <3>1. ~resolving[i].var => an[resolving[i].of].state[resolving[i].name] = "resolving"
      BY <2>1 DEF StackOK
    <3> QED
      BY <2>2, <3>1
  <2>5. an[n[1]].state[n[2]] = "resolving" => places # {}
    BY <2>1 DEF StackOK, e
  <2> HIDE DEF places
  <2>6. Cardinality(places) = 1 <=> places # {}
    <3>1. CASE places = {}
      BY <3>1, FS_EmptySet
    <3>2. CASE places # {}
      <4>1. PICK i : places = {i}
        BY <2>3, <3>2
      <4> QED
        BY <3>2, <4>1, FS_Singleton
    <3> QED
      BY <3>1, <3>2
  <2>7. an[n[1]].state[n[2]] = "resolving" <=> Cardinality(places) = 1
    BY <2>4, <2>5, <2>6
  <2> QED
    BY <2>7 DEF places, e
<1> QED
  BY <1>1, <1>2 DEF Shapes, OriginsOK, TypeOK

\* Nothing is left to do when a program is accepted, and so nothing waits, and what
\* is due is done: the roots are, and all that is mentioned by what is done.
LEMMA InductiveWhole == Inductive => Whole
<1> SUFFICES ASSUME Inductive, outcome = "ok"
             PROVE  settled = << >> /\ resolving = << >> /\ \A n \in Reached : Done(n)
  BY DEF Whole, Done
<1>1. /\ Shapes /\ Nested(resolving, todo) /\ StackOK /\ NothingForgotten /\ WillSettle /\ todo = << >>
      /\ InOrder(resolving) /\ program # << >> /\ IsProgram(program)
  BY DEF Inductive, Shapes
<1>2. resolving = << >> /\ settled = << >>
  <2>1. resolving = << >>
    BY <1>1, NoneNested
  <2>2. ToSet(todo) = {}
    BY <1>1, NoneOf
  <2> QED
    BY <1>1, <2>1, <2>2 DEF WillSettle
<1>3. \A n : Due(n) <=> Done(n)
  <2>1. Open = {}
    BY <1>1, <1>2, NoneOf DEF Open
  <2> QED
    BY <2>1 DEF Due
<1> DEFINE step == [n \in Everything |-> Mentions(n)]
           S == {n \in Everything : Done(n)}
<1>4. Roots \subseteq S
  <2>1. Roots \subseteq Everything
    BY <1>1, RootsIn
  <2>2. \A n \in Roots : Done(n)
    BY <1>1, <1>3 DEF NothingForgotten
  <2> QED
    BY <2>1, <2>2
<1>5. step \in [Everything -> SUBSET Everything]
  BY <1>1, UsesIn
<1>6. \A n \in S \cap Everything : step[n] \subseteq S
  <2> SUFFICES ASSUME NEW n \in Everything, Done(n) PROVE Mentions(n) \subseteq S
    OBVIOUS
  <2>1. an[n[1]].state[n[2]] # "pending"
    BY DEF Done
  <2>2. \A t \in Mentions(n) : Done(t)
    BY <1>1, <1>3, <2>1 DEF NothingForgotten
  <2> QED
    BY <1>1, <2>2, UsesIn
<1> HIDE DEF S
<1>7. Reached \subseteq S
  <2>1. IsFiniteSet(Everything) /\ Roots \in SUBSET Everything
    BY <1>1, <1>4, ProgramFacts, RootsIn
  <2>2. Reached = Leads(step, Roots)
    BY DEF Reached
  <2> HIDE DEF step
  <2> QED
    BY <1>4, <1>5, <1>6, <2>1, <2>2, LeadsLeast
<1> QED
  BY <1>2, <1>7 DEF S

\* TypeOK: a declaration is resolving just when it is once on the stack of what is being
\* resolved, whatever callbacks, waiting tasks and other modules have done in between.
THEOREM ResolutionTyped == Spec => []TypeOK
BY Held, InductiveTyped, PTL

\* CircularHasCause: whatever the order in which modules ask for each other's declarations, the
\* error "circular" is only for a declaration that is part of what it needs.
THEOREM CircularIsACycle == Spec => []CircularHasCause
<1>1. Inductive => CircularHasCause
  BY DEF Inductive
<1> QED
  BY <1>1, Held, PTL

\* Whole: in an accepted program no task is left waiting, nothing is half resolved, and every
\* declaration the compiled module comes by is resolved in its own module.
THEOREM NothingLeftOut == Spec => []Whole
BY Held, InductiveWhole, PTL

-----------------------------------------------------------------------------
\* A source is a sequence of statements, whatever they are.
IsSource(src) == \E Stmts : src.stmts \in Seq(Stmts)

\* What the statements from the first to the n-th call or take, and all that these reach.
BegunBy(src, n) == Reaches(src, UNION {CalleesIn(src.stmts[i].items) : i \in 1..n})

\* What is reached are functions of the file.
LEMMA ReachesIn == ASSUME NEW src, NEW from PROVE Reaches(src, from) \subseteq Funcs(src)
BY DEF Reaches

\* It has what it starts from, ...
LEMMA ReachesStart == ASSUME NEW src, NEW from, from \subseteq Funcs(src) PROVE from \subseteq Reaches(src, from)
BY DEF Reaches

\* ... and is closed, ...
LEMMA ReachesClosed ==
  ASSUME NEW src, NamesFound(src), NEW from, NEW f \in Reaches(src, from)
  PROVE  CalleesIn(src.bodies[f]) \subseteq Reaches(src, from)
<1>1. f \in Funcs(src) /\ CalleesIn(src.bodies[f]) \subseteq Funcs(src)
  BY DEF Reaches, NamesFound
<1>2. ASSUME NEW g \in CalleesIn(src.bodies[f]), NEW fs \in SUBSET Funcs(src), from \subseteq fs, Closed(src, fs)
      PROVE  g \in fs
  <2>1. f \in fs
    BY <1>2 DEF Reaches
  <2> QED
    BY <2>1, <1>2 DEF Closed
<1> QED
  BY <1>1, <1>2 DEF Reaches

\* ... and grows with what it starts from.
LEMMA ReachesGrows ==
  ASSUME NEW src, NEW from, NEW to, from \subseteq to
  PROVE  Reaches(src, from) \subseteq Reaches(src, to)
BY DEF Reaches

\* More statements reach more.
LEMMA BegunGrows ==
  ASSUME NEW src, NEW m \in Nat, NEW n \in Nat, m <= n
  PROVE  BegunBy(src, m) \subseteq BegunBy(src, n)
<1>1. 1..m \subseteq 1..n
  OBVIOUS
<1>2. UNION {CalleesIn(src.stmts[i].items) : i \in 1..m} \subseteq UNION {CalleesIn(src.stmts[i].items) : i \in 1..n}
  BY <1>1
<1> QED
  BY <1>2, ReachesGrows DEF BegunBy

\* Statements are numbered from 1.
LEMMA DeclsPositive == ASSUME NEW src, IsSource(src), NEW d \in Declarations(src) PROVE d \in Nat \ {0}
<1>1. d \in DOMAIN src.stmts
  BY DEF Declarations
<1>2. DOMAIN src.stmts = 1..Len(src.stmts) /\ Len(src.stmts) \in Nat
  BY DEF IsSource
<1> QED
  BY <1>1, <1>2

(***************************************************************************)
(* The strengthening. While the file itself runs, everything that runs and *)
(* every address held was reached from the statements begun so far, and    *)
(* the declarations that have ended are set; in an imported file, where    *)
(* anything may run, no function sees a global.                            *)
(***************************************************************************)
GInv ==
  /\ IsSource(source) /\ Accepts(source)
  /\ at \in Nat \ {0} /\ running \in Seq(Funcs(source)) /\ taken \subseteq Funcs(source)
  /\ \A d \in Declarations(source) : d < at => source.stmts[d].global \in set
  /\ ~source.imported =>
       /\ running # << >> => Started /\ at <= Len(source.stmts)
       /\ taken \subseteq BegunBy(source, at)
       /\ \A i \in DOMAIN running : running[i] \in BegunBy(source, at)

\* An accepted file that is imported permits nothing.
LEMMA ImportedSeesNothing ==
  ASSUME NEW src, Accepts(src), src.imported, NEW g
  PROVE  SeenBy(src, g) = {}
BY DEF Accepts, ImportOk, SeenBy

\* The strengthening is strong enough ...
LEMMA GInvImplies == GInv => SetWhenUsed
<1> SUFFICES ASSUME GInv, NEW i \in DOMAIN running, NEW d \in Declarations(source),
                    running[i] \in SeenBy(source, source.stmts[d].global)
             PROVE  source.stmts[d].global \in set
  BY DEF SetWhenUsed
<1>1. ~source.imported
  BY ImportedSeesNothing DEF GInv
<1>2. running[i] \in BegunBy(source, at) /\ at \in Nat \ {0}
  BY <1>1 DEF GInv
<1>3. d \in Nat
  BY DeclsPositive DEF GInv
<1>4. CASE d < at
  BY <1>4 DEF GInv
<1>5. CASE at <= d
  <2>1. running[i] \in BegunBy(source, d)
    BY <1>2, <1>3, <1>5, BegunGrows
  <2>2. DeclaredInTime(source, d)
    BY DEF GInv, Accepts
  <2> QED
    BY <2>1, <2>2 DEF DeclaredInTime, BegunBy
<1> QED
  BY <1>2, <1>3, <1>4, <1>5

\* ... holds before the first statement ...
LEMMA InitGInv ==
  ASSUME NEW Sources, \A k \in DOMAIN Sources : \A s \in Sources[k] : IsSource(s), GlobalsInit(Sources)
  PROVE  GInv
<1>1. IsSource(source) /\ Accepts(source)
  BY DEF GlobalsInit
<1>2. at = 1 /\ running = << >> /\ taken = {}
  BY DEF GlobalsInit
<1>3. \A d \in Declarations(source) : ~(d < at)
  BY <1>1, <1>2, DeclsPositive
<1> QED
  BY <1>1, <1>2, <1>3 DEF GInv

\* What an item that runs calls or takes is a function of the file, reached by now.
LEMMA ItemsReached ==
  ASSUME GInv, NEW it \in Items
  PROVE  /\ ~source.imported => Started /\ at <= Len(source.stmts)
         /\ it.how \in {"call", "take"} =>
              it.func \in Funcs(source) /\ (~source.imported => it.func \in BegunBy(source, at))
<1>1. CASE running # << >>
  <2> DEFINE f == running[Len(running)]
  <2>1. f \in Funcs(source) /\ Len(running) \in DOMAIN running
    BY <1>1 DEF GInv
  <2>2. it \in source.bodies[f]
    BY <1>1 DEF Items
  <2> SUFFICES ASSUME it.how \in {"call", "take"}
               PROVE  it.func \in Funcs(source) /\ (~source.imported => it.func \in BegunBy(source, at))
    BY <1>1 DEF GInv
  <2>3. it.func \in CalleesIn(source.bodies[f])
    BY <2>2 DEF CalleesIn
  <2>4. it.func \in Funcs(source)
    BY <2>1, <2>3 DEF GInv, Accepts, NamesFound
  <2>5. ASSUME ~source.imported PROVE it.func \in BegunBy(source, at)
    <3>1. f \in BegunBy(source, at)
      BY <2>1, <2>5 DEF GInv
    <3> QED
      BY <3>1, <2>3, ReachesClosed DEF GInv, Accepts, BegunBy
  <2> QED
    BY <2>4, <2>5
<1>2. CASE running = << >> /\ Started /\ at <= Len(source.stmts)
  <2>1. it \in source.stmts[at].items
    BY <1>2 DEF Items
  <2>2. at \in 1..at /\ at \in 1..Len(source.stmts)
    BY <1>2 DEF GInv, IsSource
  <2> SUFFICES ASSUME it.how \in {"call", "take"}
               PROVE  it.func \in Funcs(source) /\ it.func \in BegunBy(source, at)
    BY <1>2
  <2>3. it.func \in CalleesIn(source.stmts[at].items)
    BY <2>1 DEF CalleesIn
  <2>4. \A i \in 1..at : CalleesIn(source.stmts[i].items) \subseteq Funcs(source)
    BY <1>2 DEF GInv, Accepts, NamesFound
  <2>5. it.func \in UNION {CalleesIn(source.stmts[i].items) : i \in 1..at}
    BY <2>2, <2>3
  <2>6. UNION {CalleesIn(source.stmts[i].items) : i \in 1..at} \subseteq Funcs(source)
    BY <2>4
  <2> QED
    BY <2>5, <2>6, ReachesStart DEF BegunBy
<1>3. CASE ~(running # << >>) /\ ~(running = << >> /\ Started /\ at <= Len(source.stmts))
  <2>1. source.imported /\ it \in {CallOf(f) : f \in Funcs(source)}
    BY <1>3 DEF Items
  <2> QED
    BY <2>1 DEF CallOf, Item
<1> QED
  BY <1>1, <1>2, <1>3

\* ... and is kept by each step.
LEMMA StepGInv == GInv /\ [RunStep]_globalVars => GInv'
<1> SUFFICES ASSUME GInv, [RunStep]_globalVars PROVE GInv'
  OBVIOUS
<1>1. CASE Enter
  <2>1. source' = source /\ at' = at /\ taken' = taken /\ set' = set
    BY <1>1 DEF Enter
  <2>2. PICK f \in CalledIn(Items) \cup (IF CallThrough \in Items THEN taken ELSE {}) : running' = Append(running, f)
    BY <1>1 DEF Enter
  <2>3. PICK it \in Items : (it.how = "call" /\ f = it.func) \/ (f \in taken)
    BY <2>2 DEF CalledIn
  <2>5. f \in Funcs(source) /\ (~source.imported => f \in BegunBy(source, at))
    BY <2>3, ItemsReached DEF GInv
  <2>6. ~source.imported => Started /\ at <= Len(source.stmts)
    BY ItemsReached
  <2>7. running \in Seq(Funcs(source)) /\ running' \in Seq(Funcs(source))
    BY <2>2, <2>5 DEF GInv
  <2>8. ASSUME ~source.imported, NEW i \in DOMAIN running' PROVE running'[i] \in BegunBy(source, at)
    BY <2>2, <2>5, <2>7, <2>8 DEF GInv
  <2> QED
    BY <2>1, <2>6, <2>7, <2>8 DEF GInv, Started
<1>2. CASE TakeAddress
  <2>1. PICK it \in Items : it.how = "take" /\ taken' = taken \cup {it.func}
    BY <1>2 DEF TakeAddress
  <2>2. source' = source /\ at' = at /\ running' = running /\ set' = set
    BY <1>2 DEF TakeAddress
  <2>3. it.func \in Funcs(source) /\ (~source.imported => it.func \in BegunBy(source, at))
    BY <2>1, ItemsReached
  <2> QED
    BY <2>1, <2>2, <2>3 DEF GInv, Started
<1>3. CASE Return
  <2>1. source' = source /\ at' = at /\ taken' = taken /\ set' = set
    BY <1>3 DEF Return
  <2>2. running' = SubSeq(running, 1, Len(running) - 1) /\ running # << >> /\ running \in Seq(Funcs(source))
    BY <1>3 DEF Return, GInv
  <2>3. running' \in Seq(Funcs(source))
    BY <2>2
  <2>4. \A i \in DOMAIN running' : i \in DOMAIN running /\ running'[i] = running[i]
    BY <2>2
  <2> QED
    BY <2>1, <2>2, <2>3, <2>4 DEF GInv, Started
<1>4. CASE NextStmt
  <2>1. source' = source /\ running' = running /\ taken' = taken /\ running = << >> /\ at' = at + 1
    BY <1>4 DEF NextStmt
  <2>2. set' = set \cup (IF at \in Declarations(source) THEN {source.stmts[at].global} ELSE {})
    BY <1>4 DEF NextStmt
  <2>3. at \in Nat /\ Declarations(source) \subseteq Nat
    BY DeclsPositive DEF GInv
  <2>4. ASSUME NEW d \in Declarations(source), d < at' PROVE source.stmts[d].global \in set'
    <3>1. CASE d < at
      BY <3>1, <2>2 DEF GInv
    <3>2. CASE d = at
      BY <3>2, <2>2
    <3> QED
      BY <3>1, <3>2, <2>1, <2>3, <2>4
  <2>5. BegunBy(source, at) \subseteq BegunBy(source, at + 1)
    BY <2>3, BegunGrows
  <2> QED
    BY <2>1, <2>3, <2>4, <2>5 DEF GInv
<1>5. CASE UNCHANGED globalVars
  BY <1>5 DEF globalVars, GInv, Started
<1> QED
  BY <1>1, <1>2, <1>3, <1>4, <1>5 DEF RunStep

\* However an accepted program runs, no function runs that sees a global whose declaration has
\* not yet initialized it (checkGlobalsReachedBeforeDecl, rejectImportedGlobals).
THEOREM GlobalsSetWhenUsed ==
  ASSUME NEW Sources, \A k \in DOMAIN Sources : \A s \in Sources[k] : IsSource(s)
  PROVE  GlobalsInit(Sources) /\ [][RunStep]_globalVars => []SetWhenUsed
<1>1. GlobalsInit(Sources) => GInv
  BY InitGInv
<1> QED
  BY <1>1, StepGInv, GInvImplies, PTL

=============================================================================
