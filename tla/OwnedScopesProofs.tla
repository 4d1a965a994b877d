-------------------------- MODULE OwnedScopesProofs --------------------------
(***************************************************************************)
(* Facts about the analyzer's walk (Ownership): what it keeps in its       *)
(* scopes and its open constructs while it writes the code, and that each  *)
(* of its steps writes a piece whose statements lead from the point before *)
(* it to the point behind it (Course).  Tidy says how scopes and open      *)
(* constructs lie: every name is declared in one scope, a range that is    *)
(* read belongs to an outer one.  Known says that the point the code ends  *)
(* at owns what the scopes hold and nothing else.                          *)
(***************************************************************************)
EXTENDS OwnedRunProofs

-----------------------------------------------------------------------------
\* Statements one after the other.

LEMMA ASeqIs ==
  ASSUME NEW S, NEW s, s \in Seq(S)
  PROVE  IsSeq(s)
<1>1. Len(s) \in Nat
  OBVIOUS
<1>2. s \in [1..Len(s) -> S]
  OBVIOUS
<1>3. s = [i \in 1..Len(s) |-> s[i]]
  BY <1>2
<1>4. Len(s) \in Nat /\ s = [i \in 1..Len(s) |-> s[i]]
  BY <1>1, <1>3
<1> QED
  BY <1>4, Zenon DEF IsSeq

\* A sequence behind another one.
LEMMA SeqsJoined ==
  ASSUME NEW s, NEW t, IsSeq(s), IsSeq(t)
  PROVE  /\ IsSeq(s \o t) /\ Len(s \o t) = Len(s) + Len(t)
         /\ \A i \in 1..Len(s) : (s \o t)[i] = s[i]
         /\ \A i \in 1..Len(t) : (s \o t)[Len(s) + i] = t[i]
<1> DEFINE S == {s[i] : i \in 1..Len(s)} \cup {t[i] : i \in 1..Len(t)}
<1>1. s \in Seq(S)
  <2>1. Len(s) \in Nat /\ s = [i \in 1..Len(s) |-> s[i]]
    BY DEF IsSeq
  <2>2. \A i \in 1..Len(s) : s[i] \in S
    OBVIOUS
  <2> HIDE DEF S
  <2>3. s \in [1..Len(s) -> S]
    BY <2>1, <2>2
  <2> QED
    BY <2>1, <2>3
<1>2. t \in Seq(S)
  <2>1. Len(t) \in Nat /\ t = [i \in 1..Len(t) |-> t[i]]
    BY DEF IsSeq
  <2>2. \A i \in 1..Len(t) : t[i] \in S
    OBVIOUS
  <2> HIDE DEF S
  <2>3. t \in [1..Len(t) -> S]
    BY <2>1, <2>2
  <2> QED
    BY <2>1, <2>3
<1> HIDE DEF S
<1>3. /\ s \o t \in Seq(S) /\ Len(s \o t) = Len(s) + Len(t)
      /\ \A i \in 1..Len(s) : (s \o t)[i] = s[i]
      /\ \A i \in 1..Len(t) : (s \o t)[Len(s) + i] = t[i]
  BY <1>1, <1>2, JoinedIs
<1>4. IsSeq(s \o t)
  <2> DEFINE u == s \o t
  <2>1. u \in Seq(S)
    BY <1>3
  <2> HIDE DEF u
  <2>2. IsSeq(u)
    BY <2>1, ASeqIs
  <2> QED
    BY <2>2 DEF u
<1> QED
  BY <1>3, <1>4

\* What is known before and after, put together.
Joined(f, g, n) == [i \in DOMAIN f \cup {n + j : j \in DOMAIN g} |-> IF i \in 1..n THEN f[i] ELSE g[i - n]]

Agrees(h, f, g, n, k) ==
  /\ DOMAIN h = 1..n + k + 1
  /\ \A i \in 1..n + 1 : h[i] = f[i]
  /\ \A i \in 1..k + 1 : h[n + i] = g[i]

\* They agree with the points of each part.
LEMMA JoinedAt ==
  ASSUME NEW f, NEW g, NEW n \in Nat, NEW k \in Nat, DOMAIN f = 1..n + 1, DOMAIN g = 1..k + 1, f[n + 1] = g[1]
  PROVE  Agrees(Joined(f, g, n), f, g, n, k)
<1>1. DOMAIN Joined(f, g, n) = DOMAIN f \cup {n + j : j \in DOMAIN g}
  BY DEF Joined
<1>2. ASSUME NEW i \in 1..n + k + 1 PROVE i \in DOMAIN f \cup {n + j : j \in DOMAIN g}
  <2>1. CASE i \in 1..n + 1
    BY <2>1
  <2>2. CASE i \notin 1..n + 1
    <3>1. i - n \in DOMAIN g /\ i = n + (i - n)
      BY <2>2
    <3> QED
      BY <3>1
  <2> QED
    BY <2>1, <2>2
<1>3. ASSUME NEW i \in DOMAIN f \cup {n + j : j \in DOMAIN g} PROVE i \in 1..n + k + 1
  OBVIOUS
<1>4. \A i \in DOMAIN Joined(f, g, n) : Joined(f, g, n)[i] = IF i \in 1..n THEN f[i] ELSE g[i - n]
  BY DEF Joined
<1>5. DOMAIN Joined(f, g, n) = 1..n + k + 1
  BY <1>1, <1>2, <1>3
<1>6. ASSUME NEW i \in 1..n + 1 PROVE Joined(f, g, n)[i] = f[i]
  <2>1. CASE i \in 1..n
    BY <1>4, <1>5, <2>1
  <2>2. CASE i = n + 1
    <3>1. i \notin 1..n /\ i - n = 1 /\ i \in 1..n + k + 1
      BY <2>2
    <3> QED
      BY <1>4, <1>5, <2>2, <3>1
  <2> QED
    BY <2>1, <2>2
<1>7. ASSUME NEW i \in 1..k + 1 PROVE Joined(f, g, n)[n + i] = g[i]
  <2>1. n + i \notin 1..n /\ n + i \in 1..n + k + 1 /\ (n + i) - n = i
    OBVIOUS
  <2> QED
    BY <1>4, <1>5, <2>1
<1> QED
  BY <1>5, <1>6, <1>7 DEF Agrees

\* No statements lead from a point to itself.
LEMMA CourseNone == ASSUME NEW A, NEW C PROVE Course(<< >>, A, C, A, C)
<1> DEFINE p == [i \in 1..1 |-> A]
           q == [i \in 1..1 |-> C]
<1>1. Len(<< >>) = 0 /\ IsSeq(<< >>)
  BY DEF IsSeq
<1>2. DOMAIN p = 1..0 + 1 /\ DOMAIN q = 1..0 + 1 /\ p[1] = A /\ q[1] = C /\ p[0 + 1] = A /\ q[0 + 1] = C
  OBVIOUS
<1>3. 1..0 = {}
  OBVIOUS
<1> HIDE DEF p, q
<1> QED
  BY <1>1, <1>2, <1>3 DEF Course

\* Nothing changes where there is no statement.
LEMMA CourseStill ==
  ASSUME NEW A, NEW C, NEW B, NEW D, Course(<< >>, A, C, B, D)
  PROVE  B = A /\ D = C
<1>1. Len(<< >>) + 1 = 1
  OBVIOUS
<1> QED
  BY <1>1 DEF Course

\* One statement.
LEMMA CourseOne ==
  ASSUME NEW s, NEW A, NEW C, NEW B, NEW D, Flow(s, A, C, B, D)
  PROVE  Course(<<s>>, A, C, B, D)
<1> DEFINE p == [i \in 1..2 |-> IF i = 1 THEN A ELSE B]
           q == [i \in 1..2 |-> IF i = 1 THEN C ELSE D]
<1>1. Len(<<s>>) = 1 /\ IsSeq(<<s>>) /\ <<s>>[1] = s
  BY DEF IsSeq
<1>2. DOMAIN p = 1..1 + 1 /\ DOMAIN q = 1..1 + 1 /\ p[1] = A /\ q[1] = C /\ p[1 + 1] = B /\ q[1 + 1] = D
  OBVIOUS
<1>3. \A i \in 1..1 : i = 1
  OBVIOUS
<1> HIDE DEF p, q
<1> QED
  BY <1>1, <1>2, <1>3 DEF Course

\* A course behind a course.
LEMMA CourseThen ==
  ASSUME NEW s, NEW t, NEW A, NEW C, NEW B, NEW D, NEW A2, NEW C2,
         Course(s, A, C, B, D), Course(t, B, D, A2, C2)
  PROVE  Course(s \o t, A, C, A2, C2)
<1>1. PICK f, g : /\ DOMAIN f = 1..Len(s) + 1 /\ DOMAIN g = 1..Len(s) + 1
                  /\ f[1] = A /\ g[1] = C /\ f[Len(s) + 1] = B /\ g[Len(s) + 1] = D
                  /\ \A i \in 1..Len(s) : Flow(s[i], f[i], g[i], f[i + 1], g[i + 1])
  BY DEF Course
<1>2. PICK f2, g2 : /\ DOMAIN f2 = 1..Len(t) + 1 /\ DOMAIN g2 = 1..Len(t) + 1
                    /\ f2[1] = B /\ g2[1] = D /\ f2[Len(t) + 1] = A2 /\ g2[Len(t) + 1] = C2
                    /\ \A i \in 1..Len(t) : Flow(t[i], f2[i], g2[i], f2[i + 1], g2[i + 1])
  BY DEF Course
<1>3. IsSeq(s) /\ IsSeq(t)
  BY DEF Course
<1>4. Len(s) \in Nat /\ Len(t) \in Nat
  BY <1>3 DEF IsSeq
<1> DEFINE n == Len(s)
           k == Len(t)
           u == s \o t
           p == Joined(f, f2, n)
           q == Joined(g, g2, n)
<1>5. /\ IsSeq(u) /\ Len(u) = n + k
      /\ \A i \in 1..n : u[i] = s[i]
      /\ \A i \in 1..k : u[n + i] = t[i]
  BY <1>3, SeqsJoined
<1> HIDE DEF u
<1>6. /\ DOMAIN p = 1..n + k + 1
      /\ \A i \in 1..n + 1 : p[i] = f[i]
      /\ \A i \in 1..k + 1 : p[n + i] = f2[i]
  <2>1. Agrees(p, f, f2, n, k)
    BY <1>1, <1>2, <1>4, JoinedAt
  <2> QED
    BY <2>1, Zenon DEF Agrees
<1>7. /\ DOMAIN q = 1..n + k + 1
      /\ \A i \in 1..n + 1 : q[i] = g[i]
      /\ \A i \in 1..k + 1 : q[n + i] = g2[i]
  <2>1. Agrees(q, g, g2, n, k)
    BY <1>1, <1>2, <1>4, JoinedAt
  <2> QED
    BY <2>1, Zenon DEF Agrees
<1> HIDE DEF p, q, n, k
<1>8. n \in Nat /\ k \in Nat /\ n = Len(s) /\ k = Len(t)
  BY <1>4 DEF n, k
<1>9. p[1] = A /\ q[1] = C /\ p[n + k + 1] = A2 /\ q[n + k + 1] = C2
  <2>1. 1 \in 1..n + 1 /\ k + 1 \in 1..k + 1 /\ n + (k + 1) = n + k + 1
    BY <1>8
  <2> QED
    BY <1>1, <1>2, <1>6, <1>7, <1>8, <2>1
<1>10. ASSUME NEW i \in 1..n + k PROVE Flow(u[i], p[i], q[i], p[i + 1], q[i + 1])
  <2>1. CASE i \in 1..n
    <3>1. i \in 1..n + 1 /\ i + 1 \in 1..n + 1
      BY <1>8, <2>1
    <3>2. u[i] = s[i] /\ p[i] = f[i] /\ q[i] = g[i] /\ p[i + 1] = f[i + 1] /\ q[i + 1] = g[i + 1]
      BY <1>5, <1>6, <1>7, <2>1, <3>1
    <3> QED
      BY <1>1, <1>8, <2>1, <3>2
  <2>2. CASE i \notin 1..n
    <3> DEFINE j == i - n
    <3>1. j \in 1..k /\ j \in 1..k + 1 /\ j + 1 \in 1..k + 1 /\ n + j = i /\ n + (j + 1) = i + 1
      BY <1>8, <2>2
    <3> HIDE DEF j
    <3>2. u[i] = t[j] /\ p[i] = f2[j] /\ q[i] = g2[j] /\ p[i + 1] = f2[j + 1] /\ q[i + 1] = g2[j + 1]
      BY <1>5, <1>6, <1>7, <3>1
    <3> QED
      BY <1>2, <1>8, <3>1, <3>2
  <2> QED
    BY <2>1, <2>2
<1>11. Course(u, A, C, A2, C2)
  <2>1. /\ DOMAIN p = 1..Len(u) + 1 /\ DOMAIN q = 1..Len(u) + 1
        /\ p[Len(u) + 1] = A2 /\ q[Len(u) + 1] = C2
        /\ \A i \in 1..Len(u) : Flow(u[i], p[i], q[i], p[i + 1], q[i + 1])
    BY <1>5, <1>6, <1>7, <1>9, <1>10
  <2>2. IsSeq(u) /\ p[1] = A /\ q[1] = C
    BY <1>5, <1>9
  <2> QED
    BY <2>1, <2>2 DEF Course
<1> QED
  BY <1>11 DEF u

\* Two statements.
LEMMA CourseTwo ==
  ASSUME NEW s, NEW t, NEW A, NEW C, NEW B, NEW D, NEW A2, NEW C2,
         Flow(s, A, C, B, D), Flow(t, B, D, A2, C2)
  PROVE  Course(<<s, t>>, A, C, A2, C2)
<1>1. <<s>> \o <<t>> = <<s, t>>
  <2> DEFINE S == {s, t}
             u == <<s>> \o <<t>>
             w == <<s, t>>
  <2>1. <<s>> \in Seq(S) /\ <<t>> \in Seq(S) /\ w \in Seq(S)
    OBVIOUS
  <2>2. Len(<<s>>) = 1 /\ Len(<<t>>) = 1 /\ Len(w) = 2 /\ <<s>>[1] = s /\ <<t>>[1] = t /\ w[1] = s /\ w[2] = t
    OBVIOUS
  <2>3. /\ u \in Seq(S) /\ Len(u) = Len(<<s>>) + Len(<<t>>)
        /\ \A i \in 1..Len(<<s>>) : u[i] = <<s>>[i]
        /\ \A i \in 1..Len(<<t>>) : u[Len(<<s>>) + i] = <<t>>[i]
    BY <2>1, JoinedIs
  <2> HIDE DEF u, w, S
  <2>4. Len(u) = 2 /\ u[1] = s /\ u[1 + 1] = t
    <3>1. 1 \in 1..1
      OBVIOUS
    <3>2. Len(u) = 1 + 1 /\ u[1] = <<s>>[1] /\ u[1 + 1] = <<t>>[1]
      BY <2>2, <2>3, <3>1
    <3> QED
      BY <2>2, <3>2
  <2>5. u = w
    BY <2>1, <2>2, <2>3, <2>4
  <2> QED
    BY <2>5 DEF u, w
<1>2. Course(<<s>>, A, C, B, D) /\ Course(<<t>>, B, D, A2, C2)
  BY CourseOne
<1>3. Course(<<s>> \o <<t>>, A, C, A2, C2)
  BY <1>2, CourseThen
<1> QED
  BY <1>1, <1>3

\* A course and one more statement.
LEMMA CourseAnd ==
  ASSUME NEW s, NEW t, NEW A, NEW C, NEW B, NEW D, NEW A2, NEW C2,
         Course(s, A, C, B, D), Flow(t, B, D, A2, C2)
  PROVE  Course(s \o <<t>>, A, C, A2, C2)
<1>1. Course(<<t>>, B, D, A2, C2)
  BY CourseOne
<1> QED
  BY <1>1, CourseThen

\* A statement that changes what is owned leaves the constructs around it as they are.
LEMMA CourseEffect ==
  ASSUME NEW s, NEW A, NEW C, NEW B, Effect(s, A, B)
  PROVE  Flow(s, A, C, B, C)
BY DEF Flow

-----------------------------------------------------------------------------
\* What is known where the walk has come to.

VarsIn(ss, k) == UNION {ToSet(ss[i]) : i \in 1..k}
HeldIn(ss, k) == {v.name : v \in VarsIn(ss, k)} \cup Also
SortOf(v) ==
  IF ~v.owned THEN "frame" ELSE IF v.name \in ToSet(Trees) \cup RangeVars THEN "tree" ELSE "leaf"

\* The constructs up to the n-th that walk a variable's array.
Ranged(os, n) == {m \in 1..n : os[m].range # << >>}

\* The first k scopes' variables own, and what the first n constructs walk is theirs.
OwnsScopes(A, ss, k) ==
  /\ Own(A) = [x \in HeldIn(ss, k) |-> Own(A)[x]]
  /\ \A v \in VarsIn(ss, k) : Own(A)[v.name] = SortOf(v)
  /\ \A x \in Also : Own(A)[x] = KindOf(x)
WalksRanges(A, os, n) ==
  /\ DOMAIN Twin(A) = {RangeVar(m) : m \in Ranged(os, n)}
  /\ \A m \in Ranged(os, n) : Twin(A)[RangeVar(m)] = os[m].range
AtRest(A) == HoleOf(A) = << >> /\ Fill(A) = << >> /\ Turns(A) = {}
Shape(A, ss, k, os, n) == OwnsScopes(A, ss, k) /\ WalksRanges(A, os, n) /\ AtRest(A)

Loop(e) == e.kind \in {"while", "for"}
Width(e) == IF e.kind = "for" THEN 2 ELSE 1
Level(os, n) == IF n = 1 THEN 1 ELSE os[n - 1].outer + Width(os[n - 1])

\* The scopes that a construct's test, its else and what follows it are in.
Kept1(e) == e.outer + Width(e) - 1

Framed(D, ss, os) ==
  /\ D = [n \in DOMAIN D |-> D[n]]
  /\ DOMAIN D = {n \in 1..Len(os) : os[n].kind # "block"}
  /\ \A n \in DOMAIN D :
       /\ Way(D[n]) = IF Loop(os[n]) THEN "loop" ELSE "branch"
       /\ Shape(Top(D[n]), ss, Kept1(os[n]), os, n)
       /\ Shape(Out(D[n]), ss, Kept1(os[n]), os, n - 1)

-----------------------------------------------------------------------------
\* What the walk keeps of its scopes and constructs.

Variables == [name : Names, owned : BOOLEAN]
Constructs ==
  [kind : {"block", "if", "else", "while", "for"}, outer : Nat,
   range : {<< >>} \cup {<<w>> : w \in ToSet(Trees)}]

OnePlace(ss) ==
  \A i1, i2 \in 1..Len(ss) : \A j1 \in DOMAIN ss[i1], j2 \in DOMAIN ss[i2] :
    ss[i1][j1].name = ss[i2][j2].name => i1 = i2 /\ j1 = j2
Named(v) ==
  /\ v.name \in ToSet(Leaves) \cup ToSet(Trees) \cup RangeVars /\ v.name \notin Also
  /\ ~v.owned => v.name \in ToSet(Trees)
HeldByFor(ss, os) ==
  \A i \in 1..Len(ss) : \A v \in ToSet(ss[i]) : \A n \in 1..3 : v.name = RangeVar(n) =>
    n \in 1..Len(os) /\ os[n].kind = "for" /\ os[n].range = << >> /\ i = os[n].outer + 1
Leveled(ss, os) ==
  /\ \A n \in 1..Len(os) : os[n].outer = Level(os, n)
  /\ Len(ss) = Level(os, Len(os) + 1)
  /\ \A m, n \in 1..Len(os) : m < n => os[m].outer + Width(os[m]) <= os[n].outer
RangesHeld(ss, os) ==
  \A n \in 1..Len(os) : os[n].range # << >> => os[n].kind = "for" /\ os[n].range[1] \in HeldIn(ss, os[n].outer)
Tidy(ss, os) ==
  /\ ss \in Seq(Seq(Variables)) /\ os \in Seq(Constructs) /\ Len(os) \in 0..3
  /\ OnePlace(ss)
  /\ \A i \in 1..Len(ss) : \A v \in ToSet(ss[i]) : Named(v)
  /\ HeldByFor(ss, os) /\ Leveled(ss, os) /\ RangesHeld(ss, os)
  /\ Len(ss) = 1 + Len(os) + Cardinality({n \in 1..Len(os) : os[n].kind = "for"})

-----------------------------------------------------------------------------
\* What leaving scopes releases.

\* B is A without these owners, and without twins of theirs.
Gone(A, B, S) ==
  /\ Own(B) = Less(Own(A), S)
  /\ DOMAIN Twin(B) = {u \in DOMAIN Twin(A) : Twin(A)[u][1] \notin S}
  /\ \A u \in DOMAIN Twin(B) : Twin(B)[u] = Twin(A)[u]
  /\ HoleOf(B) = HoleOf(A) /\ Fill(B) = Fill(A) /\ Turns(B) = Turns(A)

\* Nothing has gone from a point itself.
LEMMA GoneNone == ASSUME NEW A, Own(A) = [x \in DOMAIN Own(A) |-> Own(A)[x]] PROVE Gone(A, A, {})
<1>1. Less(Own(A), {}) = Own(A)
  BY DEF Less
<1> QED
  BY <1>1 DEF Gone

\* What Without leaves of a point.
LEMMA WithoutLeaves ==
  ASSUME NEW A, NEW S
  PROVE  /\ Own(Without(A, S)) = Less(Own(A), S)
         /\ DOMAIN Twin(Without(A, S)) = {u \in DOMAIN Twin(A) : Twin(A)[u][1] \notin S}
         /\ \A u \in DOMAIN Twin(Without(A, S)) : Twin(Without(A, S))[u] = Twin(A)[u]
         /\ HoleOf(Without(A, S)) = HoleOf(A) /\ Fill(Without(A, S)) = Fill(A) /\ Turns(Without(A, S)) = Turns(A)
<1> DEFINE own == Less(Own(A), S)
           twin == [u \in {u \in DOMAIN Twin(A) : Twin(A)[u][1] \notin S} |-> Twin(A)[u]]
<1>1. Without(A, S) = Point(own, twin, HoleOf(A), Fill(A), Turns(A))
  BY DEF Without
<1>2. /\ DOMAIN twin = {u \in DOMAIN Twin(A) : Twin(A)[u][1] \notin S}
      /\ \A u \in DOMAIN twin : twin[u] = Twin(A)[u]
  OBVIOUS
<1> HIDE DEF own, twin
<1>3. /\ Own(Without(A, S)) = own /\ Twin(Without(A, S)) = twin /\ HoleOf(Without(A, S)) = HoleOf(A)
      /\ Fill(Without(A, S)) = Fill(A) /\ Turns(Without(A, S)) = Turns(A)
  BY <1>1, PointIs
<1>4. own = Less(Own(A), S)
  BY DEF own
<1> QED
  BY <1>2, <1>3, <1>4

\* Taking names out of a function leaves the others as they are.
LEMMA LessIs ==
  ASSUME NEW f, NEW S
  PROVE  /\ DOMAIN Less(f, S) = DOMAIN f \ S
         /\ \A x \in DOMAIN f \ S : Less(f, S)[x] = f[x]
         /\ Less(f, S) = [x \in DOMAIN Less(f, S) |-> Less(f, S)[x]]
BY DEF Less

\* One more owner gone.
LEMMA GoneNext ==
  ASSUME NEW A, NEW B, NEW S, NEW x, Gone(A, B, S)
  PROVE  Gone(A, Without(B, {x}), S \cup {x})
<1>1. Less(Less(Own(A), S), {x}) = Less(Own(A), S \cup {x})
  BY DEF Less
<1>2. /\ Own(B) = Less(Own(A), S)
      /\ DOMAIN Twin(B) = {u \in DOMAIN Twin(A) : Twin(A)[u][1] \notin S}
      /\ \A u \in DOMAIN Twin(B) : Twin(B)[u] = Twin(A)[u]
      /\ HoleOf(B) = HoleOf(A) /\ Fill(B) = Fill(A) /\ Turns(B) = Turns(A)
  BY DEF Gone
<1> DEFINE W == Without(B, {x})
<1>3. /\ Own(W) = Less(Own(B), {x})
      /\ DOMAIN Twin(W) = {u \in DOMAIN Twin(B) : Twin(B)[u][1] \notin {x}}
      /\ \A u \in DOMAIN Twin(W) : Twin(W)[u] = Twin(B)[u]
      /\ HoleOf(W) = HoleOf(B) /\ Fill(W) = Fill(B) /\ Turns(W) = Turns(B)
  BY WithoutLeaves
<1> HIDE DEF W
<1>4. Own(W) = Less(Own(A), S \cup {x})
  BY <1>1, <1>2, <1>3
<1>5. DOMAIN Twin(W) = {u \in DOMAIN Twin(A) : Twin(A)[u][1] \notin S \cup {x}}
  <2>1. ASSUME NEW u PROVE u \in DOMAIN Twin(W) <=> u \in DOMAIN Twin(A) /\ Twin(A)[u][1] \notin S \cup {x}
    <3>1. u \in DOMAIN Twin(B) <=> u \in DOMAIN Twin(A) /\ Twin(A)[u][1] \notin S
      BY <1>2
    <3>2. u \in DOMAIN Twin(W) <=> u \in DOMAIN Twin(B) /\ Twin(B)[u][1] # x
      BY <1>3
    <3> QED
      BY <1>2, <3>1, <3>2
  <2>2. \A u : u \in DOMAIN Twin(W) <=> u \in {v \in DOMAIN Twin(A) : Twin(A)[v][1] \notin S \cup {x}}
    BY <2>1
  <2> QED
    BY <2>2
<1>6. \A u \in DOMAIN Twin(W) : Twin(W)[u] = Twin(A)[u]
  <2>1. \A u \in DOMAIN Twin(W) : u \in DOMAIN Twin(B)
    BY <1>3
  <2> QED
    BY <1>2, <1>3, <2>1
<1>7. Gone(A, W, S \cup {x})
  BY <1>2, <1>3, <1>4, <1>5, <1>6 DEF Gone
<1> QED
  BY <1>7 DEF W

\* The release of one variable.
LEMMA ReleaseEffect ==
  ASSUME NEW v, v \in Variables, NEW A, HoleOf(A) = << >>, v.name \in DOMAIN Own(A),
         v.owned => Own(A)[v.name] # "frame"
  PROVE  Effect(Release(v), A, Without(A, {v.name}))
<1> DEFINE s == Release(v)
<1>1. s.op = (IF v.owned THEN "free" ELSE "fini") /\ s.to = <<v.name>> /\ s.from = << >> /\ s.args = << >>
  BY DEF Release, Stm
<1> HIDE DEF s
<1>2. v.owned \in BOOLEAN
  BY DEF Variables
<1>3. s.op = "free" => v.owned
  BY <1>1, <1>2
<1>4. s.op \in {"free", "fini"}
  BY <1>1, <1>2
<1>5. FreesOwner(s, A, Without(A, {v.name}))
  BY <1>1, <1>3, <1>4 DEF FreesOwner
<1> QED
  BY <1>5 DEF Effect, s

\* Variables released one after the other, but for keep.
Frees(vs, keep) == FlattenSeq([i \in DOMAIN vs |-> IF vs[i].name = keep THEN << >> ELSE <<Release(vs[i])>>])
NamesOf(vs, k) == {vs[i].name : i \in 1..k}
\* Frees releases all of a scope's variables but one, and each can be released.
LEMMA FreesCourse ==
  ASSUME NEW vs, vs \in Seq(Variables), NEW keep, NEW A, NEW C, HoleOf(A) = << >>,
         Own(A) = [x \in DOMAIN Own(A) |-> Own(A)[x]],
         \A i, j \in DOMAIN vs : vs[i].name = vs[j].name => i = j,
         \A i \in DOMAIN vs : vs[i].name # keep =>
           vs[i].name \in DOMAIN Own(A) /\ (vs[i].owned => Own(A)[vs[i].name] # "frame")
  PROVE  \E B : Course(Frees(vs, keep), A, C, B, C) /\ Gone(A, B, NamesOf(vs, Len(vs)) \ {keep})
<1> DEFINE N == Len(vs)
           ss == [i \in DOMAIN vs |-> IF vs[i].name = keep THEN << >> ELSE <<Release(vs[i])>>]
           S == {Release(v) : v \in Variables}
<1>1. N \in Nat /\ DOMAIN vs = 1..N /\ \A i \in 1..N : vs[i] \in Variables
  OBVIOUS
<1>2. ss \in Seq(Seq(S)) /\ Len(ss) = N
  <2>1. ASSUME NEW i \in 1..N PROVE ss[i] \in Seq(S)
    <3> DEFINE r == Release(vs[i])
    <3>1. r \in S
      BY <1>1
    <3> HIDE DEF r, S
    <3>2. <<r>> \in Seq(S) /\ << >> \in Seq(S)
      BY <3>1
    <3>3. ss[i] = IF vs[i].name = keep THEN << >> ELSE <<r>>
      BY <1>1 DEF r
    <3> HIDE DEF ss
    <3> QED
      BY <3>2, <3>3
  <2>2. DOMAIN ss = 1..N /\ ss = [i \in 1..N |-> ss[i]]
    BY <1>1
  <2> HIDE DEF ss, S
  <2>3. ss \in [1..N -> Seq(S)]
    BY <2>1, <2>2
  <2> QED
    BY <1>1, <2>3
<1>3. \A i \in 1..N : ss[i] = IF vs[i].name = keep THEN << >> ELSE <<Release(vs[i])>>
  BY <1>1
<1>4. Frees(vs, keep) = FlattenSeq(ss)
  BY DEF Frees
<1> HIDE DEF ss, S
<1>5. NamesOf(vs, 0) = {}
  <2>1. 1..0 = {}
    OBVIOUS
  <2> QED
    BY <2>1 DEF NamesOf
<1>6. ASSUME NEW k \in 1..N PROVE NamesOf(vs, k) = NamesOf(vs, k - 1) \cup {vs[k].name}
  <2>1. \A i : i \in 1..k <=> i \in 1..k - 1 \/ i = k
    BY <1>1
  <2> QED
    BY <2>1 DEF NamesOf
<1> DEFINE Reached(t, k) == \E B : Course(t, A, C, B, C) /\ Gone(A, B, NamesOf(vs, k) \ {keep})
<1>7. Reached(<< >>, 0)
  <2>1. NamesOf(vs, 0) \ {keep} = {}
    BY <1>5
  <2> QED
    BY <2>1, CourseNone, GoneNone
<1>8. ASSUME NEW k \in 1..N, NEW t, Reached(t, k - 1), t \in Seq(S) PROVE Reached(t \o ss[k], k)
  <2>1. PICK B : Course(t, A, C, B, C) /\ Gone(A, B, NamesOf(vs, k - 1) \ {keep})
    BY <1>8
  <2> DEFINE G == NamesOf(vs, k - 1) \ {keep}
             v == vs[k]
  <2>2. CASE v.name = keep
    <3>1. ss[k] = << >> /\ NamesOf(vs, k) \ {keep} = G
      BY <1>3, <1>6, <2>2
    <3>2. t \o << >> = t
      BY <1>8
    <3> QED
      BY <2>1, <3>1, <3>2
  <2>3. CASE v.name # keep
    <3>1. ss[k] = <<Release(v)>> /\ NamesOf(vs, k) \ {keep} = G \cup {v.name}
      BY <1>3, <1>6, <2>3
    <3>2. v \in Variables /\ v.name \in DOMAIN Own(A) /\ (v.owned => Own(A)[v.name] # "frame")
      BY <1>1, <2>3
    <3>3. v.name \notin G
      <4>1. SUFFICES ASSUME NEW i \in 1..k - 1, vs[i].name = v.name PROVE FALSE
        BY DEF NamesOf
      <4>2. i \in DOMAIN vs /\ k \in DOMAIN vs /\ i # k
        BY <1>1
      <4> QED
        BY <4>1, <4>2
    <3> HIDE DEF G, v
    <3>4. Own(B) = Less(Own(A), G) /\ HoleOf(B) = << >>
      BY <2>1 DEF Gone, G
    <3>5. v.name \in DOMAIN Own(B) /\ Own(B)[v.name] = Own(A)[v.name]
        <4>1. v.name \in DOMAIN Own(A) \ G
        BY <3>2, <3>3
      <4>2. DOMAIN Less(Own(A), G) = DOMAIN Own(A) \ G /\ \A x \in DOMAIN Own(A) \ G : Less(Own(A), G)[x] = Own(A)[x]
        BY DEF Less
      <4> QED
        BY <3>4, <4>1, <4>2
    <3>6. v.owned => Own(B)[v.name] # "frame"
      BY <3>2, <3>5
    <3>7. Effect(Release(v), B, Without(B, {v.name}))
      BY <3>2, <3>4, <3>5, <3>6, ReleaseEffect
    <3>8. Flow(Release(v), B, C, Without(B, {v.name}), C)
      BY <3>7, CourseEffect
    <3>9. Course(t \o <<Release(v)>>, A, C, Without(B, {v.name}), C)
      BY <2>1, <3>8, CourseAnd
    <3>10. Gone(A, Without(B, {v.name}), G \cup {v.name})
      BY <2>1, GoneNext DEF G
    <3> QED
      BY <3>1, <3>9, <3>10
  <2> QED
    BY <2>2, <2>3
<1> HIDE DEF Reached
<1>9. CASE N = 0
  <2>1. ss = << >>
    BY <1>2, <1>9
  <2>2. FlattenSeq(ss) = << >>
    BY <2>1, FlattenedNone
  <2> QED
    BY <1>4, <1>7, <1>9, <2>2 DEF Reached
<1>10. CASE N # 0
  <2>1. PICK f : /\ \A i \in 1..Len(ss) : f[i] = IF i = 1 THEN ss[i] ELSE f[i - 1] \o ss[i]
                 /\ FlattenSeq(ss) = f[Len(ss)]
    BY <1>2, <1>10, FlattenedSteps
  <2>2. \A i \in 1..N : ss[i] \in Seq(S)
    BY <1>2
  <2> DEFINE T == {k \in 1..N : ~(f[k] \in Seq(S) /\ Reached(f[k], k))}
  <2>3. T = {}
    <3> SUFFICES ASSUME T # {} PROVE FALSE
      OBVIOUS
    <3>1. T \in SUBSET Nat
      OBVIOUS
    <3>2. PICK k \in T : \A j \in T : k <= j
      <4> HIDE DEF T
      <4> QED
        BY <3>1, LeastNat
    <3>3. k \in 1..N /\ ~(f[k] \in Seq(S) /\ Reached(f[k], k))
      OBVIOUS
    <3>4. ss[k] \in Seq(S)
      BY <2>2, <3>3
    <3>5. CASE k = 1
      <4>0. 1 \in 1..N /\ 1 \in 1..Len(ss) /\ 1 - 1 = 0
        BY <1>2, <3>3, <3>5
      <4>1. f[1] = ss[1] /\ 1 \in 1..N /\ 1 - 1 = 0
        BY <2>1, <4>0
      <4>2. << >> \in Seq(S) /\ << >> \o ss[1] = ss[1]
        BY <3>4, <3>5
      <4>3. Reached(<< >> \o ss[1], 1)
        BY <1>7, <1>8, <4>1, <4>2
      <4> QED
        BY <3>3, <3>4, <3>5, <4>1, <4>2, <4>3
    <3>6. CASE k # 1
      <4>1. k - 1 \in 1..N /\ k - 1 < k /\ k \in 1..Len(ss) /\ k \in Nat
        BY <1>1, <1>2, <3>3, <3>6
      <4>2. k - 1 \notin T
        <5> HIDE DEF T
        <5> QED
          BY <3>1, <3>2, <4>1
      <4>3. f[k - 1] \in Seq(S) /\ Reached(f[k - 1], k - 1)
        BY <4>1, <4>2
      <4>4. f[k] = f[k - 1] \o ss[k]
        BY <2>1, <3>6, <4>1
      <4>5. Reached(f[k - 1] \o ss[k], k)
        BY <1>8, <3>3, <4>3
      <4>6. f[k - 1] \o ss[k] \in Seq(S)
        BY <3>4, <4>3
      <4> QED
        BY <3>3, <4>4, <4>5, <4>6
    <3> QED
      BY <3>5, <3>6
  <2>4. N \in 1..N
    BY <1>1, <1>10
  <2>5. Reached(f[N], N)
    BY <2>3, <2>4
  <2> QED
    BY <1>2, <1>4, <2>1, <2>5 DEF Reached
<1> QED
  BY <1>9, <1>10

\* What is in a sequence.
LEMMA ToSetIs == ASSUME NEW S, NEW s, s \in Seq(S) PROVE \A x : x \in ToSet(s) <=> \E i \in 1..Len(s) : x = s[i]
<1>1. DOMAIN s = 1..Len(s)
  OBVIOUS
<1> QED
  BY <1>1 DEF ToSet

\* The walk's structures.
LEMMA TidyIs ==
  ASSUME NEW ss, NEW os, Tidy(ss, os)
  PROVE  /\ Len(ss) \in Nat \ {0} /\ DOMAIN ss = 1..Len(ss) /\ ss = [i \in 1..Len(ss) |-> ss[i]]
         /\ \A i \in 1..Len(ss) : ss[i] \in Seq(Variables)
         /\ Len(os) \in 0..3 /\ DOMAIN os = 1..Len(os) /\ os = [n \in 1..Len(os) |-> os[n]]
         /\ \A n \in 1..Len(os) : os[n] \in Constructs
         /\ \A n \in 1..Len(os) : os[n].outer \in Nat \ {0} /\ Width(os[n]) \in 1..2
                                  /\ os[n].outer + Width(os[n]) <= Len(ss)
<1>1. ss \in Seq(Seq(Variables)) /\ os \in Seq(Constructs) /\ Len(os) \in 0..3 /\ Leveled(ss, os)
  BY DEF Tidy
<1>2. Len(ss) \in Nat /\ DOMAIN ss = 1..Len(ss) /\ \A i \in 1..Len(ss) : ss[i] \in Seq(Variables)
  BY <1>1
<1>3. Len(os) \in Nat /\ DOMAIN os = 1..Len(os) /\ \A n \in 1..Len(os) : os[n] \in Constructs
  BY <1>1
<1>4. ss = [i \in 1..Len(ss) |-> ss[i]] /\ os = [n \in 1..Len(os) |-> os[n]]
  BY <1>1, SeqIs
<1>5. ASSUME NEW n \in 1..Len(os) PROVE os[n].outer \in Nat /\ Width(os[n]) \in 1..2
  <2>1. os[n].outer \in Nat
    BY <1>3 DEF Constructs
  <2> QED
    BY <2>1 DEF Width
<1>6. \A n \in 1..Len(os) : os[n].outer = Level(os, n)
  BY <1>1 DEF Leveled
<1>7. Len(ss) = Level(os, Len(os) + 1)
  BY <1>1 DEF Leveled
<1>8. \A m, n \in 1..Len(os) : m < n => os[m].outer + Width(os[m]) <= os[n].outer
  BY <1>1 DEF Leveled
<1>9. ASSUME NEW n \in 1..Len(os) PROVE os[n].outer # 0 /\ os[n].outer + Width(os[n]) <= Len(ss)
  <2> DEFINE N == Len(os)
  <2>1. N \in 1..N /\ N + 1 # 1 /\ (N + 1) - 1 = N /\ n \in Nat /\ N \in Nat /\ n <= N
    BY <1>3
  <2>2. Level(os, N + 1) = os[N].outer + Width(os[N])
    BY <2>1 DEF Level
  <2>3. Len(ss) = os[N].outer + Width(os[N])
    BY <1>7, <2>2
  <2>4. os[n].outer # 0
    <3>1. CASE n = 1
      BY <1>6, <3>1 DEF Level
    <3>2. CASE n # 1
      <4>1. n - 1 \in 1..Len(os) /\ n - 1 < n
        BY <2>1, <3>2
      <4>2. os[n - 1].outer + Width(os[n - 1]) <= os[n].outer
        BY <1>8, <4>1
      <4>3. os[n - 1].outer \in Nat /\ Width(os[n - 1]) \in 1..2 /\ os[n].outer \in Nat
        BY <1>5, <4>1
      <4> QED
        BY <4>2, <4>3
    <3> QED
      BY <3>1, <3>2
  <2>5. CASE n = N
    BY <1>2, <1>5, <2>3, <2>4, <2>5
  <2>6. CASE n # N
    <3>1. n < N
      <4>1. n \in Nat /\ N \in Nat /\ n <= N
        BY <2>1
      <4> HIDE DEF N
      <4> QED
        BY <2>6, <4>1
    <3>2. os[n].outer + Width(os[n]) <= os[N].outer
      BY <1>8, <2>1, <3>1
    <3>3. os[n].outer \in Nat /\ Width(os[n]) \in 1..2 /\ os[N].outer \in Nat /\ Width(os[N]) \in 1..2
      BY <1>5, <2>1
    <3> QED
      BY <1>2, <2>3, <2>4, <3>2, <3>3
  <2> QED
    BY <2>5, <2>6
<1>10. Len(ss) # 0
  <2>1. CASE Len(os) = 0
    BY <1>7, <2>1 DEF Level
  <2>2. CASE Len(os) # 0
    <3>1. Len(os) \in 1..Len(os)
      BY <1>3, <2>2
    <3>2. /\ os[Len(os)].outer \in Nat /\ Width(os[Len(os)]) \in 1..2
          /\ os[Len(os)].outer + Width(os[Len(os)]) <= Len(ss)
      BY <1>5, <1>9, <3>1
    <3> QED
      BY <1>2, <3>2
  <2> QED
    BY <2>1, <2>2
<1>11. \A n \in 1..Len(os) : /\ os[n].outer \in Nat \ {0} /\ Width(os[n]) \in 1..2
                             /\ os[n].outer + Width(os[n]) <= Len(ss)
  BY <1>5, <1>9
<1> QED
  BY <1>1, <1>2, <1>3, <1>4, <1>10, <1>11

\* No name.
None == ""

\* Variables of a range of scopes.
VarsFrom(ss, from, to) == UNION {ToSet(ss[i]) : i \in from..to}
NamesFrom(ss, from, to, keep) == {v.name : v \in VarsFrom(ss, from, to)} \ {keep}

\* The variables of all scopes.
LEMMA ScopeVarsAre ==
  ASSUME scopes \in Seq(Seq(Variables))
  PROVE  ScopeVars = VarsIn(scopes, Len(scopes))
<1> DEFINE F == FlattenSeq(scopes)
<1>1. \A x : x \in ToSet(F) <=> \E i \in 1..Len(scopes) : x \in ToSet(scopes[i])
  BY FlattenedIs
<1> HIDE DEF F
<1>2. \A x : x \in VarsIn(scopes, Len(scopes)) <=> \E i \in 1..Len(scopes) : x \in ToSet(scopes[i])
  BY DEF VarsIn
<1>3. \A x : x \in ToSet(F) <=> x \in VarsIn(scopes, Len(scopes))
  BY <1>1, <1>2
<1>4. ToSet(F) = VarsIn(scopes, Len(scopes))
  BY <1>3
<1> QED
  BY <1>4 DEF F, ScopeVars

\* Equal scopes hold equal variables.
LEMMA VarsSame ==
  ASSUME NEW ss, NEW s2, NEW k, \A i \in 1..k : ss[i] = s2[i]
  PROVE  VarsIn(ss, k) = VarsIn(s2, k) /\ HeldIn(ss, k) = HeldIn(s2, k)
<1>1. {ToSet(ss[i]) : i \in 1..k} = {ToSet(s2[i]) : i \in 1..k}
  OBVIOUS
<1>2. VarsIn(ss, k) = VarsIn(s2, k)
  BY <1>1 DEF VarsIn
<1> QED
  BY <1>2 DEF HeldIn

\* The variables of one scope more.
LEMMA VarsNext ==
  ASSUME NEW ss, NEW k \in Nat \ {0}
  PROVE  VarsIn(ss, k) = VarsIn(ss, k - 1) \cup ToSet(ss[k])
<1>1. \A i : i \in 1..k <=> i \in 1..k - 1 \/ i = k
  OBVIOUS
<1> QED
  BY <1>1 DEF VarsIn

\* The variables of the outer scopes and of the others.
LEMMA VarsParted ==
  ASSUME NEW ss, NEW k \in Nat, NEW n \in Nat, k <= n
  PROVE  VarsIn(ss, n) = VarsIn(ss, k) \cup VarsFrom(ss, k + 1, n)
<1>1. \A i : i \in 1..n <=> i \in 1..k \/ i \in k + 1..n
  OBVIOUS
<1> QED
  BY <1>1 DEF VarsIn, VarsFrom

\* No two variables of different scopes have one name, and a variable's name tells which it is.
LEMMA NameTells ==
  ASSUME NEW ss, NEW os, Tidy(ss, os), NEW i \in 1..Len(ss), NEW k \in 1..Len(ss),
         NEW v, v \in ToSet(ss[i]), NEW w, w \in ToSet(ss[k]), v.name = w.name
  PROVE  v = w /\ i = k
<1>1. ss[i] \in Seq(Variables) /\ ss[k] \in Seq(Variables) /\ DOMAIN ss[i] = 1..Len(ss[i]) /\ DOMAIN ss[k] = 1..Len(ss[k])
  BY TidyIs
<1>2. PICK j \in 1..Len(ss[i]) : v = ss[i][j]
  BY <1>1, ToSetIs
<1>3. PICK l \in 1..Len(ss[k]) : w = ss[k][l]
  BY <1>1, ToSetIs
<1>4. OnePlace(ss)
  BY DEF Tidy
<1>5. i = k /\ j = l
  BY <1>1, <1>2, <1>3, <1>4 DEF OnePlace
<1> QED
  BY <1>2, <1>3, <1>5

\* A variable that owns its block has none in the frame.
LEMMA SortsOwned == ASSUME NEW v, v.owned PROVE SortOf(v) # "frame"
BY DEF SortOf

\* The releases of the scopes from..to but for keep leave out what they own.
LEMMA LeavesScopes ==
  ASSUME Tidy(scopes, open), NEW from \in 1..Len(scopes), NEW to \in 1..Len(scopes), from <= to,
         NEW keep, NEW A, NEW C, HoleOf(A) = << >>, Own(A) = [x \in DOMAIN Own(A) |-> Own(A)[x]],
         \A v \in VarsFrom(scopes, from, to) : v.name # keep =>
           v.name \in DOMAIN Own(A) /\ Own(A)[v.name] = SortOf(v)
  PROVE  \E B : /\ Course(CollectFree(from, to, keep), A, C, B, C)
                /\ Gone(A, B, NamesFrom(scopes, from, to, keep))
<1> DEFINE sub == SubSeq(scopes, from, to)
           fl == FlattenSeq(sub)
           vs == Reverse(fl)
           N == Len(fl)
<1>1. Len(scopes) \in Nat \ {0} /\ \A i \in 1..Len(scopes) : scopes[i] \in Seq(Variables)
  BY TidyIs
<1>2. scopes \in Seq(Seq(Variables))
  BY DEF Tidy
<1>3. /\ sub \in Seq(Seq(Variables)) /\ Len(sub) = to - from + 1
      /\ \A i \in 1..Len(sub) : sub[i] = scopes[from + i - 1]
  <2>1. sub \in Seq(Seq(Variables))
    BY <1>1, <1>2
  <2>2. Len(sub) = to - from + 1
    BY <1>1, <1>2
  <2>3. \A i \in 1..to - from + 1 : sub[i] = scopes[from + i - 1]
    BY <1>1, <1>2, SMTT(30)
  <2> QED
    BY <2>1, <2>2, <2>3
<1> HIDE DEF sub
<1>4. \A i \in 1..Len(sub) : from + i - 1 \in from..to /\ from + i - 1 \in 1..Len(scopes)
  BY <1>1, <1>3, SMTT(30)
<1>5. \A i \in 1..Len(sub) : sub[i] \in Seq(Variables)
  BY <1>3
<1>6. \A i \in 1..Len(sub) : IsInjective(sub[i])
  <2> SUFFICES ASSUME NEW i \in 1..Len(sub), NEW a \in DOMAIN sub[i], NEW b \in DOMAIN sub[i], sub[i][a] = sub[i][b]
               PROVE  a = b
    BY DEF IsInjective
  <2>1. OnePlace(scopes)
    BY DEF Tidy
  <2>2. sub[i] = scopes[from + i - 1] /\ from + i - 1 \in 1..Len(scopes)
    BY <1>3, <1>4
  <2> QED
    BY <2>1, <2>2 DEF OnePlace
<1>7. \A i, j \in 1..Len(sub) : i # j => ToSet(sub[i]) \cap ToSet(sub[j]) = {}
  <2> SUFFICES ASSUME NEW i \in 1..Len(sub), NEW j \in 1..Len(sub), i # j,
                      NEW v, v \in ToSet(sub[i]), v \in ToSet(sub[j])
               PROVE  FALSE
    OBVIOUS
  <2>1. v \in ToSet(scopes[from + i - 1]) /\ v \in ToSet(scopes[from + j - 1])
    BY <1>3
  <2>2. from + i - 1 \in 1..Len(scopes) /\ from + j - 1 \in 1..Len(scopes)
    BY <1>4
  <2>3. from + i - 1 = from + j - 1
    <3> DEFINE a == from + i - 1
               b == from + j - 1
    <3>1. a \in 1..Len(scopes) /\ b \in 1..Len(scopes) /\ v \in ToSet(scopes[a]) /\ v \in ToSet(scopes[b])
      BY <2>1, <2>2
    <3> HIDE DEF a, b
    <3>2. a = b
      BY <3>1, NameTells
    <3> QED
      BY <3>2 DEF a, b
  <2>4. i \in Nat /\ j \in Nat
    BY <1>3, <1>1, SMTT(20)
  <2> QED
    BY <2>3, <2>4
<1>8. /\ fl \in Seq(Variables)
      /\ \A x : x \in ToSet(fl) <=> \E i \in 1..Len(sub) : x \in ToSet(sub[i])
      /\ IsInjective(fl)
  BY <1>3, <1>6, <1>7, FlattenedIs
<1> HIDE DEF fl
<1>9. \A x : x \in ToSet(fl) <=> x \in VarsFrom(scopes, from, to)
  <2>1. ASSUME NEW x, x \in ToSet(fl) PROVE x \in VarsFrom(scopes, from, to)
    <3>1. PICK i \in 1..Len(sub) : x \in ToSet(sub[i])
      BY <1>8, <2>1
    <3>2. sub[i] = scopes[from + i - 1] /\ from + i - 1 \in from..to
      BY <1>3, <1>4
    <3> QED
      BY <3>1, <3>2 DEF VarsFrom
  <2>2. ASSUME NEW x, x \in VarsFrom(scopes, from, to) PROVE x \in ToSet(fl)
    <3>1. PICK k \in from..to : x \in ToSet(scopes[k])
      BY <2>2 DEF VarsFrom
    <3>2. k - from + 1 \in 1..Len(sub) /\ from + (k - from + 1) - 1 = k
      BY <1>3
    <3>3. sub[k - from + 1] = scopes[k]
      BY <1>3, <3>2
    <3> QED
      BY <1>8, <3>1, <3>2, <3>3
  <2> QED
    BY <2>1, <2>2
<1>10. N \in Nat /\ DOMAIN fl = 1..N /\ \A i \in 1..N : fl[i] \in Variables /\ fl[i] \in ToSet(fl)
  <2>1. N \in Nat /\ DOMAIN fl = 1..N /\ \A i \in 1..N : fl[i] \in Variables
    BY <1>8
  <2>2. \A i \in 1..N : fl[i] \in ToSet(fl)
    BY <2>1 DEF ToSet
  <2> QED
    BY <2>1, <2>2
<1>11. \A a, b \in 1..N : fl[a].name = fl[b].name => a = b
  <2> SUFFICES ASSUME NEW a \in 1..N, NEW b \in 1..N, fl[a].name = fl[b].name PROVE a = b
    OBVIOUS
  <2>1. PICK i \in 1..Len(sub) : fl[a] \in ToSet(sub[i])
    BY <1>8, <1>10
  <2>2. PICK j \in 1..Len(sub) : fl[b] \in ToSet(sub[j])
    BY <1>8, <1>10
  <2>3. fl[a] \in ToSet(scopes[from + i - 1]) /\ fl[b] \in ToSet(scopes[from + j - 1])
    BY <1>3, <2>1, <2>2
  <2>4. from + i - 1 \in 1..Len(scopes) /\ from + j - 1 \in 1..Len(scopes)
    BY <1>4
  <2>5. fl[a] = fl[b]
    <3> DEFINE x == from + i - 1
               y == from + j - 1
    <3>1. x \in 1..Len(scopes) /\ y \in 1..Len(scopes) /\ fl[a] \in ToSet(scopes[x]) /\ fl[b] \in ToSet(scopes[y])
      BY <2>3, <2>4
    <3> HIDE DEF x, y
    <3> QED
      BY <3>1, NameTells, SMTT(20)
  <2> QED
    BY <1>8, <1>10, <2>5 DEF IsInjective
<1>12. vs = [i \in 1..N |-> fl[(N - i) + 1]]
  BY DEF Reverse
<1> HIDE DEF vs, N
<1>13. \A i \in 1..N : (N - i) + 1 \in 1..N /\ N - ((N - i) + 1) + 1 = i
  BY <1>10
<1>14. vs \in Seq(Variables) /\ Len(vs) = N /\ DOMAIN vs = 1..N
  <2>1. vs \in [1..N -> Variables]
    BY <1>10, <1>12, <1>13
  <2> QED
    BY <1>10, <2>1
<1>15. \A i \in 1..N : vs[i] = fl[(N - i) + 1]
  BY <1>12
<1>16. \A i, j \in DOMAIN vs : vs[i].name = vs[j].name => i = j
  <2> SUFFICES ASSUME NEW i \in 1..N, NEW j \in 1..N, vs[i].name = vs[j].name PROVE i = j
    BY <1>14
  <2>1. (N - i) + 1 = (N - j) + 1
    BY <1>11, <1>13, <1>15
  <2> QED
    BY <1>10, <2>1
<1>17. \A i \in 1..N : vs[i] \in VarsFrom(scopes, from, to)
  BY <1>9, <1>10, <1>13, <1>15
<1>18. NamesOf(vs, N) = {v.name : v \in VarsFrom(scopes, from, to)}
  <2>1. ASSUME NEW v, v \in VarsFrom(scopes, from, to) PROVE \E i \in 1..N : v = vs[i]
    <3>1. PICK k \in 1..N : v = fl[k]
      BY <1>8, <1>9, <1>10, <2>1, ToSetIs DEF N
    <3>2. v = vs[(N - k) + 1] /\ (N - k) + 1 \in 1..N
      BY <1>13, <1>15, <3>1
    <3> QED
      BY <3>2
  <2> QED
    BY <1>17, <2>1 DEF NamesOf
<1>19. \A i \in DOMAIN vs : vs[i].name # keep =>
         vs[i].name \in DOMAIN Own(A) /\ (vs[i].owned => Own(A)[vs[i].name] # "frame")
  BY <1>14, <1>17, SortsOwned
<1>20. \E B : Course(Frees(vs, keep), A, C, B, C) /\ Gone(A, B, NamesOf(vs, Len(vs)) \ {keep})
  BY <1>14, <1>16, <1>19, FreesCourse
<1>21. CollectFree(from, to, keep) = Frees(vs, keep)
  BY DEF CollectFree, Frees, vs, fl, sub
<1>22. NamesOf(vs, Len(vs)) \ {keep} = NamesFrom(scopes, from, to, keep)
  BY <1>14, <1>18 DEF NamesFrom
<1> QED
  BY <1>20, <1>21, <1>22

\* Names of different kinds are different.
Given1 == ToSet(Leaves) \cup ToSet(Trees)
\* The names of the source, the ranges' names and the temporaries are different from
\* each other.
LEMMA NamesApart ==
  /\ \A n \in 1..3 : RangeVar(n) \in RangeVars /\ RangeVar(n) \in Names \ Given1
  /\ \A n \in 1..3 : Temp(n) \in (Names \ Given1) \ RangeVars
  /\ \A m, n \in 1..3 : RangeVar(m) = RangeVar(n) => m = n
  /\ \A m, n \in 1..3 : Temp(m) = Temp(n) => m = n
  /\ "" \notin Given1 /\ "" \notin RangeVars /\ Given1 \subseteq Names /\ RangeVars \cap Given1 = {} /\ RangeVars \subseteq Names
  /\ ToSet(Leaves) \cap ToSet(Trees) = {}
<1>1. /\ ToSet(Leaves) \cap ToSet(Trees) = {}
      /\ Given1 \cap ({""} \cup RangeVars \cup {Temp(i) : i \in 1..3}) = {}
  BY NamesAssumption DEF Given1
<1>2. /\ RangeVar(1) = "for_1" /\ RangeVar(2) = "for_2" /\ RangeVar(3) = "for_3"
      /\ Temp(1) = "tmp_1" /\ Temp(2) = "tmp_2" /\ Temp(3) = "tmp_3"
  BY DEF RangeVar, Temp
<1>3. \A n : n \in 1..3 <=> n = 1 \/ n = 2 \/ n = 3
  OBVIOUS
<1>4. RangeVars = {"for_1", "for_2", "for_3"}
  BY <1>2, <1>3 DEF RangeVars
<1>5. {Temp(i) : i \in 1..3} = {"tmp_1", "tmp_2", "tmp_3"}
  BY <1>2, <1>3
<1>6. Names = Given1 \cup RangeVars \cup {Temp(i) : i \in 1..3}
  BY DEF Names, Given1
<1>7. \A n \in 1..3 : RangeVar(n) \in RangeVars /\ Temp(n) \in {Temp(i) : i \in 1..3}
  BY <1>2, <1>3, <1>4, <1>5
<1>8. \A m, n \in 1..3 : (RangeVar(m) = RangeVar(n) => m = n) /\ (Temp(m) = Temp(n) => m = n)
  BY <1>2, <1>3
<1>9. RangeVars \cap {Temp(i) : i \in 1..3} = {} /\ "" \notin RangeVars
  BY <1>4, <1>5
<1> DEFINE T == {Temp(i) : i \in 1..3}
<1> HIDE DEF T
<1>10. /\ Given1 \cap ({""} \cup RangeVars \cup T) = {} /\ Names = Given1 \cup RangeVars \cup T
       /\ \A n \in 1..3 : RangeVar(n) \in RangeVars /\ Temp(n) \in T
       /\ RangeVars \cap T = {} /\ "" \notin RangeVars
  BY <1>1, <1>6, <1>7, <1>9 DEF T
<1> QED
  BY <1>1, <1>8, <1>10

\* The named return is a name of the source, or there is none.
LEMMA AlsoIs == ASSUME job \in Jobs PROVE Also \subseteq Given1 /\ (Also = {} \/ Also = {job.named}) /\ (job.named = "" <=> Also = {})
<1>1. job.named \in {""} \cup Given1
  BY JobsAssumption DEF Given1
<1> QED
  BY <1>1, NamesApart DEF Also

\* What is held is named by a variable of the source, or holds what a `for` walks.
LEMMA HeldAre ==
  ASSUME NEW ss, NEW os, Tidy(ss, os), job \in Jobs, NEW k \in 0..Len(ss)
  PROVE  /\ HeldIn(ss, k) \subseteq Given1 \cup RangeVars
         /\ \A v \in VarsIn(ss, k) : v \in Variables /\ Named(v) /\ v.name \in HeldIn(ss, k)
         /\ \A n \in 1..3 : RangeVar(n) \in HeldIn(ss, k) =>
              n \in 1..Len(os) /\ os[n].kind = "for" /\ os[n].range = << >> /\ os[n].outer + 1 \in 1..k
<1>1. Len(ss) \in Nat \ {0} /\ \A i \in 1..Len(ss) : ss[i] \in Seq(Variables)
  BY TidyIs
<1>2. ASSUME NEW v \in VarsIn(ss, k) PROVE \E i \in 1..k : i \in 1..Len(ss) /\ v \in ToSet(ss[i]) /\ v \in Variables
  <2>1. PICK i \in 1..k : v \in ToSet(ss[i])
    BY DEF VarsIn
  <2>2. i \in 1..Len(ss) /\ ss[i] \in Seq(Variables)
    BY <1>1
  <2>3. v \in Variables
    <3>1. PICK j \in 1..Len(ss[i]) : v = ss[i][j]
      BY <2>1, <2>2, ToSetIs
    <3> QED
      BY <2>2, <3>1
  <2> QED
    BY <2>1, <2>2, <2>3
<1>3. \A i \in 1..Len(ss) : \A v \in ToSet(ss[i]) : Named(v)
  BY DEF Tidy
<1>4. HeldByFor(ss, os)
  BY DEF Tidy
<1>5. \A v \in VarsIn(ss, k) : v \in Variables /\ Named(v) /\ v.name \in HeldIn(ss, k)
  BY <1>2, <1>3 DEF HeldIn
<1>6. HeldIn(ss, k) \subseteq Given1 \cup RangeVars
  BY <1>5, AlsoIs DEF HeldIn, Named, Given1
<1>7. ASSUME NEW n \in 1..3, RangeVar(n) \in HeldIn(ss, k)
      PROVE  n \in 1..Len(os) /\ os[n].kind = "for" /\ os[n].range = << >> /\ os[n].outer + 1 \in 1..k
  <2>1. RangeVar(n) \notin Also
    BY AlsoIs, NamesApart
  <2>2. PICK v \in VarsIn(ss, k) : v.name = RangeVar(n)
    BY <1>7, <2>1 DEF HeldIn
  <2>3. PICK i \in 1..k : i \in 1..Len(ss) /\ v \in ToSet(ss[i])
    BY <1>2
  <2> QED
    BY <1>4, <2>2, <2>3 DEF HeldByFor
<1> QED
  BY <1>5, <1>6, <1>7

Shaped(A, ss, k, os, n) ==
  /\ DOMAIN Own(A) = HeldIn(ss, k) /\ Own(A) = [x \in DOMAIN Own(A) |-> Own(A)[x]]
  /\ \A v \in VarsIn(ss, k) : Own(A)[v.name] = SortOf(v)
  /\ \A x \in Also : Own(A)[x] = KindOf(x)
  /\ DOMAIN Twin(A) = {RangeVar(m) : m \in Ranged(os, n)}
  /\ \A m \in Ranged(os, n) : Twin(A)[RangeVar(m)] = os[m].range
  /\ HoleOf(A) = << >> /\ Fill(A) = << >> /\ Turns(A) = {}
\* What a point that fits the scopes owns, and which ranges are read at it.
LEMMA ShapeIs ==
  ASSUME NEW A, NEW ss, NEW k, NEW os, NEW n, Shape(A, ss, k, os, n)
  PROVE  Shaped(A, ss, k, os, n)
<1>1. Own(A) = [x \in HeldIn(ss, k) |-> Own(A)[x]]
  BY DEF Shape, OwnsScopes
<1>2. DOMAIN Own(A) = HeldIn(ss, k)
  <2> DEFINE f == Own(A)
  <2>1. f = [x \in HeldIn(ss, k) |-> f[x]]
    BY <1>1
  <2> HIDE DEF f
  <2>2. DOMAIN f = HeldIn(ss, k)
    BY <2>1
  <2> QED
    BY <2>2 DEF f
<1>3. Own(A) = [x \in DOMAIN Own(A) |-> Own(A)[x]]
  BY <1>1, <1>2
<1> QED
  BY <1>2, <1>3 DEF Shape, OwnsScopes, WalksRanges, AtRest, Shaped

\* It fits other scopes as far as they are the same.
LEMMA ShapeSame ==
  ASSUME NEW A, NEW ss, NEW s2, NEW k, NEW os, NEW o2, NEW n, Shape(A, ss, k, os, n),
         \A i \in 1..k : ss[i] = s2[i], \A m \in 1..n : os[m].range = o2[m].range
  PROVE  Shape(A, s2, k, o2, n)
<1>1. VarsIn(ss, k) = VarsIn(s2, k) /\ HeldIn(ss, k) = HeldIn(s2, k)
  BY VarsSame
<1>2. Ranged(os, n) = Ranged(o2, n) /\ \A m \in Ranged(os, n) : os[m].range = o2[m].range
  BY DEF Ranged
<1>3. OwnsScopes(A, s2, k)
  BY <1>1 DEF Shape, OwnsScopes
<1>4. WalksRanges(A, o2, n)
  BY <1>2 DEF Shape, WalksRanges
<1> QED
  BY <1>3, <1>4 DEF Shape

\* Both own the same.
LEMMA OwnSame ==
  ASSUME NEW A, NEW X, NEW ss, NEW k, OwnsScopes(A, ss, k), OwnsScopes(X, ss, k)
  PROVE  Own(X) = Own(A)
<1>1. ASSUME NEW x \in HeldIn(ss, k) PROVE Own(X)[x] = Own(A)[x]
  <2>1. CASE x \in Also
    BY <2>1 DEF OwnsScopes
  <2>2. CASE \E v \in VarsIn(ss, k) : x = v.name
    BY <2>2 DEF OwnsScopes
  <2> QED
    BY <2>1, <2>2 DEF HeldIn
<1>2. Own(A) = [x \in HeldIn(ss, k) |-> Own(A)[x]] /\ Own(X) = [x \in HeldIn(ss, k) |-> Own(X)[x]]
  BY DEF OwnsScopes
<1> QED
  BY <1>1, <1>2

\* A point that owns what another one owns, and reads no range that the other does not,
\* can be jumped to from it.
LEMMA LeadsBack ==
  ASSUME NEW A, NEW X, NEW ss, NEW k, OwnsScopes(A, ss, k), OwnsScopes(X, ss, k), HoleOf(A) = << >>, AtRest(X),
         \A u \in DOMAIN Twin(X) : u \in DOMAIN Twin(A) /\ Twin(X)[u] = Twin(A)[u]
  PROVE  Leads(A, X)
<1>1. Own(X) = Own(A)
  BY OwnSame
<1> QED
  BY <1>1 DEF Leads, AtRest

\* What is left when the scopes behind the k-th have been left.
LEMMA GoneShape ==
  ASSUME NEW ss, NEW os, Tidy(ss, os), job \in Jobs, NEW n \in 0..Len(os), NEW K \in 0..Len(ss), NEW k \in 0..K,
         NEW A, NEW B, Shape(A, ss, K, os, n), Gone(A, B, NamesFrom(ss, k + 1, K, None))
  PROVE  /\ OwnsScopes(B, ss, k) /\ AtRest(B)
         /\ \A r \in Ranged(os, n) : os[r].outer <= k =>
              RangeVar(r) \in DOMAIN Twin(B) /\ Twin(B)[RangeVar(r)] = os[r].range
         /\ (\A r \in 1..n : os[r].outer <= k) => Shape(B, ss, k, os, n)
<1> DEFINE S == {v.name : v \in VarsFrom(ss, k + 1, K)}
<1>1. Len(ss) \in Nat \ {0} /\ Len(os) \in 0..3 /\ K \in Nat /\ k \in Nat /\ k \in 0..Len(ss)
  BY TidyIs
<1>2. VarsIn(ss, K) = VarsIn(ss, k) \cup VarsFrom(ss, k + 1, K)
  <2>1. k <= K
    BY <1>1
  <2> QED
    BY <1>1, <2>1, VarsParted, ZenonT(30)
<1>3. \A v \in VarsIn(ss, K) : v.name \in Given1 \cup RangeVars /\ v.name \notin Also
  BY HeldAre DEF Named, Given1
<1>4. None \notin S /\ S \cap Also = {}
  <2>1. \A v \in VarsFrom(ss, k + 1, K) : v.name \in Given1 \cup RangeVars /\ v.name \notin Also
    BY <1>2, <1>3
  <2>2. None \notin Given1 \cup RangeVars
    BY NamesApart DEF None
  <2> QED
    BY <2>1, <2>2
<1>5. ASSUME NEW v \in VarsIn(ss, k), v.name \in S PROVE FALSE
  <2>1. PICK w \in VarsFrom(ss, k + 1, K) : v.name = w.name
    BY <1>5
  <2>2. PICK i \in 1..k : v \in ToSet(ss[i])
    BY DEF VarsIn
  <2>3. PICK j \in k + 1..K : w \in ToSet(ss[j])
    BY DEF VarsFrom
  <2>4. i \in 1..Len(ss) /\ j \in 1..Len(ss) /\ i # j
    BY <1>1
  <2> QED
    BY <2>1, <2>2, <2>3, <2>4, NameTells
<1>6. HeldIn(ss, K) \ S = HeldIn(ss, k)
  <2>1. ASSUME NEW x \in HeldIn(ss, K) \ S PROVE x \in HeldIn(ss, k)
    BY <1>2 DEF HeldIn
  <2>2. ASSUME NEW x \in HeldIn(ss, k) PROVE x \in HeldIn(ss, K) \ S
    BY <1>2, <1>4, <1>5 DEF HeldIn
  <2> QED
    BY <2>1, <2>2
<1> HIDE DEF S
<1>7. Gone(A, B, S)
  <2>1. NamesFrom(ss, k + 1, K, None) = S
    BY <1>4 DEF S, NamesFrom
  <2> QED
    BY <2>1
<1>8. /\ DOMAIN Own(A) = HeldIn(ss, K)
      /\ \A v \in VarsIn(ss, K) : Own(A)[v.name] = SortOf(v)
      /\ \A x \in Also : Own(A)[x] = KindOf(x)
      /\ DOMAIN Twin(A) = {RangeVar(m) : m \in Ranged(os, n)}
      /\ \A m \in Ranged(os, n) : Twin(A)[RangeVar(m)] = os[m].range
      /\ HoleOf(A) = << >> /\ Fill(A) = << >> /\ Turns(A) = {}
  <2>1. Shaped(A, ss, K, os, n)
    BY ShapeIs
  <2> QED
    BY <2>1 DEF Shaped
<1>9. /\ Own(B) = Less(Own(A), S)
      /\ DOMAIN Twin(B) = {u \in DOMAIN Twin(A) : Twin(A)[u][1] \notin S}
      /\ \A u \in DOMAIN Twin(B) : Twin(B)[u] = Twin(A)[u]
      /\ HoleOf(B) = HoleOf(A) /\ Fill(B) = Fill(A) /\ Turns(B) = Turns(A)
  BY <1>7 DEF Gone
<1>10. /\ DOMAIN Own(B) = HeldIn(ss, k) /\ Own(B) = [x \in DOMAIN Own(B) |-> Own(B)[x]]
       /\ \A x \in HeldIn(ss, k) : Own(B)[x] = Own(A)[x]
  <2>1. /\ DOMAIN Less(Own(A), S) = HeldIn(ss, k)
        /\ \A x \in HeldIn(ss, k) : Less(Own(A), S)[x] = Own(A)[x]
        /\ Less(Own(A), S) = [x \in DOMAIN Less(Own(A), S) |-> Less(Own(A), S)[x]]
    <3>1. /\ DOMAIN Less(Own(A), S) = DOMAIN Own(A) \ S
          /\ \A x \in DOMAIN Own(A) \ S : Less(Own(A), S)[x] = Own(A)[x]
          /\ Less(Own(A), S) = [x \in DOMAIN Less(Own(A), S) |-> Less(Own(A), S)[x]]
      BY LessIs, ZenonT(30)
    <3>2. DOMAIN Own(A) \ S = HeldIn(ss, k)
      BY <1>6, <1>8
    <3> QED
      BY <3>1, <3>2
  <2> QED
    BY <1>9, <2>1
<1>11. OwnsScopes(B, ss, k)
  <2>1. Own(B) = [x \in HeldIn(ss, k) |-> Own(B)[x]]
    BY <1>10
  <2>2. \A v \in VarsIn(ss, k) : v.name \in HeldIn(ss, k) /\ v \in VarsIn(ss, K)
    BY <1>2 DEF HeldIn
  <2>3. \A x \in Also : x \in HeldIn(ss, k)
    BY DEF HeldIn
  <2>4. \A v \in VarsIn(ss, k) : Own(B)[v.name] = SortOf(v)
    BY <1>8, <1>10, <2>2
  <2>5. \A x \in Also : Own(B)[x] = KindOf(x)
    BY <1>8, <1>10, <2>3
  <2> QED
    BY <2>1, <2>4, <2>5 DEF OwnsScopes
<1>12. AtRest(B)
  BY <1>8, <1>9 DEF AtRest
<1>13. ASSUME NEW r \in Ranged(os, n), os[r].outer <= k
       PROVE  RangeVar(r) \in DOMAIN Twin(B) /\ Twin(B)[RangeVar(r)] = os[r].range
  <2>1. r \in 1..Len(os) /\ os[r].range # << >>
    BY <1>1 DEF Ranged
  <2>2. os[r].range[1] \in HeldIn(ss, os[r].outer) /\ os[r].outer \in Nat
    BY <2>1, TidyIs DEF Tidy, RangesHeld
  <2>3. VarsIn(ss, k) = VarsIn(ss, os[r].outer) \cup VarsFrom(ss, os[r].outer + 1, k)
    BY <1>1, <1>13, <2>2, VarsParted, ZenonT(30)
  <2>4. os[r].range[1] \in HeldIn(ss, k)
    BY <2>2, <2>3 DEF HeldIn
  <2>5. os[r].range[1] \notin S
    BY <1>6, <2>4
  <2>6. RangeVar(r) \in DOMAIN Twin(A) /\ Twin(A)[RangeVar(r)] = os[r].range
    BY <1>8
  <2> QED
    BY <1>9, <2>5, <2>6
<1>14. ASSUME \A r \in 1..n : os[r].outer <= k PROVE Shape(B, ss, k, os, n)
  <2>1. \A r \in Ranged(os, n) : RangeVar(r) \in DOMAIN Twin(B) /\ Twin(B)[RangeVar(r)] = os[r].range
    BY <1>13, <1>14 DEF Ranged
  <2>2. DOMAIN Twin(B) \subseteq DOMAIN Twin(A)
    BY <1>9
  <2>3. DOMAIN Twin(B) = {RangeVar(m) : m \in Ranged(os, n)}
    BY <1>8, <2>1, <2>2
  <2>4. WalksRanges(B, os, n)
    BY <2>1, <2>3 DEF WalksRanges
  <2> QED
    BY <1>11, <1>12, <2>4 DEF Shape
<1> QED
  BY <1>11, <1>12, <1>13, <1>14

-----------------------------------------------------------------------------
\* The walk: what it has emitted, and what is known where it has come to.

Drawn(B, D) ==
  /\ Written(code, owners, Also, Start, B, D)
  /\ Shape(B, scopes, Len(scopes), open, Len(open)) /\ Framed(D, scopes, open)
DrawnOn(B, D) ==
  /\ Written(code', owners', Also, Start, B, D)
  /\ Shape(B, scopes', Len(scopes'), open', Len(open')) /\ Framed(D, scopes', open')

\* A sequence and one more.
LEMMA AppendIs ==
  ASSUME NEW ms, IsSeq(ms), NEW e
  PROVE  IsSeq(Append(ms, e)) /\ \A m \in ToSet(Append(ms, e)) : m \in ToSet(ms) \/ m = e
<1> DEFINE S == {ms[i] : i \in 1..Len(ms)} \cup {e}
           u == Append(ms, e)
<1>1. ms \in Seq(S)
  <2>1. Len(ms) \in Nat /\ ms = [i \in 1..Len(ms) |-> ms[i]]
    BY DEF IsSeq
  <2>2. \A i \in 1..Len(ms) : ms[i] \in S
    OBVIOUS
  <2> HIDE DEF S
  <2>3. ms \in [1..Len(ms) -> S]
    BY <2>1, <2>2
  <2> QED
    BY <2>1, <2>3
<1>2. e \in S
  OBVIOUS
<1> HIDE DEF S
<1>3. u \in Seq(S) /\ Len(u) = Len(ms) + 1 /\ (\A i \in 1..Len(ms) : u[i] = ms[i]) /\ u[Len(ms) + 1] = e /\ Len(ms) \in Nat
  BY <1>1, <1>2
<1> HIDE DEF u
<1>4. IsSeq(u)
  BY <1>3, ASeqIs
<1>5. ASSUME NEW m, m \in ToSet(u) PROVE m \in ToSet(ms) \/ m = e
  <2>1. PICK i \in 1..Len(u) : m = u[i]
    BY <1>3, <1>5, ToSetIs
  <2>2. CASE i = Len(ms) + 1
    BY <1>3, <2>1, <2>2
  <2>3. CASE i # Len(ms) + 1
    <3>1. i \in 1..Len(ms)
      BY <1>3, <2>3
    <3> QED
      BY <1>1, <1>3, <2>1, <3>1, ToSetIs
  <2> QED
    BY <2>2, <2>3
<1> QED
  BY <1>4, <1>5 DEF u

\* What is emitted follows what is there.
LEMMA Extends ==
  ASSUME Tidy(scopes, open), NEW ss, Emit(ss), NEW B, NEW D, Drawn(B, D), NEW B2, NEW D2, Course(ss, B, D, B2, D2)
  PROVE  Written(code', owners', Also, Start, B2, D2)
<1> DEFINE e == [at |-> Len(code) + 1, vars |-> {v.name : v \in ScopeVars}]
           n == Len(code)
<1>1. code' = code \o ss /\ owners' = Append(owners, e)
  BY DEF Emit
<1>2. PICK p, q : Noted(code, owners, Also, Start, p, q) /\ p[n + 1] = B /\ q[n + 1] = D
  BY DEF Drawn, Written
<1>3. /\ IsSeq(code) /\ IsSeq(owners) /\ DOMAIN p = 1..n + 1 /\ DOMAIN q = 1..n + 1
      /\ p[1] = Start /\ q[1] = Nothing
      /\ \A i \in 1..n : Flow(code[i], p[i], q[i], p[i + 1], q[i + 1])
      /\ \A m \in ToSet(owners) : /\ m.at \in 1..n + 1
                                  /\ HoleOf(p[m.at]) = << >> /\ DOMAIN Own(p[m.at]) = m.vars \cup Also
  BY <1>2 DEF Noted
<1>4. IsSeq(ss)
  BY DEF Course
<1>5. PICK f, g : /\ DOMAIN f = 1..Len(ss) + 1 /\ DOMAIN g = 1..Len(ss) + 1
                  /\ f[1] = B /\ g[1] = D /\ f[Len(ss) + 1] = B2 /\ g[Len(ss) + 1] = D2
                  /\ \A i \in 1..Len(ss) : Flow(ss[i], f[i], g[i], f[i + 1], g[i + 1])
  BY DEF Course
<1>6. Course(code, Start, Nothing, B, D)
  BY <1>2, <1>3 DEF Course
<1>7. n \in Nat /\ Len(ss) \in Nat
  BY <1>3, <1>4 DEF IsSeq
<1>8. Shaped(B, scopes, Len(scopes), open, Len(open))
  BY ShapeIs DEF Drawn
<1>9. HoleOf(B) = << >> /\ DOMAIN Own(B) = e.vars \cup Also /\ e.at = n + 1
  <2>1. ScopeVars = VarsIn(scopes, Len(scopes))
    BY ScopeVarsAre DEF Tidy
  <2> QED
    BY <1>8, <2>1 DEF Shaped, HeldIn
<1> HIDE DEF e
<1>10. IsSeq(Append(owners, e)) /\ \A m \in ToSet(Append(owners, e)) : m \in ToSet(owners) \/ m = e
  BY <1>3, AppendIs
<1> DEFINE k == Len(ss)
           p2 == Joined(p, f, n)
           q2 == Joined(q, g, n)
           cd == code \o ss
           ms == Append(owners, e)
<1>11. /\ IsSeq(cd) /\ Len(cd) = n + k
       /\ \A i \in 1..n : cd[i] = code[i]
       /\ \A i \in 1..k : cd[n + i] = ss[i]
  BY <1>3, <1>4, SeqsJoined
<1>12. /\ DOMAIN p2 = 1..n + k + 1
       /\ \A i \in 1..n + 1 : p2[i] = p[i]
       /\ \A i \in 1..k + 1 : p2[n + i] = f[i]
  <2>1. n \in Nat /\ k \in Nat /\ DOMAIN p = 1..n + 1 /\ DOMAIN f = 1..k + 1 /\ p[n + 1] = f[1]
    BY <1>2, <1>3, <1>5, <1>7
  <2> HIDE DEF n, k
  <2>2. Agrees(p2, p, f, n, k)
    BY <2>1, JoinedAt
  <2> QED
    BY <2>2, Zenon DEF Agrees
<1>13. /\ DOMAIN q2 = 1..n + k + 1
       /\ \A i \in 1..n + 1 : q2[i] = q[i]
       /\ \A i \in 1..k + 1 : q2[n + i] = g[i]
  <2>1. n \in Nat /\ k \in Nat /\ DOMAIN q = 1..n + 1 /\ DOMAIN g = 1..k + 1 /\ q[n + 1] = g[1]
    BY <1>2, <1>3, <1>5, <1>7
  <2> HIDE DEF n, k
  <2>2. Agrees(q2, q, g, n, k)
    BY <2>1, JoinedAt
  <2> QED
    BY <2>2, Zenon DEF Agrees
<1>14. IsSeq(ms) /\ \A m \in ToSet(ms) : m \in ToSet(owners) \/ m = e
  BY <1>10
<1> HIDE DEF p2, q2, cd, ms, n, k
<1>15. n \in Nat /\ k \in Nat /\ n = Len(code) /\ k = Len(ss)
  BY <1>7 DEF n, k
<1>16. p2[1] = Start /\ q2[1] = Nothing /\ p2[n + k + 1] = B2 /\ q2[n + k + 1] = D2
  <2>1. 1 \in 1..n + 1 /\ k + 1 \in 1..k + 1 /\ n + (k + 1) = n + k + 1
    BY <1>15
  <2> QED
    BY <1>3, <1>5, <1>12, <1>13, <1>15, <2>1
<1>17. ASSUME NEW i \in 1..n + k PROVE Flow(cd[i], p2[i], q2[i], p2[i + 1], q2[i + 1])
  <2>1. CASE i \in 1..n
    <3>1. i \in 1..n + 1 /\ i + 1 \in 1..n + 1
      BY <1>15, <2>1
    <3>2. cd[i] = code[i] /\ p2[i] = p[i] /\ q2[i] = q[i] /\ p2[i + 1] = p[i + 1] /\ q2[i + 1] = q[i + 1]
      BY <1>11, <1>12, <1>13, <2>1, <3>1
    <3> QED
      BY <1>3, <2>1, <3>2
  <2>2. CASE i \notin 1..n
    <3> DEFINE j == i - n
    <3>1. j \in 1..k /\ j \in 1..k + 1 /\ j + 1 \in 1..k + 1 /\ n + j = i /\ n + (j + 1) = i + 1
      BY <1>15, <2>2
    <3> HIDE DEF j
    <3>2. cd[i] = ss[j] /\ p2[i] = f[j] /\ q2[i] = g[j] /\ p2[i + 1] = f[j + 1] /\ q2[i + 1] = g[j + 1]
      BY <1>11, <1>12, <1>13, <3>1
    <3> QED
      BY <1>5, <1>15, <3>1, <3>2
  <2> QED
    BY <2>1, <2>2
<1>18. ASSUME NEW m, m \in ToSet(ms)
       PROVE  m.at \in 1..Len(cd) + 1 /\ HoleOf(p2[m.at]) = << >> /\ DOMAIN Own(p2[m.at]) = m.vars \cup Also
  <2>0. \A i \in 1..n + 1 : i \in 1..Len(cd) + 1
    BY <1>11, <1>15
  <2>1. CASE m \in ToSet(owners)
    BY <1>3, <1>12, <2>0, <2>1
  <2>2. CASE m = e
    <3>1. n + 1 \in 1..n + 1 /\ p[n + 1] = B
      BY <1>2, <1>15
    <3>2. p2[n + 1] = B /\ m.at = n + 1 /\ n + 1 \in 1..Len(cd) + 1
      BY <1>9, <1>12, <2>0, <2>2, <3>1
    <3> QED
      BY <1>9, <2>2, <3>2
  <2> QED
    BY <1>14, <1>18, <2>1, <2>2
<1>19. Noted(cd, ms, Also, Start, p2, q2)
  <2>1. DOMAIN p2 = 1..Len(cd) + 1 /\ DOMAIN q2 = 1..Len(cd) + 1
    BY <1>11, <1>12, <1>13
  <2>2. \A i \in 1..Len(cd) : Flow(cd[i], p2[i], q2[i], p2[i + 1], q2[i + 1])
    BY <1>11, <1>17
  <2>3. p2[1] = Start /\ q2[1] = Nothing /\ IsSeq(cd) /\ IsSeq(ms)
    BY <1>11, <1>14, <1>16
  <2> QED
    BY <1>18, <2>1, <2>2, <2>3 DEF Noted
<1>20. p2[Len(cd) + 1] = B2 /\ q2[Len(cd) + 1] = D2
  BY <1>11, <1>16
<1>21. Written(cd, ms, Also, Start, B2, D2)
  BY <1>19, <1>20 DEF Written
<1>22. code' = cd /\ owners' = ms
  BY <1>1 DEF cd, ms
<1> QED
  BY <1>21, <1>22

-----------------------------------------------------------------------------
\* Arguments and calls. O: the owners; T: the twins; N: how many arguments.

Left(A, O, T, hole) ==
  /\ Own(A) = O
  /\ DOMAIN Twin(A) = DOMAIN T /\ \A u \in DOMAIN T : Twin(A)[u] = T[u]
  /\ HoleOf(A) = hole /\ Fill(A) = << >> /\ Turns(A) = {}

InO(O, l) ==
  \/ \E x \in DOMAIN O : l = <<x>>
  \/ \E x \in DOMAIN O, k \in Keys : l = <<x, k>> /\ O[x] \in {"tree", "frame"}

Ready(O, T, hole, as, N) ==
  /\ N \in 0..2 /\ DOMAIN as = 1..N
  /\ O = [x \in DOMAIN O |-> O[x]] /\ \A x \in DOMAIN O : O[x] \in Sorts
  /\ \A i \in 1..3 : Temp(i) \notin DOMAIN O \cup DOMAIN T
  /\ \A u \in DOMAIN T : Len(T[u]) = 1 /\ T[u][1] \in DOMAIN O
  /\ \A i \in 1..N : /\ as[i].given \in BOOLEAN /\ InO(O, as[i].of)
                     /\ hole = << >> \/ hole[1] # as[i].of[1]
                     /\ as[i].given => /\ Len(as[i].of) = 1 => O[as[i].of[1]] # "frame"
                                       /\ \A u \in DOMAIN T : T[u][1] = as[i].of[1] => Len(as[i].of) = 2
  /\ \A i, j \in 1..N : i # j /\ as[i].given /\ as[j].given => as[i].of[1] # as[j].of[1]
  /\ hole # << >> => hole[1] \in DOMAIN O

\* The first n arguments have been read, and what the first m give has been reset.
Kept2(as, n, m) == {i \in 1..n : ~as[i].given \/ i <= m}
Lent(as, n, m) == {i \in 1..n : as[i].given /\ i > m}
Loaded(B, O, T, hole, as, n, m) ==
  /\ Own(B) = [x \in DOMAIN Own(B) |-> Own(B)[x]]
  /\ DOMAIN Own(B) = DOMAIN O \cup {Temp(i) : i \in Kept2(as, n, m)}
  /\ \A x \in DOMAIN O : Own(B)[x] = O[x]
  /\ \A i \in Kept2(as, n, m) : Own(B)[Temp(i)] \in {"leaf", "tree"}
  /\ DOMAIN Twin(B) = DOMAIN T \cup {Temp(i) : i \in Lent(as, n, m)}
  /\ \A u \in DOMAIN T : Twin(B)[u] = T[u]
  /\ \A i \in Lent(as, n, m) : Twin(B)[Temp(i)] = as[i].of
  /\ HoleOf(B) = hole /\ Fill(B) = << >> /\ Turns(B) = {}

\* Before the first argument has been read.
LEMMA LoadedNone ==
  ASSUME NEW O, NEW T, NEW hole, NEW as, NEW N, Ready(O, T, hole, as, N), NEW A, Left(A, O, T, hole)
  PROVE  Loaded(A, O, T, hole, as, 0, 0)
<1>1. 1..0 = {}
  OBVIOUS
<1>2. Kept2(as, 0, 0) = {} /\ Lent(as, 0, 0) = {}
  BY <1>1 DEF Kept2, Lent
<1>3. {Temp(i) : i \in {}} = {}
  OBVIOUS
<1>4. O = [x \in DOMAIN O |-> O[x]]
  BY DEF Ready
<1> QED
  BY <1>2, <1>3, <1>4 DEF Loaded, Left

\* What an argument is of is still there.
LEMMA OfThere ==
  ASSUME NEW O, NEW T, NEW hole, NEW as, NEW N, Ready(O, T, hole, as, N), NEW n, NEW m, NEW B,
         Loaded(B, O, T, hole, as, n, m), NEW i \in 1..N
  PROVE  /\ Located(B, as[i].of) /\ OutsideHole(B, as[i].of) /\ as[i].of[1] \in DOMAIN O
         /\ SortAt(B, as[i].of) = (IF Len(as[i].of) = 2 THEN "leaf" ELSE O[as[i].of[1]])
         /\ Len(as[i].of) \in 1..2
<1> DEFINE l == as[i].of
<1>1. InO(O, l) /\ (hole = << >> \/ hole[1] # l[1])
  BY DEF Ready
<1> HIDE DEF l
<1>2. /\ DOMAIN O \subseteq DOMAIN Own(B) /\ \A x \in DOMAIN O : Own(B)[x] = O[x]
      /\ HoleOf(B) = hole
  BY DEF Loaded
<1>3. Located(B, l)
  BY <1>1, <1>2 DEF InO, Located, HasRows
<1>4. l[1] \in DOMAIN O /\ Len(l) \in 1..2
  BY <1>1 DEF InO
<1>5. SortAt(B, l) = IF Len(l) = 2 THEN "leaf" ELSE O[l[1]]
  BY <1>2, <1>4 DEF SortAt
<1>6. OutsideHole(B, l)
  BY <1>1, <1>2 DEF OutsideHole
<1> QED
  BY <1>3, <1>4, <1>5, <1>6 DEF l

\* The next argument's temporary is not in use.
LEMMA TempFree ==
  ASSUME NEW O, NEW T, NEW hole, NEW as, NEW N, Ready(O, T, hole, as, N), NEW i \in 1..N, NEW B,
         Loaded(B, O, T, hole, as, i - 1, 0)
  PROVE  IsFree(B, Temp(i)) /\ i \in 1..3
<1>1. i \in 1..3 /\ N \in 0..2
  BY DEF Ready
<1>2. Temp(i) \notin DOMAIN O \cup DOMAIN T
  BY <1>1 DEF Ready
<1>3. \A j \in 1..i - 1 : j \in 1..3 /\ j # i
  BY <1>1
<1>4. \A j \in 1..i - 1 : Temp(j) # Temp(i)
  BY <1>1, <1>3, NamesApart
<1>5. Temp(i) \notin {Temp(j) : j \in Kept2(as, i - 1, 0)} /\ Temp(i) \notin {Temp(j) : j \in Lent(as, i - 1, 0)}
  BY <1>4 DEF Kept2, Lent
<1>6. Temp(i) \notin DOMAIN Own(B) /\ Temp(i) \notin DOMAIN Twin(B)
  BY <1>2, <1>5 DEF Loaded
<1>7. Temp(i) \in Names
  BY <1>1, NamesApart
<1> QED
  BY <1>1, <1>6, <1>7 DEF IsFree

\* The temporaries that own and those that only read, one argument further.
LEMMA KeptNext ==
  ASSUME NEW as, NEW i \in Nat \ {0}, as[i].given \in BOOLEAN
  PROVE  /\ ~as[i].given => Kept2(as, i, 0) = Kept2(as, i - 1, 0) \cup {i} /\ Lent(as, i, 0) = Lent(as, i - 1, 0)
         /\ as[i].given => Kept2(as, i, 0) = Kept2(as, i - 1, 0) /\ Lent(as, i, 0) = Lent(as, i - 1, 0) \cup {i}
<1>1. \A j : j \in 1..i <=> j \in 1..i - 1 \/ j = i
  OBVIOUS
<1>2. ~(i <= 0) /\ i > 0
  OBVIOUS
<1> QED
  BY <1>1, <1>2 DEF Kept2, Lent

TwinMade(A, x, l, B) ==
  /\ Own(B) = Own(A) /\ DOMAIN Twin(B) = DOMAIN Twin(A) \cup {x}
  /\ Twin(B)[x] = l /\ \A u \in DOMAIN Twin(A) : u # x => Twin(B)[u] = Twin(A)[u]
  /\ HoleOf(B) = HoleOf(A) /\ Fill(B) = Fill(A) /\ Turns(B) = Turns(A)
\* What Twins makes of a point.
LEMMA TwinsIs ==
  ASSUME NEW A, NEW x, NEW l, NEW B, B = Twins(A, x, l)
  PROVE  TwinMade(A, x, l, B)
<1> DEFINE W == With(Twin(A), x, l)
<1>1. B = Point(Own(A), W, HoleOf(A), Fill(A), Turns(A))
  BY DEF Twins
<1>2. DOMAIN W = DOMAIN Twin(A) \cup {x} /\ W[x] = l /\ \A u \in DOMAIN Twin(A) : u # x => W[u] = Twin(A)[u]
  BY DEF With
<1> HIDE DEF W
<1> QED
  BY <1>1, <1>2, PointIs DEF TwinMade

OwnMade(A, x, k, B) ==
  /\ DOMAIN Own(B) = DOMAIN Own(A) \cup {x} /\ Own(B)[x] = k
  /\ \A y \in DOMAIN Own(A) : y # x => Own(B)[y] = Own(A)[y]
  /\ Own(B) = [y \in DOMAIN Own(B) |-> Own(B)[y]] /\ Own(B) = With(Own(A), x, k)
  /\ Twin(B) = Twin(A)
  /\ HoleOf(B) = HoleOf(A) /\ Fill(B) = Fill(A) /\ Turns(B) = Turns(A)
\* What Owns makes of a point.
LEMMA OwnsIs ==
  ASSUME NEW A, NEW x, NEW k, NEW B, B = Owns(A, x, k)
  PROVE  OwnMade(A, x, k, B)
<1> DEFINE W == With(Own(A), x, k)
<1>1. B = Point(W, Twin(A), HoleOf(A), Fill(A), Turns(A))
  BY DEF Owns
<1>2. /\ DOMAIN W = DOMAIN Own(A) \cup {x} /\ W[x] = k /\ (\A u \in DOMAIN Own(A) : u # x => W[u] = Own(A)[u])
      /\ W = [y \in DOMAIN W |-> W[y]]
  BY DEF With
<1> HIDE DEF W
<1>3. /\ Own(B) = W /\ Twin(B) = Twin(A)
      /\ HoleOf(B) = HoleOf(A) /\ Fill(B) = Fill(A) /\ Turns(B) = Turns(A)
  BY <1>1, PointIs
<1>4. W = With(Own(A), x, k)
  BY DEF W
<1> QED
  BY <1>2, <1>3, <1>4 DEF OwnMade

\* An argument that is given away is read into its temporary.
LEMMA GivenRead ==
  ASSUME NEW O, NEW T, NEW hole, NEW as, NEW N, Ready(O, T, hole, as, N), NEW i \in 1..N, NEW B, NEW C,
         Loaded(B, O, T, hole, as, i - 1, 0), as[i].given
  PROVE  \E B2 : Course(ArgBody(i, as[i]), B, C, B2, C) /\ Loaded(B2, O, T, hole, as, i, 0)
<1> DEFINE l == as[i].of
           s == Move(<<Temp(i)>>, l)
           B2 == Twins(B, Temp(i), l)
<1>1. ArgBody(i, as[i]) = <<s>>
  BY DEF ArgBody
<1>2. s.op = "mov" /\ s.args = << >> /\ s.to = <<Temp(i)>> /\ s.from = l
  BY DEF Move, Stm
<1> HIDE DEF s
<1>3. Located(B, l) /\ OutsideHole(B, l)
  BY OfThere
<1>4. IsFree(B, Temp(i)) /\ i \in 1..3 /\ Temp(i) \in Names
  <2>1. IsFree(B, Temp(i)) /\ i \in 1..3
    BY TempFree
  <2> QED
    BY <2>1 DEF IsFree
<1> HIDE DEF l
<1>5. MakesTwin(s, B, B2)
  BY <1>2, <1>3, <1>4 DEF MakesTwin
<1>6. Course(<<s>>, B, C, B2, C)
  <2>1. Effect(s, B, B2)
    BY <1>5 DEF Effect
  <2> HIDE DEF B2
  <2>2. Flow(s, B, C, B2, C)
    BY <2>1, CourseEffect
  <2> QED
    BY <2>2, CourseOne
<1>7. Temp(i) \notin DOMAIN O \cup DOMAIN T /\ i \in Nat \ {0} /\ as[i].given \in BOOLEAN
  BY <1>4 DEF Ready
<1>8. Kept2(as, i, 0) = Kept2(as, i - 1, 0) /\ Lent(as, i, 0) = Lent(as, i - 1, 0) \cup {i}
  BY <1>7, KeptNext
<1>9. /\ Own(B2) = Own(B) /\ DOMAIN Twin(B2) = DOMAIN Twin(B) \cup {Temp(i)}
      /\ Twin(B2)[Temp(i)] = l /\ \A u \in DOMAIN Twin(B) : u # Temp(i) => Twin(B2)[u] = Twin(B)[u]
      /\ HoleOf(B2) = HoleOf(B) /\ Fill(B2) = Fill(B) /\ Turns(B2) = Turns(B)
  <2>1. TwinMade(B, Temp(i), l, B2)
    BY TwinsIs
  <2> HIDE DEF B2
  <2> QED
    BY <2>1 DEF TwinMade
<1> HIDE DEF B2
<1>10. /\ Own(B) = [x \in DOMAIN Own(B) |-> Own(B)[x]]
       /\ DOMAIN Own(B) = DOMAIN O \cup {Temp(j) : j \in Kept2(as, i - 1, 0)}
       /\ \A x \in DOMAIN O : Own(B)[x] = O[x]
       /\ \A j \in Kept2(as, i - 1, 0) : Own(B)[Temp(j)] \in {"leaf", "tree"}
       /\ DOMAIN Twin(B) = DOMAIN T \cup {Temp(j) : j \in Lent(as, i - 1, 0)}
       /\ \A u \in DOMAIN T : Twin(B)[u] = T[u]
       /\ \A j \in Lent(as, i - 1, 0) : Twin(B)[Temp(j)] = as[j].of
       /\ HoleOf(B) = hole /\ Fill(B) = << >> /\ Turns(B) = {}
  BY DEF Loaded
<1>11. \A j \in Lent(as, i - 1, 0) : Temp(j) # Temp(i)
  <2>1. \A j \in Lent(as, i - 1, 0) : j \in 1..3 /\ j # i
    BY <1>4 DEF Lent
  <2> QED
    BY <1>4, <2>1, NamesApart
<1>12. DOMAIN Twin(B2) = DOMAIN T \cup {Temp(j) : j \in Lent(as, i, 0)}
  BY <1>8, <1>9, <1>10, ZenonT(30)
<1>13. \A u \in DOMAIN T : Twin(B2)[u] = T[u]
  BY <1>7, <1>9, <1>10
<1>14. \A j \in Lent(as, i, 0) : Twin(B2)[Temp(j)] = as[j].of
  BY <1>8, <1>9, <1>10, <1>11 DEF l
<1>15. Loaded(B2, O, T, hole, as, i, 0)
  BY <1>8, <1>9, <1>10, <1>12, <1>13, <1>14 DEF Loaded
<1> QED
  BY <1>1, <1>6, <1>15

\* An argument that is kept by the caller is copied into its temporary.
LEMMA CopyMade ==
  ASSUME NEW O, NEW T, NEW hole, NEW as, NEW N, Ready(O, T, hole, as, N), NEW i \in 1..N, NEW B, NEW C,
         Loaded(B, O, T, hole, as, i - 1, 0), ~as[i].given
  PROVE  \E B2 : Course(ArgBody(i, as[i]), B, C, B2, C) /\ Loaded(B2, O, T, hole, as, i, 0)
<1> DEFINE l == as[i].of
           k == KindAt(l)
           t == Temp(i)
           s1 == Build("new", <<t>>, k)
           s2 == Stm("copy", <<t>>, l)
           A1 == Owns(B, t, k)
           B2 == Point(Own(A1), Twin(A1), HoleOf(A1), Fill(A1), {})
<1>1. ArgBody(i, as[i]) = <<s1, s2>>
  BY DEF ArgBody
<1>2. /\ s1.op = "new" /\ s1.args = << >> /\ s1.to = <<t>> /\ s1.from = << >> /\ s1.kind = k
      /\ s2.op = "copy" /\ s2.args = << >> /\ s2.to = <<t>> /\ s2.from = l
  BY DEF Build, Stm
<1>3. k \in {"leaf", "tree"}
  BY KindsOf DEF KindAt
<1> HIDE DEF s1, s2, k
<1>4. Located(B, l) /\ OutsideHole(B, l)
  BY OfThere
<1>5. IsFree(B, t) /\ i \in 1..3 /\ t \in Names
  <2>1. IsFree(B, Temp(i)) /\ i \in 1..3
    BY TempFree
  <2> QED
    BY <2>1 DEF IsFree
<1> HIDE DEF l
<1>6. t \notin DOMAIN O \cup DOMAIN T /\ i \in Nat \ {0} /\ as[i].given \in BOOLEAN
  <2>1. \A j \in 1..3 : Temp(j) \notin DOMAIN O \cup DOMAIN T
    BY DEF Ready
  <2>2. as[i].given \in BOOLEAN
    BY DEF Ready
  <2>3. i \in 1..3
    BY <1>5
  <2>4. i \in Nat \ {0}
    BY <2>3
  <2>5. t \notin DOMAIN O \cup DOMAIN T
    BY <2>1, <2>3
  <2> QED
    BY <2>2, <2>4, <2>5
<1> HIDE DEF t
<1>7. Creates(s1, B, A1)
  BY <1>2, <1>3, <1>5 DEF Creates
<1>8. /\ DOMAIN Own(A1) = DOMAIN Own(B) \cup {t} /\ Own(A1)[t] = k
      /\ \A y \in DOMAIN Own(B) : y # t => Own(A1)[y] = Own(B)[y]
      /\ Own(A1) = [y \in DOMAIN Own(A1) |-> Own(A1)[y]]
      /\ Twin(A1) = Twin(B)
      /\ HoleOf(A1) = HoleOf(B) /\ Fill(A1) = Fill(B) /\ Turns(A1) = Turns(B)
  <2>1. OwnMade(B, t, k, A1)
    BY OwnsIs
  <2> HIDE DEF A1
  <2> QED
    BY <2>1 DEF OwnMade
<1> HIDE DEF A1
<1>9. t \notin DOMAIN Own(B) /\ t \notin DOMAIN Twin(B)
  BY <1>5 DEF IsFree
<1>10. Located(A1, l) /\ OutsideHole(A1, l)
  <2>1. \A x \in DOMAIN Own(B) : x \in DOMAIN Own(A1) /\ Own(A1)[x] = Own(B)[x]
    BY <1>8, <1>9
  <2>2. Located(A1, l)
    BY <1>4, <2>1 DEF Located, HasRows
  <2> QED
    BY <1>4, <1>8, <2>2 DEF OutsideHole
<1>11. OutsideHole(A1, <<t>>)
  <2>1. HoleOf(A1) = hole
    BY <1>8 DEF Loaded
  <2>2. hole # << >> => hole[1] \in DOMAIN O
    BY DEF Ready
  <2>3. <<t>>[1] = t
    OBVIOUS
  <2> QED
    BY <1>6, <2>1, <2>2, <2>3 DEF OutsideHole
<1>12. Copies(s2, A1, B2)
  <2>1. t \in DOMAIN Own(A1)
    BY <1>8
  <2> QED
    BY <1>2, <1>10, <1>11, <2>1 DEF Copies
<1>13. /\ Own(B2) = Own(A1) /\ Twin(B2) = Twin(A1) /\ HoleOf(B2) = HoleOf(A1) /\ Fill(B2) = Fill(A1) /\ Turns(B2) = {}
  BY PointIs
<1> HIDE DEF B2
<1>14. Course(<<s1, s2>>, B, C, B2, C)
  <2>1. Effect(s1, B, A1) /\ Effect(s2, A1, B2)
    BY <1>7, <1>12 DEF Effect
  <2>2. Flow(s1, B, C, A1, C) /\ Flow(s2, A1, C, B2, C)
    BY <2>1, CourseEffect
  <2> QED
    BY <2>2, CourseTwo
<1>15. Kept2(as, i, 0) = Kept2(as, i - 1, 0) \cup {i} /\ Lent(as, i, 0) = Lent(as, i - 1, 0)
  BY <1>6, KeptNext
<1>16. /\ DOMAIN Own(B) = DOMAIN O \cup {Temp(j) : j \in Kept2(as, i - 1, 0)}
       /\ \A x \in DOMAIN O : Own(B)[x] = O[x]
       /\ \A j \in Kept2(as, i - 1, 0) : Own(B)[Temp(j)] \in {"leaf", "tree"}
       /\ DOMAIN Twin(B) = DOMAIN T \cup {Temp(j) : j \in Lent(as, i - 1, 0)}
       /\ \A u \in DOMAIN T : Twin(B)[u] = T[u]
       /\ \A j \in Lent(as, i - 1, 0) : Twin(B)[Temp(j)] = as[j].of
       /\ HoleOf(B) = hole /\ Fill(B) = << >> /\ Turns(B) = {}
  BY DEF Loaded
<1>17. \A j \in Kept2(as, i - 1, 0) : Temp(j) \in DOMAIN Own(B)
  BY <1>16
<1>18. DOMAIN Own(B2) = DOMAIN O \cup {Temp(j) : j \in Kept2(as, i, 0)}
  <2>1. {Temp(j) : j \in Kept2(as, i, 0)} = {Temp(j) : j \in Kept2(as, i - 1, 0)} \cup {t}
    BY <1>15 DEF t
  <2> QED
    BY <1>8, <1>13, <1>16, <2>1
<1>19. \A x \in DOMAIN O : Own(B2)[x] = O[x]
  BY <1>6, <1>8, <1>13, <1>16
<1>20. \A j \in Kept2(as, i, 0) : Own(B2)[Temp(j)] \in {"leaf", "tree"}
  <2> SUFFICES ASSUME NEW j \in Kept2(as, i, 0) PROVE Own(B2)[Temp(j)] \in {"leaf", "tree"}
    OBVIOUS
  <2>1. CASE j = i
    BY <1>3, <1>8, <1>13, <2>1 DEF t
  <2>2. CASE j # i
    <3>1. j \in Kept2(as, i - 1, 0)
      BY <1>15, <2>2
    <3>2. Temp(j) \in DOMAIN Own(B) /\ Temp(j) # t
      BY <1>9, <1>17, <3>1
    <3>3. Own(B2)[Temp(j)] = Own(B)[Temp(j)]
      BY <1>8, <1>13, <3>2
    <3> QED
      BY <1>16, <3>1, <3>3
  <2> QED
    BY <2>1, <2>2
<1>21. Own(B2) = [y \in DOMAIN Own(B2) |-> Own(B2)[y]]
  BY <1>8, <1>13
<1>22. Loaded(B2, O, T, hole, as, i, 0)
  BY <1>8, <1>13, <1>15, <1>16, <1>18, <1>19, <1>20, <1>21 DEF Loaded
<1> QED
  BY <1>1, <1>14, <1>22

\* Either way one more argument has been read.
LEMMA ArgStep ==
  ASSUME NEW O, NEW T, NEW hole, NEW as, NEW N, Ready(O, T, hole, as, N), NEW i \in 1..N, NEW B, NEW C,
         Loaded(B, O, T, hole, as, i - 1, 0)
  PROVE  \E B2 : Course(ArgBody(i, as[i]), B, C, B2, C) /\ Loaded(B2, O, T, hole, as, i, 0)
<1>1. CASE as[i].given
  BY <1>1, GivenRead
<1>2. CASE ~as[i].given
  BY <1>2, CopyMade
<1> QED
  BY <1>1, <1>2

\* The temporaries that own, when one more owner has been reset.
LEMMA KeptReset ==
  ASSUME NEW as, NEW N \in Nat, NEW i \in 1..N, as[i].given \in BOOLEAN
  PROVE  /\ ~as[i].given => Kept2(as, N, i) = Kept2(as, N, i - 1) /\ Lent(as, N, i) = Lent(as, N, i - 1)
         /\ as[i].given => Kept2(as, N, i) = Kept2(as, N, i - 1) \cup {i} /\ Lent(as, N, i) = Lent(as, N, i - 1) \ {i}
                           /\ i \in Lent(as, N, i - 1)
<1>1. \A j \in 1..N : (j <= i <=> j <= i - 1 \/ j = i) /\ (j > i <=> j > i - 1 /\ j # i)
  OBVIOUS
<1>2. i > i - 1
  OBVIOUS
<1> QED
  BY <1>1, <1>2 DEF Kept2, Lent

\* A twin takes over what it points to.
Overtaken(A, t, k, B) ==
  /\ DOMAIN Own(B) = DOMAIN Own(A) \cup {t} /\ Own(B)[t] = k
  /\ \A y \in DOMAIN Own(A) : y # t => Own(B)[y] = Own(A)[y]
  /\ Own(B) = [y \in DOMAIN Own(B) |-> Own(B)[y]]
  /\ DOMAIN Twin(B) = DOMAIN Twin(A) \ {t} /\ \A u \in DOMAIN Twin(B) : Twin(B)[u] = Twin(A)[u]
  /\ HoleOf(B) = HoleOf(A) /\ Fill(B) = Fill(A) /\ Turns(B) = Turns(A)
\* What that makes of a point.
LEMMA OvertakenIs ==
  ASSUME NEW A, NEW t, NEW k, NEW B,
         B = Owns(Point(Own(A), Less(Twin(A), {t}), HoleOf(A), Fill(A), Turns(A)), t, k)
  PROVE  Overtaken(A, t, k, B)
<1> DEFINE L == Less(Twin(A), {t})
           P == Point(Own(A), L, HoleOf(A), Fill(A), Turns(A))
<1>1. OwnMade(P, t, k, B)
  BY OwnsIs
<1>2. DOMAIN L = DOMAIN Twin(A) \ {t} /\ \A u \in DOMAIN L : L[u] = Twin(A)[u]
  BY DEF Less
<1> HIDE DEF L
<1>3. Own(P) = Own(A) /\ Twin(P) = L /\ HoleOf(P) = HoleOf(A) /\ Fill(P) = Fill(A) /\ Turns(P) = Turns(A)
  BY PointIs
<1> HIDE DEF P
<1> QED
  BY <1>1, <1>2, <1>3 DEF OwnMade, Overtaken

\* The next owner is reset if its argument is given away.
LEMMA ResetStep ==
  ASSUME NEW O, NEW T, NEW hole, NEW as, NEW N, Ready(O, T, hole, as, N), NEW i \in 1..N, NEW B, NEW C,
         Loaded(B, O, T, hole, as, N, i - 1)
  PROVE  \E B2 : /\ Course(IF as[i].given THEN <<Null(as[i].of)>> ELSE << >>, B, C, B2, C)
                 /\ Loaded(B2, O, T, hole, as, N, i)
<1>1. N \in Nat /\ N \in 0..2 /\ as[i].given \in BOOLEAN /\ i \in 1..3 /\ \A j \in 1..N : j \in 1..3
  <2>1. N \in 0..2 /\ as[i].given \in BOOLEAN
    BY DEF Ready
  <2>2. i \in 1..N
    OBVIOUS
  <2>3. N \in Nat /\ \A j \in 1..N : j \in 1..3
    BY <2>1
  <2> QED
    BY <2>1, <2>2, <2>3
<1>2. CASE ~as[i].given
  <2>1. Kept2(as, N, i) = Kept2(as, N, i - 1) /\ Lent(as, N, i) = Lent(as, N, i - 1)
    BY <1>1, <1>2, KeptReset
  <2>2. Loaded(B, O, T, hole, as, N, i)
    BY <2>1 DEF Loaded
  <2>3. Course(<< >>, B, C, B, C)
    BY CourseNone
  <2> QED
    BY <1>2, <2>2, <2>3
<1>3. CASE as[i].given
  <2> DEFINE l == as[i].of
             t == Temp(i)
             k == SortAt(B, l)
             s == Null(l)
             B2 == Owns(Point(Own(B), Less(Twin(B), {t}), HoleOf(B), Fill(B), Turns(B)), t, k)
  <2>1. s.op = "null" /\ s.from = << >> /\ s.args = << >> /\ s.to = l
    BY DEF Null, Stm
  <2> HIDE DEF s
  <2>2. /\ Located(B, l) /\ OutsideHole(B, l) /\ l[1] \in DOMAIN O
        /\ k = (IF Len(l) = 2 THEN "leaf" ELSE O[l[1]]) /\ Len(l) \in 1..2
    BY OfThere
  <2>3. /\ Kept2(as, N, i) = Kept2(as, N, i - 1) \cup {i} /\ Lent(as, N, i) = Lent(as, N, i - 1) \ {i}
        /\ i \in Lent(as, N, i - 1)
    BY <1>1, <1>3, KeptReset
  <2>4. /\ DOMAIN Own(B) = DOMAIN O \cup {Temp(j) : j \in Kept2(as, N, i - 1)}
        /\ \A x \in DOMAIN O : Own(B)[x] = O[x]
        /\ \A j \in Kept2(as, N, i - 1) : Own(B)[Temp(j)] \in {"leaf", "tree"}
        /\ DOMAIN Twin(B) = DOMAIN T \cup {Temp(j) : j \in Lent(as, N, i - 1)}
        /\ \A u \in DOMAIN T : Twin(B)[u] = T[u]
        /\ \A j \in Lent(as, N, i - 1) : Twin(B)[Temp(j)] = as[j].of
        /\ HoleOf(B) = hole /\ Fill(B) = << >> /\ Turns(B) = {}
    BY DEF Loaded
  <2>5. t \in DOMAIN Twin(B) /\ Twin(B)[t] = l
    BY <2>3, <2>4
  <2>6. k \in {"leaf", "tree"}
    <3>1. Len(l) = 1 => O[l[1]] # "frame"
      BY <1>3 DEF Ready
    <3>2. O[l[1]] \in Sorts
      BY <2>2 DEF Ready
    <3> HIDE DEF k, l
    <3>3. CASE Len(l) = 1
      <4>1. k = O[l[1]]
        BY <2>2, <3>3
      <4> QED
        BY <3>1, <3>2, <3>3, <4>1 DEF Sorts
    <3>4. CASE Len(l) = 2
      BY <2>2, <3>4
    <3>5. Len(l) = 1 \/ Len(l) = 2
      BY <2>2
    <3> QED
      BY <3>3, <3>4, <3>5
  <2>7. Undisturbed(B, l, t)
    <3>1. ASSUME NEW u \in DOMAIN Twin(B), u # t
          PROVE  Twin(B)[u][1] # l[1] \/ (Len(Twin(B)[u]) = 1 /\ Len(l) = 2)
      <4>1. CASE u \in DOMAIN T
        <5>1. Twin(B)[u] = T[u] /\ Len(T[u]) = 1
          BY <2>4, <4>1 DEF Ready
        <5>2. T[u][1] = l[1] => Len(l) = 2
          BY <1>3, <4>1 DEF Ready
        <5> QED
          BY <5>1, <5>2
      <4>2. CASE u \notin DOMAIN T
        <5>1. PICK j \in Lent(as, N, i - 1) : u = Temp(j)
          BY <2>4, <4>2
        <5>2. j # i /\ j \in 1..N /\ as[j].given
          BY <3>1, <5>1 DEF Lent
        <5>3. as[j].of[1] # l[1]
          BY <1>3, <5>2 DEF Ready
        <5> QED
          BY <2>4, <5>1, <5>3
      <4> QED
        BY <4>1, <4>2
    <3> QED
      BY <3>1 DEF Undisturbed
  <2> HIDE DEF l, t
  <2>8. EmptiesTwin(s, B, B2)
    <3>1. SortAt(B, l) # "frame"
      BY <2>6
    <3> QED
      BY <2>1, <2>2, <2>4, <2>5, <2>7, <3>1 DEF EmptiesTwin
  <2>9. Overtaken(B, t, k, B2)
    BY OvertakenIs
  <2> HIDE DEF B2, k
  <2>10. Course(<<s>>, B, C, B2, C)
    <3>1. Effect(s, B, B2)
      BY <2>8 DEF Effect
    <3>2. Flow(s, B, C, B2, C)
      BY <3>1, CourseEffect
    <3> QED
      BY <3>2, CourseOne
  <2>11. /\ DOMAIN Own(B2) = DOMAIN Own(B) \cup {t} /\ Own(B2)[t] = k
         /\ \A y \in DOMAIN Own(B) : y # t => Own(B2)[y] = Own(B)[y]
         /\ Own(B2) = [y \in DOMAIN Own(B2) |-> Own(B2)[y]]
         /\ DOMAIN Twin(B2) = DOMAIN Twin(B) \ {t} /\ \A u \in DOMAIN Twin(B2) : Twin(B2)[u] = Twin(B)[u]
         /\ HoleOf(B2) = HoleOf(B) /\ Fill(B2) = Fill(B) /\ Turns(B2) = Turns(B)
    BY <2>9 DEF Overtaken
  <2>12. t \notin DOMAIN O /\ t \notin DOMAIN T
    BY <1>1 DEF Ready, t
  <2>13. \A j \in 1..N : j # i => Temp(j) # t
    BY <1>1, NamesApart DEF t
  <2>14. {Temp(j) : j \in Kept2(as, N, i)} = {Temp(j) : j \in Kept2(as, N, i - 1)} \cup {t}
    BY <2>3 DEF t
  <2>15. {Temp(j) : j \in Lent(as, N, i)} = {Temp(j) : j \in Lent(as, N, i - 1)} \ {t}
    <3>1. \A j \in Lent(as, N, i) : j \in Lent(as, N, i - 1) /\ Temp(j) # t
      <4>1. \A j \in Lent(as, N, i) : j \in Lent(as, N, i - 1) /\ j # i
        BY <2>3
      <4>2. \A j \in Lent(as, N, i) : j \in 1..N
        BY DEF Lent
      <4> QED
        BY <2>13, <4>1, <4>2
    <3>2. \A j \in Lent(as, N, i - 1) : Temp(j) # t => j \in Lent(as, N, i)
      BY <2>3 DEF t
    <3> QED
      BY <3>1, <3>2
  <2>16. DOMAIN Own(B2) = DOMAIN O \cup {Temp(j) : j \in Kept2(as, N, i)}
    BY <2>4, <2>11, <2>14
  <2>17. \A x \in DOMAIN O : Own(B2)[x] = O[x]
    BY <2>4, <2>11, <2>12
  <2>18. \A j \in Kept2(as, N, i) : Own(B2)[Temp(j)] \in {"leaf", "tree"}
    <3> SUFFICES ASSUME NEW j \in Kept2(as, N, i) PROVE Own(B2)[Temp(j)] \in {"leaf", "tree"}
      OBVIOUS
    <3>1. CASE j = i
      BY <2>6, <2>11, <3>1 DEF t
    <3>2. CASE j # i
      <4>1. j \in Kept2(as, N, i - 1) /\ j \in 1..N
        BY <2>3, <3>2 DEF Kept2
      <4>2. Temp(j) \in DOMAIN Own(B) /\ Temp(j) # t
        BY <2>4, <2>13, <3>2, <4>1
      <4> QED
        BY <2>4, <2>11, <4>1, <4>2
    <3> QED
      BY <3>1, <3>2
  <2>19. DOMAIN Twin(B2) = DOMAIN T \cup {Temp(j) : j \in Lent(as, N, i)}
    BY <2>4, <2>11, <2>12, <2>15
  <2>20. \A u \in DOMAIN T : Twin(B2)[u] = T[u]
    BY <2>4, <2>11, <2>19
  <2>21. \A j \in Lent(as, N, i) : Twin(B2)[Temp(j)] = as[j].of
    <3> SUFFICES ASSUME NEW j \in Lent(as, N, i) PROVE Twin(B2)[Temp(j)] = as[j].of
      OBVIOUS
    <3>1. Temp(j) \in DOMAIN Twin(B2)
      BY <2>19
    <3>2. j \in Lent(as, N, i - 1)
      BY <2>3
    <3> QED
      BY <2>4, <2>11, <3>1, <3>2
  <2>22. Loaded(B2, O, T, hole, as, N, i)
    BY <2>4, <2>11, <2>16, <2>17, <2>18, <2>19, <2>20, <2>21 DEF Loaded
  <2>23. (IF as[i].given THEN <<Null(as[i].of)>> ELSE << >>) = <<s>>
    BY <1>3 DEF s, l
  <2> QED
    BY <2>10, <2>22, <2>23
<1> QED
  BY <1>1, <1>2, <1>3

\* Up to two sequences put one behind the other.
LEMMA PartsFlat ==
  ASSUME NEW ss, NEW N \in 0..2, ss = [i \in 1..N |-> ss[i]], \A i \in 1..N : IsSeq(ss[i])
  PROVE  /\ N = 0 => FlattenSeq(ss) = << >>
         /\ N = 1 => FlattenSeq(ss) = ss[1]
         /\ N = 2 => FlattenSeq(ss) = ss[1] \o ss[2]
<1> DEFINE S == UNION {{ss[i][j] : j \in 1..Len(ss[i])} : i \in 1..N}
<1>1. \A i \in 1..N : ss[i] \in Seq(S)
  <2> SUFFICES ASSUME NEW i \in 1..N PROVE ss[i] \in Seq(S)
    OBVIOUS
  <2> DEFINE t == ss[i]
  <2>1. Len(t) \in Nat /\ t = [j \in 1..Len(t) |-> t[j]]
    BY DEF IsSeq
  <2>2. \A j \in 1..Len(t) : t[j] \in S
    OBVIOUS
  <2> HIDE DEF S, t
  <2>3. t \in [1..Len(t) -> S]
    BY <2>1, <2>2
  <2>4. t \in Seq(S)
    BY <2>1, <2>3
  <2> QED
    BY <2>4 DEF t
<1> HIDE DEF S
<1>2. ss \in [1..N -> Seq(S)]
  BY <1>1
<1>3. ss \in Seq(Seq(S)) /\ Len(ss) = N
  BY <1>2
<1>4. ASSUME N = 0 PROVE FlattenSeq(ss) = << >>
  <2>1. ss = << >>
    BY <1>3, <1>4
  <2> QED
    BY <2>1, FlattenedNone
<1>5. ASSUME N = 1 PROVE FlattenSeq(ss) = ss[1]
  BY <1>3, <1>5, FlattenedOne
<1>6. ASSUME N = 2 PROVE FlattenSeq(ss) = ss[1] \o ss[2]
  BY <1>3, <1>6, FlattenedTwo
<1> QED
  BY <1>4, <1>5, <1>6

\* An argument is a sequence of statements.
LEMMA ArgBodySeq == ASSUME NEW i, NEW a PROVE IsSeq(ArgBody(i, a))
<1>1. ASSUME NEW s PROVE IsSeq(<<s>>)
  BY DEF IsSeq
<1>2. ASSUME NEW s, NEW t PROVE IsSeq(<<s, t>>)
  BY DEF IsSeq
<1>3. CASE a.given
  BY <1>1, <1>3 DEF ArgBody
<1>4. CASE ~a.given
  BY <1>2, <1>4 DEF ArgBody
<1> QED
  BY <1>3, <1>4

\* All arguments are read, then what is given away is reset.
LEMMA ArgsCourse ==
  ASSUME NEW O, NEW T, NEW hole, NEW as, NEW N, Ready(O, T, hole, as, N), NEW A, NEW C, Left(A, O, T, hole)
  PROVE  \E B : /\ Course(FlattenSeq([i \in DOMAIN as |-> ArgBody(i, as[i])]), A, C, B, C)
                /\ Loaded(B, O, T, hole, as, N, 0)
<1> DEFINE ss == [i \in DOMAIN as |-> ArgBody(i, as[i])]
           G == FlattenSeq(ss)
<1>1. N \in 0..2 /\ DOMAIN as = 1..N
  BY DEF Ready
<1>2. ss = [i \in 1..N |-> ss[i]] /\ \A i \in 1..N : ss[i] = ArgBody(i, as[i])
  BY <1>1
<1>g. G = FlattenSeq([i \in DOMAIN as |-> ArgBody(i, as[i])])
  OBVIOUS
<1> HIDE DEF ss, G
<1>3. \A i \in 1..N : IsSeq(ss[i])
  BY <1>2, ArgBodySeq
<1>4. /\ N = 0 => G = << >>
      /\ N = 1 => G = ss[1]
      /\ N = 2 => G = ss[1] \o ss[2]
  BY <1>1, <1>2, <1>3, PartsFlat DEF G
<1>5. Loaded(A, O, T, hole, as, 0, 0)
  BY LoadedNone
<1>6. ASSUME N = 0 PROVE \E B : Course(G, A, C, B, C) /\ Loaded(B, O, T, hole, as, N, 0)
  <2>1. Course(<< >>, A, C, A, C)
    BY CourseNone
  <2> QED
    BY <1>4, <1>5, <1>6, <2>1
<1>7. ASSUME N # 0
      PROVE  \E B : Course(ss[1], A, C, B, C) /\ Loaded(B, O, T, hole, as, 1, 0)
  <2>1. 1 \in 1..N /\ 1 - 1 = 0
    BY <1>1, <1>7
  <2>2. \E B : Course(ArgBody(1, as[1]), A, C, B, C) /\ Loaded(B, O, T, hole, as, 1, 0)
    BY <1>5, <2>1, ArgStep
  <2> QED
    BY <1>2, <2>1, <2>2
<1>8. ASSUME N = 1 PROVE \E B : Course(G, A, C, B, C) /\ Loaded(B, O, T, hole, as, N, 0)
  <2>1. N # 0 /\ G = ss[1]
    BY <1>4, <1>8
  <2>2. \E B : Course(ss[1], A, C, B, C) /\ Loaded(B, O, T, hole, as, 1, 0)
    BY <1>7, <2>1, Zenon
  <2> QED
    BY <1>8, <2>1, <2>2
<1>9. ASSUME N = 2 PROVE \E B : Course(G, A, C, B, C) /\ Loaded(B, O, T, hole, as, N, 0)
  <2>1. PICK B : Course(ss[1], A, C, B, C) /\ Loaded(B, O, T, hole, as, 1, 0)
    <3>1. N # 0
      BY <1>9
    <3> QED
      BY <1>7, <3>1, Zenon
  <2>2. 2 \in 1..N /\ 2 - 1 = 1
    BY <1>9
  <2>3. PICK B2 : Course(ArgBody(2, as[2]), B, C, B2, C) /\ Loaded(B2, O, T, hole, as, 2, 0)
    BY <2>1, <2>2, ArgStep
  <2>4. Course(ss[2], B, C, B2, C)
    BY <1>2, <2>2, <2>3
  <2>5. Course(ss[1] \o ss[2], A, C, B2, C)
    BY <2>1, <2>4, CourseThen
  <2> QED
    BY <1>4, <1>9, <2>3, <2>5
<1>10. \E B : Course(G, A, C, B, C) /\ Loaded(B, O, T, hole, as, N, 0)
  <2>1. N = 0 \/ N = 1 \/ N = 2
    BY <1>1
  <2> QED
    BY <1>6, <1>8, <1>9, <2>1, Zenon
<1> QED
  BY <1>g, <1>10

\* All owners of what is given away are reset.
LEMMA ResetsCourse ==
  ASSUME NEW O, NEW T, NEW hole, NEW as, NEW N, Ready(O, T, hole, as, N), NEW A, NEW C,
         Loaded(A, O, T, hole, as, N, 0)
  PROVE  \E B : Course(Resets(as), A, C, B, C) /\ Loaded(B, O, T, hole, as, N, N)
<1> DEFINE ss == [i \in DOMAIN as |-> IF as[i].given THEN <<Null(as[i].of)>> ELSE << >>]
<1>1. N \in 0..2 /\ DOMAIN as = 1..N
  BY DEF Ready
<1>2. ss = [i \in 1..N |-> ss[i]] /\ \A i \in 1..N : ss[i] = IF as[i].given THEN <<Null(as[i].of)>> ELSE << >>
  BY <1>1
<1>r. Resets(as) = FlattenSeq(ss)
  BY DEF Resets
<1> HIDE DEF ss
<1>3. \A i \in 1..N : IsSeq(ss[i])
  <2>1. ASSUME NEW s PROVE IsSeq(<<s>>)
    BY DEF IsSeq
  <2>2. IsSeq(<< >>)
    BY DEF IsSeq
  <2> QED
    BY <1>2, <2>1, <2>2
<1>4. /\ N = 0 => FlattenSeq(ss) = << >>
      /\ N = 1 => FlattenSeq(ss) = ss[1]
      /\ N = 2 => FlattenSeq(ss) = ss[1] \o ss[2]
  BY <1>1, <1>2, <1>3, PartsFlat
<1>6. CASE N = 0
  <2>1. Course(<< >>, A, C, A, C)
    BY CourseNone
  <2> QED
    BY <1>4, <1>6, <1>r, <2>1
<1>7. ASSUME N # 0
      PROVE  \E B : Course(ss[1], A, C, B, C) /\ Loaded(B, O, T, hole, as, N, 1)
  <2>1. 1 \in 1..N /\ 1 - 1 = 0
    BY <1>1, <1>7
  <2>2. \E B : /\ Course(IF as[1].given THEN <<Null(as[1].of)>> ELSE << >>, A, C, B, C)
               /\ Loaded(B, O, T, hole, as, N, 1)
    BY <2>1, ResetStep
  <2> QED
    BY <1>2, <2>1, <2>2
<1>8. CASE N = 1
  <2>1. N # 0 /\ FlattenSeq(ss) = ss[1]
    BY <1>4, <1>8
  <2>2. \E B : Course(ss[1], A, C, B, C) /\ Loaded(B, O, T, hole, as, N, 1)
    BY <1>7, <2>1, Zenon
  <2> QED
    BY <1>8, <1>r, <2>1, <2>2
<1>9. CASE N = 2
  <2>1. PICK B : Course(ss[1], A, C, B, C) /\ Loaded(B, O, T, hole, as, N, 1)
    <3>1. N # 0
      BY <1>9
    <3> QED
      BY <1>7, <3>1, Zenon
  <2>2. 2 \in 1..N /\ 2 - 1 = 1
    BY <1>9
  <2>3. PICK B2 : /\ Course(IF as[2].given THEN <<Null(as[2].of)>> ELSE << >>, B, C, B2, C)
                  /\ Loaded(B2, O, T, hole, as, N, 2)
    BY <2>1, <2>2, ResetStep
  <2>4. Course(ss[2], B, C, B2, C)
    BY <1>2, <2>2, <2>3
  <2>5. Course(ss[1] \o ss[2], A, C, B2, C)
    BY <2>1, <2>4, CourseThen
  <2> QED
    BY <1>4, <1>9, <1>r, <2>3, <2>5
<1>10. N = 0 \/ N = 1 \/ N = 2
  BY <1>1
<1> QED
  BY <1>6, <1>8, <1>9, <1>10, Zenon

\* The call itself.
CallStm(as, to, k) == [Build("call", to, k) EXCEPT !.args = [i \in DOMAIN as |-> <<Temp(i)>>]]
CallSays(e, as, to, k) ==
  e.op = "call" /\ e.to = to /\ e.from = << >> /\ e.kind = k /\ e.args = [i \in DOMAIN as |-> <<Temp(i)>>]
\* What the statement of a call says.
LEMMA CallStmIs ==
  ASSUME NEW as, NEW to, NEW k
  PROVE  CallSays(CallStm(as, to, k), as, to, k)
BY DEF CallSays, CallStm, Build, Stm

\* Without is A without these owners.
LEMMA WithoutGone == ASSUME NEW A, NEW S, NEW B, B = Without(A, S) PROVE Gone(A, B, S)
<1> DEFINE W == Without(A, S)
<1>1. /\ Own(W) = Less(Own(A), S)
      /\ DOMAIN Twin(W) = {u \in DOMAIN Twin(A) : Twin(A)[u][1] \notin S}
      /\ \A u \in DOMAIN Twin(W) : Twin(W)[u] = Twin(A)[u]
      /\ HoleOf(W) = HoleOf(A) /\ Fill(W) = Fill(A) /\ Turns(W) = Turns(A)
  BY WithoutLeaves
<1>2. B = W
  OBVIOUS
<1> HIDE DEF W
<1> QED
  BY <1>1, <1>2 DEF Gone

\* In the end every temporary owns what it holds.
LEMMA AllLoaded ==
  ASSUME NEW as, NEW N \in Nat, \A i \in 1..N : as[i].given \in BOOLEAN
  PROVE  Kept2(as, N, N) = 1..N /\ Lent(as, N, N) = {}
<1>1. \A i \in 1..N : i <= N /\ ~(i > N)
  OBVIOUS
<1> QED
  BY <1>1 DEF Kept2, Lent

\* The call is passed all of them, and what is left is what there was before the first.
LEMMA PassesAll ==
  ASSUME NEW O, NEW T, NEW hole, NEW as, NEW N, Ready(O, T, hole, as, N), NEW B,
         Loaded(B, O, T, hole, as, N, N), NEW to, NEW k, NEW W, NEW e, e = CallStm(as, to, k),
         W = Without(B, Passed(e))
  PROVE  Passes(e, B) /\ Left(W, O, T, hole) /\ OfOwners(B)
<1>1. /\ N \in 0..2 /\ DOMAIN as = 1..N /\ (\A i \in 1..N : as[i].given \in BOOLEAN)
      /\ O = [x \in DOMAIN O |-> O[x]]
      /\ \A i \in 1..3 : Temp(i) \notin DOMAIN O \cup DOMAIN T
      /\ \A u \in DOMAIN T : Len(T[u]) = 1 /\ T[u][1] \in DOMAIN O
      /\ hole # << >> => hole[1] \in DOMAIN O
  BY DEF Ready
<1>2. e.op = "call" /\ e.to = to /\ e.from = << >> /\ e.kind = k /\ e.args = [i \in 1..N |-> <<Temp(i)>>]
  <2>1. e.op = "call" /\ e.to = to /\ e.from = << >> /\ e.kind = k /\ e.args = [i \in DOMAIN as |-> <<Temp(i)>>]
    <3>1. CallSays(e, as, to, k)
      BY CallStmIs
    <3> QED
      BY <3>1 DEF CallSays
  <2> QED
    BY <1>1, <2>1
<1>0. N \in Nat /\ \A i \in 1..N : i \in 1..3
  BY <1>1
<1>3. Kept2(as, N, N) = 1..N /\ Lent(as, N, N) = {}
  BY <1>0, <1>1, AllLoaded
<1>4. /\ Own(B) = [x \in DOMAIN Own(B) |-> Own(B)[x]]
      /\ DOMAIN Own(B) = DOMAIN O \cup {Temp(i) : i \in 1..N}
      /\ \A x \in DOMAIN O : Own(B)[x] = O[x]
      /\ \A i \in 1..N : Own(B)[Temp(i)] \in {"leaf", "tree"}
      /\ DOMAIN Twin(B) = DOMAIN T
      /\ \A u \in DOMAIN T : Twin(B)[u] = T[u]
      /\ HoleOf(B) = hole /\ Fill(B) = << >> /\ Turns(B) = {}
  BY <1>3 DEF Loaded
<1>5. DOMAIN e.args = 1..N /\ \A i \in 1..N : e.args[i] = <<Temp(i)>>
  BY <1>2
<1>a. \A i \in 1..N : e.args[i][1] = Temp(i)
  BY <1>5, SingleIs
<1>6. Passed(e) = {Temp(i) : i \in 1..N}
  BY <1>5, <1>a DEF Passed
<1>7. Passes(e, B)
  <2>1. e.args \in [1..N -> {<<x>> : x \in DOMAIN Own(B)}]
    <3>1. \A i \in 1..N : <<Temp(i)>> \in {<<x>> : x \in DOMAIN Own(B)}
      BY <1>4
    <3> QED
      BY <1>2, <3>1
  <2>2. \A i \in 1..N : Own(B)[e.args[i][1]] # "frame"
    <3>1. \A i \in 1..N : e.args[i][1] = Temp(i)
      BY <1>a
    <3> QED
      BY <1>4, <3>1
  <2>3. \A i, j \in 1..N : e.args[i] = e.args[j] => i = j
    <3> SUFFICES ASSUME NEW i \in 1..N, NEW j \in 1..N, e.args[i] = e.args[j] PROVE i = j
      OBVIOUS
    <3>1. <<Temp(i)>> = <<Temp(j)>>
      BY <1>5
    <3>2. Temp(i) = Temp(j)
      BY <3>1
    <3> QED
      BY <1>0, <3>2, NamesApart
  <2>4. HoleOf(B) # << >> => HoleOf(B)[1] \notin Passed(e) /\ Fill(B) = << >>
    <3>1. \A x \in Passed(e) : x \notin DOMAIN O
      BY <1>0, <1>1, <1>6
    <3> QED
      BY <1>1, <1>4, <3>1
  <2> QED
    BY <1>1, <1>2, <1>5, <2>1, <2>2, <2>3, <2>4 DEF Passes
<1>8. OfOwners(B)
  BY <1>1, <1>4 DEF OfOwners
<1>9. DOMAIN Own(B) \ Passed(e) = DOMAIN O /\ DOMAIN O \cap Passed(e) = {}
  <2>1. \A i \in 1..N : Temp(i) \notin DOMAIN O
    BY <1>0, <1>1
  <2> DEFINE P == Passed(e)
  <2>2. \A x \in P : x \notin DOMAIN O
    BY <1>6, <2>1
  <2>3. DOMAIN Own(B) = DOMAIN O \cup P
    BY <1>4, <1>6
  <2> HIDE DEF P
  <2>4. DOMAIN Own(B) \ P = DOMAIN O /\ DOMAIN O \cap P = {}
    BY <2>2, <2>3
  <2> QED
    BY <2>4 DEF P
<1> DEFINE P == Passed(e)
<1>b. W = Without(B, P)
  OBVIOUS
<1> HIDE DEF P
<1>10. /\ Own(W) = Less(Own(B), P)
       /\ DOMAIN Twin(W) = {u \in DOMAIN Twin(B) : Twin(B)[u][1] \notin P}
       /\ \A u \in DOMAIN Twin(W) : Twin(W)[u] = Twin(B)[u]
       /\ HoleOf(W) = HoleOf(B) /\ Fill(W) = Fill(B) /\ Turns(W) = Turns(B)
  <2>1. Gone(B, W, P)
    BY <1>b, WithoutGone
  <2> QED
    BY <2>1 DEF Gone
<1>11. Own(W) = O
  <2>1. /\ DOMAIN Less(Own(B), P) = DOMAIN Own(B) \ P
        /\ \A x \in DOMAIN Own(B) \ P : Less(Own(B), P)[x] = Own(B)[x]
        /\ Less(Own(B), P) = [x \in DOMAIN Less(Own(B), P) |-> Less(Own(B), P)[x]]
    BY LessIs
  <2>2. DOMAIN Less(Own(B), P) = DOMAIN O /\ \A x \in DOMAIN O : Less(Own(B), P)[x] = O[x]
    BY <1>4, <1>9, <2>1 DEF P
  <2> QED
    BY <1>1, <1>10, <2>1, <2>2
<1>12. DOMAIN Twin(W) = DOMAIN T
  <2>1. \A u \in DOMAIN T : Twin(B)[u][1] \notin P
    BY <1>1, <1>4, <1>9 DEF P
  <2> QED
    BY <1>4, <1>10, <2>1
<1>13. Left(W, O, T, hole)
  BY <1>4, <1>10, <1>11, <1>12 DEF Left
<1> QED
  BY <1>7, <1>8, <1>13

\* What comes before the call.
Leading(ss, as) == \A to, k : CallOf(as, to, k) = ss \o <<CallStm(as, to, k)>>
\* The arguments' statements lead to a point where the call can be made.
LEMMA BeforeCall ==
  ASSUME NEW O, NEW T, NEW hole, NEW as, NEW N, Ready(O, T, hole, as, N), NEW A, NEW C, Left(A, O, T, hole)
  PROVE  \E B, ss : /\ Course(ss, A, C, B, C) /\ Loaded(B, O, T, hole, as, N, N)
                    /\ Leading(ss, as)
<1> DEFINE F == FlattenSeq([i \in DOMAIN as |-> ArgBody(i, as[i])])
           R == Resets(as)
<1>1. \E B : Course(F, A, C, B, C) /\ Loaded(B, O, T, hole, as, N, 0)
  BY ArgsCourse
<1>2. \A to, k : CallOf(as, to, k) = (F \o R) \o <<CallStm(as, to, k)>>
  BY DEF CallOf, CallStm
<1> HIDE DEF F
<1>3. PICK B1 : Course(F, A, C, B1, C) /\ Loaded(B1, O, T, hole, as, N, 0)
  BY <1>1
<1>4. PICK B2 : Course(R, B1, C, B2, C) /\ Loaded(B2, O, T, hole, as, N, N)
  BY <1>3, ResetsCourse
<1>5. Course(F \o R, A, C, B2, C)
  BY <1>3, <1>4, CourseThen
<1>6. Leading(F \o R, as)
  BY <1>2 DEF Leading
<1> QED
  BY <1>4, <1>5, <1>6

\* A call without a result leaves what there was.
LEMMA CallNone ==
  ASSUME NEW O, NEW T, NEW hole, NEW as, NEW N, Ready(O, T, hole, as, N), NEW A, NEW C, Left(A, O, T, hole), NEW k
  PROVE  \E B : Course(CallOf(as, << >>, k), A, C, B, C) /\ Left(B, O, T, hole)
<1>1. PICK B, ss : /\ Course(ss, A, C, B, C) /\ Loaded(B, O, T, hole, as, N, N)
                   /\ Leading(ss, as)
  BY BeforeCall
<1> DEFINE e == CallStm(as, << >>, k)
           W == Without(B, Passed(e))
<1>2. CallSays(e, as, << >>, k)
  BY CallStmIs
<1>3. Passes(e, B) /\ Left(W, O, T, hole) /\ OfOwners(B)
  BY <1>1, PassesAll
<1>4. CallOf(as, << >>, k) = ss \o <<e>>
  BY <1>1 DEF Leading
<1> HIDE DEF e
<1>5. CallsFor(e, B, W)
  BY <1>2, <1>3 DEF CallsFor, CallSays
<1> HIDE DEF W
<1>6. Effect(e, B, W)
  BY <1>5 DEF Effect
<1>7. Course(ss \o <<e>>, A, C, W, C)
  BY <1>1, <1>6, CourseEffect, CourseAnd
<1> QED
  BY <1>3, <1>4, <1>7

\* A call whose result a name gets.
LEMMA CallNew ==
  ASSUME NEW O, NEW T, NEW hole, NEW as, NEW N, Ready(O, T, hole, as, N), NEW A, NEW C, Left(A, O, T, hole),
         NEW k \in {"leaf", "tree"}, NEW x, x \in Names, x \notin DOMAIN O \cup DOMAIN T, \A i \in 1..2 : x # Temp(i)
  PROVE  \E B : Course(CallOf(as, <<x>>, k), A, C, B, C) /\ Left(B, With(O, x, k), T, hole)
<1>1. PICK B, ss : /\ Course(ss, A, C, B, C) /\ Loaded(B, O, T, hole, as, N, N)
                   /\ Leading(ss, as)
  BY BeforeCall
<1> DEFINE e == CallStm(as, <<x>>, k)
           W == Without(B, Passed(e))
           B2 == Owns(W, x, k)
<1>2. CallSays(e, as, <<x>>, k)
  BY CallStmIs
<1>3. Passes(e, B) /\ Left(W, O, T, hole) /\ OfOwners(B)
  BY <1>1, PassesAll
<1>4. CallOf(as, <<x>>, k) = ss \o <<e>>
  BY <1>1 DEF Leading
<1>5. IsFree(B, x)
  <2>1. N \in 0..2 /\ \A i \in 1..N : as[i].given \in BOOLEAN
    BY DEF Ready
  <2>2. N \in Nat /\ \A i \in 1..N : i \in 1..2
    BY <2>1
  <2>3. Kept2(as, N, N) = 1..N /\ Lent(as, N, N) = {}
    BY <2>1, <2>2, AllLoaded
  <2>4. DOMAIN Own(B) = DOMAIN O \cup {Temp(i) : i \in 1..N} /\ DOMAIN Twin(B) = DOMAIN T \cup {Temp(i) : i \in {}}
    BY <1>1, <2>3 DEF Loaded
  <2>5. x \notin DOMAIN Own(B)
    BY <2>2, <2>4
  <2>6. x \notin DOMAIN Twin(B)
    BY <2>4
  <2> QED
    BY <2>5, <2>6 DEF IsFree
<1> HIDE DEF e
<1>6. CallsFor(e, B, B2)
  <2>1. e.op = "call" /\ e.to = <<x>> /\ e.kind = k
    BY <1>2 DEF CallSays
  <2>2. \E y \in Names : e.to = <<y>> /\ IsFree(B, y) /\ B2 = Owns(Without(B, Passed(e)), y, e.kind)
    BY <1>5, <2>1
  <2> QED
    BY <1>3, <2>1, <2>2 DEF CallsFor
<1> HIDE DEF W
<1>7. OwnMade(W, x, k, B2)
  BY OwnsIs
<1> HIDE DEF B2
<1>8. Effect(e, B, B2)
  BY <1>6 DEF Effect
<1>9. Course(ss \o <<e>>, A, C, B2, C)
  BY <1>1, <1>8, CourseEffect, CourseAnd
<1>10. Left(B2, With(O, x, k), T, hole)
  BY <1>3, <1>7 DEF OwnMade, Left
<1> QED
  BY <1>4, <1>9, <1>10

\* A call whose result goes to the row that has been released.
LEMMA CallHole ==
  ASSUME NEW O, NEW T, NEW hole, NEW as, NEW N, Ready(O, T, hole, as, N), NEW A, NEW C, Left(A, O, T, hole),
         hole # << >>
  PROVE  \E B : Course(CallOf(as, hole, "leaf"), A, C, B, C) /\ Left(B, O, T, << >>)
<1>1. PICK B, ss : /\ Course(ss, A, C, B, C) /\ Loaded(B, O, T, hole, as, N, N)
                   /\ Leading(ss, as)
  BY BeforeCall
<1> DEFINE k == "leaf"
           e == CallStm(as, hole, k)
           W == Without(B, Passed(e))
           B2 == Hole(W, << >>, << >>)
<1>2. CallSays(e, as, hole, k)
  BY CallStmIs
<1>3. Passes(e, B) /\ Left(W, O, T, hole) /\ OfOwners(B)
  BY <1>1, PassesAll
<1>4. CallOf(as, hole, "leaf") = ss \o <<e>>
  BY <1>1 DEF Leading
<1>5. HoleOf(B) = hole /\ Fill(B) = << >>
  BY <1>1 DEF Loaded
<1> HIDE DEF e
<1>6. CallsFor(e, B, B2)
  <2>1. e.op = "call" /\ e.to = hole /\ e.kind = "leaf"
    BY <1>2 DEF CallSays
  <2> QED
    BY <1>3, <1>5, <2>1 DEF CallsFor
<1> HIDE DEF W
<1>7. Own(B2) = Own(W) /\ Twin(B2) = Twin(W) /\ HoleOf(B2) = << >> /\ Fill(B2) = << >> /\ Turns(B2) = Turns(W)
  BY PointIs DEF Hole
<1> HIDE DEF B2
<1>8. Effect(e, B, B2)
  BY <1>6 DEF Effect
<1>9. Course(ss \o <<e>>, A, C, B2, C)
  BY <1>1, <1>8, CourseEffect, CourseAnd
<1>10. Left(B2, O, T, << >>)
  BY <1>3, <1>7 DEF Left
<1> QED
  BY <1>4, <1>9, <1>10

-----------------------------------------------------------------------------
\* What is known where the walk is, of the variables it can name.

Known(A) == Shape(A, scopes, Len(scopes), open, Len(open))

\* The names that a statement can use are those of the scopes but for the ranges.
LEMMA VisibleIs ==
  ASSUME Tidy(scopes, open), job \in Jobs
  PROVE  /\ Visible = HeldIn(scopes, Len(scopes)) \ RangeVars
         /\ Owned = {v.name : v \in {v \in VarsIn(scopes, Len(scopes)) : v.owned}}
<1> DEFINE H == {v.name : v \in ScopeVars}
<1>1. ScopeVars = VarsIn(scopes, Len(scopes))
  BY ScopeVarsAre DEF Tidy
<1>2. Len(scopes) \in 0..Len(scopes)
  BY TidyIs
<1>3. H \cup Also = HeldIn(scopes, Len(scopes))
  BY <1>1 DEF HeldIn
<1>4. H \cup Also \subseteq Given1 \cup RangeVars
  BY <1>2, <1>3, HeldAre
<1>5. None \notin H \cup Also
  BY <1>4, NamesApart DEF None
<1>6. Visible = (H \cup {job.named}) \ ({None} \cup RangeVars)
  BY DEF Visible, None
<1>7. Also = {job.named} \ {None}
  BY DEF Also, None
<1> HIDE DEF H
<1>8. Visible = (H \cup Also) \ RangeVars
  BY <1>5, <1>6, <1>7
<1> QED
  BY <1>1, <1>3, <1>8 DEF Owned

Sighted(A) ==
  /\ DOMAIN Own(A) = HeldIn(scopes, Len(scopes)) /\ Own(A) = [x \in DOMAIN Own(A) |-> Own(A)[x]]
  /\ \A x \in DOMAIN Own(A) : Own(A)[x] \in Sorts
  /\ DOMAIN Own(A) \subseteq Given1 \cup RangeVars /\ DOMAIN Twin(A) \subseteq RangeVars
  /\ \A i \in 1..3 : Temp(i) \notin DOMAIN Own(A) \cup DOMAIN Twin(A)
  /\ \A u \in DOMAIN Twin(A) : /\ Len(Twin(A)[u]) = 1 /\ Twin(A)[u][1] \in DOMAIN Own(A)
                               /\ Twin(A)[u] \in Pinned /\ Twin(A)[u] = <<Twin(A)[u][1]>>
  /\ \A x \in Visible : x \in DOMAIN Own(A) /\ x \in Given1 /\ (KindOf(x) = "tree" => HasRows(A, x))
  /\ \A x \in Owned \cap Visible : Own(A)[x] = KindOf(x)
  /\ \A x \in Given1 \ Visible : x \notin DOMAIN Own(A) \cup DOMAIN Twin(A)
  /\ HoleOf(A) = << >> /\ Fill(A) = << >> /\ Turns(A) = {}

\* At the point where the walk is they own what their declarations say.
LEMMA KnownIs ==
  ASSUME Tidy(scopes, open), job \in Jobs, NEW A, Known(A)
  PROVE  Sighted(A)
<1> DEFINE K == Len(scopes)
           n == Len(open)
<1>1. /\ DOMAIN Own(A) = HeldIn(scopes, K) /\ Own(A) = [x \in DOMAIN Own(A) |-> Own(A)[x]]
      /\ \A v \in VarsIn(scopes, K) : Own(A)[v.name] = SortOf(v)
      /\ \A x \in Also : Own(A)[x] = KindOf(x)
      /\ DOMAIN Twin(A) = {RangeVar(m) : m \in Ranged(open, n)}
      /\ \A m \in Ranged(open, n) : Twin(A)[RangeVar(m)] = open[m].range
      /\ HoleOf(A) = << >> /\ Fill(A) = << >> /\ Turns(A) = {}
  <2>1. Shaped(A, scopes, K, open, n)
    BY ShapeIs DEF Known
  <2> QED
    BY <2>1 DEF Shaped
<1>2. /\ K \in Nat \ {0} /\ n \in 0..3 /\ K \in 0..K /\ DOMAIN open = 1..n
      /\ \A m \in 1..n : open[m] \in Constructs /\ open[m].outer \in Nat
      /\ \A m \in 1..n : open[m].outer <= K
  <2>1. \A m \in 1..n : open[m].outer \in Nat \ {0} /\ Width(open[m]) \in 1..2 /\ open[m].outer + Width(open[m]) <= K
    BY TidyIs
  <2>2. K \in Nat \ {0} /\ n \in 0..3 /\ DOMAIN open = 1..n /\ \A m \in 1..n : open[m] \in Constructs
    BY TidyIs
  <2>3. \A m \in 1..n : open[m].outer <= K
    <3> HIDE DEF K
    <3> QED
      BY <2>1, <2>2
  <2> QED
    BY <2>1, <2>2, <2>3
<1> HIDE DEF K, n
<1>3. /\ HeldIn(scopes, K) \subseteq Given1 \cup RangeVars
      /\ \A v \in VarsIn(scopes, K) : v \in Variables /\ Named(v) /\ v.name \in HeldIn(scopes, K)
  BY <1>2, HeldAre DEF K
<1>4. Visible = HeldIn(scopes, K) \ RangeVars /\ Owned = {v.name : v \in {v \in VarsIn(scopes, K) : v.owned}}
  BY VisibleIs DEF K
<1>5. \A x \in DOMAIN Own(A) : x \in Also \/ \E v \in VarsIn(scopes, K) : x = v.name
  BY <1>1 DEF HeldIn
<1>6. \A x : KindOf(x) \in Sorts /\ (KindOf(x) = "tree" <=> x \in ToSet(Trees)) /\ (KindOf(x) = "leaf" <=> x \notin ToSet(Trees))
  BY DEF KindOf, Sorts
<1>7. \A v : SortOf(v) \in Sorts
  BY DEF SortOf, Sorts
<1>8. \A x \in DOMAIN Own(A) : Own(A)[x] \in Sorts
  BY <1>1, <1>5, <1>6, <1>7
<1>9. DOMAIN Twin(A) \subseteq RangeVars
  <2>1. \A m \in Ranged(open, n) : m \in 1..3
    BY <1>2 DEF Ranged
  <2>2. \A m \in Ranged(open, n) : RangeVar(m) \in RangeVars
    BY <2>1, NamesApart
  <2> QED
    BY <1>1, <2>2
<1>10. \A i \in 1..3 : Temp(i) \notin DOMAIN Own(A) \cup DOMAIN Twin(A)
  BY <1>1, <1>3, <1>9, NamesApart
<1>11. ASSUME NEW u \in DOMAIN Twin(A)
       PROVE  /\ Len(Twin(A)[u]) = 1 /\ Twin(A)[u][1] \in DOMAIN Own(A)
              /\ Twin(A)[u] \in Pinned /\ Twin(A)[u] = <<Twin(A)[u][1]>>
  <2>1. PICK m \in Ranged(open, n) : u = RangeVar(m)
    BY <1>1
  <2>2. m \in 1..n /\ open[m].range # << >> /\ Twin(A)[u] = open[m].range
    BY <1>1, <2>1 DEF Ranged
  <2>3. PICK w \in ToSet(Trees) : open[m].range = <<w>>
    BY <1>2, <2>2 DEF Constructs
  <2>4. open[m].kind = "for" /\ open[m].range[1] \in HeldIn(scopes, open[m].outer)
    BY <2>2 DEF Tidy, RangesHeld, n
  <2>5. m \in Loops
    BY <1>2, <2>2, <2>4 DEF Loops
  <2>6. open[m].range \in Pinned
    BY <2>2, <2>5 DEF Pinned
  <2>7. VarsIn(scopes, K) = VarsIn(scopes, open[m].outer) \cup VarsFrom(scopes, open[m].outer + 1, K)
    <3> DEFINE k == open[m].outer
    <3>1. K \in Nat /\ k \in Nat /\ k <= K
      BY <1>2, <2>2
    <3> HIDE DEF k
    <3>2. VarsIn(scopes, K) = VarsIn(scopes, k) \cup VarsFrom(scopes, k + 1, K)
      BY <3>1, VarsParted
    <3> QED
      BY <3>2 DEF k
  <2>8. open[m].range[1] \in HeldIn(scopes, K)
    BY <2>4, <2>7 DEF HeldIn
  <2>9. Len(<<w>>) = 1 /\ <<w>>[1] = w
    BY SingleIs
  <2> QED
    BY <1>1, <2>2, <2>3, <2>6, <2>8, <2>9
<1>12. ASSUME NEW x \in Visible
       PROVE  x \in DOMAIN Own(A) /\ x \in Given1 /\ (KindOf(x) = "tree" => HasRows(A, x))
  <2>1. x \in DOMAIN Own(A) /\ x \in Given1 /\ x \notin RangeVars
    BY <1>1, <1>3, <1>4
  <2>2. ASSUME KindOf(x) = "tree" PROVE HasRows(A, x)
    <3>1. x \in ToSet(Trees)
      BY <1>6, <2>2
    <3>2. CASE x \in Also
      BY <1>1, <2>2, <3>2 DEF HasRows
    <3>3. CASE \E v \in VarsIn(scopes, K) : x = v.name
      <4>1. PICK v \in VarsIn(scopes, K) : x = v.name
        BY <3>3
      <4>2. SortOf(v) \in {"tree", "frame"}
        BY <3>1, <4>1 DEF SortOf
      <4> QED
        BY <1>1, <4>1, <4>2 DEF HasRows
    <3> QED
      BY <1>5, <2>1, <3>2, <3>3
  <2> QED
    BY <2>1, <2>2
<1>13. ASSUME NEW x \in Owned \cap Visible PROVE Own(A)[x] = KindOf(x)
  <2>1. PICK v \in VarsIn(scopes, K) : v.owned /\ x = v.name
    BY <1>4
  <2>2. x \notin RangeVars
    BY <1>4
  <2>3. SortOf(v) = KindOf(x)
    BY <2>1, <2>2 DEF SortOf, KindOf
  <2> QED
    BY <1>1, <2>1, <2>3
<1>14. \A x \in Given1 \ Visible : x \notin DOMAIN Own(A) \cup DOMAIN Twin(A)
  <2>1. \A x \in Given1 : x \notin RangeVars
    BY NamesApart
  <2> QED
    BY <1>1, <1>4, <1>9, <2>1
<1> QED
  BY <1>1, <1>3, <1>8, <1>9, <1>10, <1>11, <1>12, <1>13, <1>14 DEF Sighted, K

\* What may be given away, or copied.
LEMMA RowsSighted ==
  ASSUME NEW A, Sighted(A), NEW l, l \in Rows
  PROVE  InO(Own(A), l) /\ Len(l) = 2 /\ l[1] \in DOMAIN Own(A)
<1>1. PICK w \in Visible, k \in Keys : KindOf(w) = "tree" /\ l = <<w, k>>
  BY DEF Rows
<1>2. w \in DOMAIN Own(A) /\ HasRows(A, w)
  BY <1>1 DEF Sighted
<1> QED
  BY <1>1, <1>2 DEF InO, HasRows

\* What can be given away is owned, by no range that a loop walks.
LEMMA GiversSighted ==
  ASSUME NEW A, Sighted(A), NEW l, l \in Givers
  PROVE  /\ InO(Own(A), l) /\ l[1] \in DOMAIN Own(A) /\ Len(l) \in 1..2
         /\ Len(l) = 1 => Own(A)[l[1]] # "frame" /\ Own(A)[l[1]] = KindOf(l[1]) /\ l = <<l[1]>>
         /\ \A u \in DOMAIN Twin(A) : Twin(A)[u][1] = l[1] => Len(l) = 2
<1>1. l \in Rows \/ \E x \in Owned \cap Visible : l = <<x>>
  BY DEF Givers
<1>2. CASE l \in Rows
  BY <1>2, RowsSighted
<1>3. CASE \E x \in Owned \cap Visible : l = <<x>>
  <2>1. PICK x \in Owned \cap Visible : l = <<x>>
    BY <1>3
  <2>2. x \in DOMAIN Own(A) /\ Own(A)[x] = KindOf(x)
    BY DEF Sighted
  <2>3. KindOf(x) # "frame"
    BY DEF KindOf
  <2>4. InO(Own(A), l) /\ l[1] = x /\ Len(l) = 1
    BY <2>1, <2>2, SingleIs DEF InO
  <2>5. ASSUME NEW u \in DOMAIN Twin(A), Twin(A)[u][1] = l[1] PROVE FALSE
    <3>1. Twin(A)[u] \in Pinned /\ Twin(A)[u] = <<Twin(A)[u][1]>>
      BY DEF Sighted
    <3>2. l \in Pinned
      BY <2>1, <2>4, <2>5, <3>1
    <3> QED
      BY <3>2 DEF Givers
  <2> QED
    BY <2>1, <2>2, <2>3, <2>4, <2>5
<1> QED
  BY <1>1, <1>2, <1>3

\* Two locations of one variable, one of them that variable: one contains the other.
LEMMA PrefixOf ==
  ASSUME NEW x, NEW k
  PROVE  IsPrefix(<<x>>, <<x>>) /\ IsPrefix(<<x>>, <<x, k>>)
<1>1. SubSeq(<<x>>, 1, 1) = <<x>> /\ SubSeq(<<x, k>>, 1, 1) = <<x>>
  <2> DEFINE S == {x, k}
             s == <<x>>
             t == <<x, k>>
  <2>1. s \in Seq(S) /\ t \in Seq(S) /\ Len(s) = 1 /\ Len(t) = 2 /\ s[1] = x /\ t[1] = x
    OBVIOUS
  <2> HIDE DEF s, t, S
  <2>2. ASSUME NEW r \in Seq(S), Len(r) >= 1, r[1] = x PROVE SubSeq(r, 1, 1) = s
    <3> DEFINE v == SubSeq(r, 1, 1)
    <3>1. v \in Seq(S) /\ Len(v) = 1 /\ v[1] = r[1]
      BY <2>2
    <3> HIDE DEF v
    <3>2. v = s
      BY <2>1, <2>2, <3>1
    <3> QED
      BY <3>2 DEF v
  <2>3. SubSeq(s, 1, 1) = s /\ SubSeq(t, 1, 1) = s
    BY <2>1, <2>2
  <2> QED
    BY <2>3 DEF s, t
<1>2. Len(<<x>>) = 1 /\ Len(<<x, k>>) = 2
  OBVIOUS
<1> QED
  BY <1>1, <1>2 DEF IsPrefix

\* The arguments of a call can be read, one after the other, and given away together.
LEMMA ArgsReady ==
  ASSUME Tidy(scopes, open), job \in Jobs, job.apart, NEW A, Sighted(A), NEW as, as \in Args
  PROVE  \E N : Ready(Own(A), Twin(A), << >>, as, N)
<1> DEFINE O == Own(A)
           T == Twin(A)
<1>1. job.args \in 0..2
  BY JobsAssumption
<1>2. PICK n \in 0..job.args : as \in [1..n -> ArgSets]
  BY DEF Args
<1>3. n \in 0..2 /\ DOMAIN as = 1..n /\ \A i \in 1..n : as[i] \in ArgSets
  <2> DEFINE a == job.args
  <2>1. a \in 0..2 /\ n \in 0..a
    BY <1>1
  <2> HIDE DEF a
  <2>2. n \in 0..2
    BY <2>1
  <2> QED
    BY <1>2, <2>2
<1>4. GivenOnce(as)
  BY DEF Args
<1>5. \A i, j \in DOMAIN as :
          i # j /\ as[i].given /\ as[j].given /\ Len(as[i].of) = 2 /\ Len(as[j].of) = 2
            => as[i].of[1] # as[j].of[1]
  BY DEF Args
<1>6. ASSUME NEW i \in 1..n
      PROVE  as[i].given \in BOOLEAN /\ InO(O, as[i].of) /\ (as[i].given => as[i].of \in Givers)
  <2>1. as[i] \in ArgSets
    BY <1>3
  <2>2. CASE \E l \in Givers : as[i] = Give(l)
    <3>1. PICK l \in Givers : as[i] = Give(l)
      BY <2>2
    <3>2. InO(O, l)
      BY GiversSighted
    <3> QED
      BY <3>1, <3>2 DEF Give
  <2>3. CASE \E l \in {<<x>> : x \in Visible} \cup Rows : as[i] = CopyOf(l)
    <3>1. PICK l \in {<<x>> : x \in Visible} \cup Rows : as[i] = CopyOf(l)
      BY <2>3
    <3>2. InO(O, l)
      <4>1. CASE l \in Rows
        BY <4>1, RowsSighted
      <4>2. CASE l \in {<<x>> : x \in Visible}
        <5>1. PICK x \in Visible : l = <<x>>
          BY <4>2
        <5>2. x \in DOMAIN O
          BY DEF Sighted
        <5> QED
          BY <5>1, <5>2 DEF InO
      <4> QED
        BY <3>1, <4>1, <4>2
    <3> QED
      BY <3>1, <3>2 DEF CopyOf
  <2> QED
    BY <2>1, <2>2, <2>3 DEF ArgSets
<1>7. ASSUME NEW i \in 1..n, as[i].given
      PROVE  /\ as[i].of[1] \in DOMAIN O /\ Len(as[i].of) \in 1..2
             /\ Len(as[i].of) = 1 => O[as[i].of[1]] # "frame" /\ as[i].of = <<as[i].of[1]>>
             /\ \A u \in DOMAIN T : T[u][1] = as[i].of[1] => Len(as[i].of) = 2
  <2> DEFINE l == as[i].of
  <2>1. l \in Givers
    BY <1>6, <1>7
  <2> HIDE DEF l
  <2>2. /\ l[1] \in DOMAIN Own(A) /\ Len(l) \in 1..2
        /\ Len(l) = 1 => Own(A)[l[1]] # "frame" /\ l = <<l[1]>>
        /\ \A u \in DOMAIN Twin(A) : Twin(A)[u][1] = l[1] => Len(l) = 2
    BY <2>1, GiversSighted
  <2> QED
    BY <2>2 DEF l
<1>8. ASSUME NEW i \in 1..n, NEW j \in 1..n, i < j, as[i].given, as[j].given PROVE as[i].of[1] # as[j].of[1]
  <2> SUFFICES ASSUME as[i].of[1] = as[j].of[1] PROVE FALSE
    OBVIOUS
  <2> DEFINE l == as[i].of
             m == as[j].of
  <2>1. ~(IsPrefix(m, l) \/ IsPrefix(l, m))
    BY <1>3, <1>4, <1>8 DEF GivenOnce, ChangesGiven
  <2>2. l[1] = m[1] /\ Len(l) \in 1..2 /\ Len(m) \in 1..2 /\ InO(O, l) /\ InO(O, m)
    BY <1>6, <1>7, <1>8
  <2>3. ~(Len(l) = 2 /\ Len(m) = 2)
    <3>1. i # j
      BY <1>8
    <3> QED
      BY <1>3, <1>5, <1>8, <3>1
  <2> HIDE DEF l, m
  <2>4. \A q : InO(O, q) => \/ q = <<q[1]>> /\ Len(q) = 1
                            \/ Len(q) = 2 /\ \E k : q = <<q[1], k>>
    BY DEF InO
  <2>5. CASE Len(l) = 1
    <3>1. l = <<m[1]>>
      BY <2>2, <2>4, <2>5
    <3>2. m = <<m[1]>> \/ \E k : m = <<m[1], k>>
      BY <2>2, <2>4
    <3> QED
      BY <2>1, <3>1, <3>2, PrefixOf
  <2>6. CASE Len(m) = 1
    <3>1. m = <<l[1]>>
      BY <2>2, <2>4, <2>6
    <3>2. l = <<l[1]>> \/ \E k : l = <<l[1], k>>
      BY <2>2, <2>4
    <3> QED
      BY <2>1, <3>1, <3>2, PrefixOf
  <2>7. Len(l) = 1 \/ Len(m) = 1
    BY <2>2, <2>3
  <2> QED
    BY <2>5, <2>6, <2>7
<1>9. \A i, j \in 1..n : i # j /\ as[i].given /\ as[j].given => as[i].of[1] # as[j].of[1]
  <2> SUFFICES ASSUME NEW i \in 1..n, NEW j \in 1..n, i # j, as[i].given, as[j].given
               PROVE  as[i].of[1] # as[j].of[1]
    OBVIOUS
  <2>1. i < j \/ j < i
    BY <1>3
  <2> QED
    BY <1>8, <2>1
<1>10. Ready(O, T, << >>, as, n)
  <2>1. /\ O = [x \in DOMAIN O |-> O[x]] /\ \A x \in DOMAIN O : O[x] \in Sorts
        /\ \A i \in 1..3 : Temp(i) \notin DOMAIN O \cup DOMAIN T
        /\ \A u \in DOMAIN T : Len(T[u]) = 1 /\ T[u][1] \in DOMAIN O
    BY DEF Sighted
  <2> HIDE DEF O, T
  <2>2. \A i \in 1..n : as[i].given => /\ Len(as[i].of) = 1 => O[as[i].of[1]] # "frame"
                                       /\ \A u \in DOMAIN T : T[u][1] = as[i].of[1] => Len(as[i].of) = 2
    BY <1>7
  <2> QED
    BY <1>3, <1>6, <1>9, <2>1, <2>2 DEF Ready
<1> QED
  BY <1>10

\* Arguments that leave a variable alone can be read while a row of it is the hole, ...
LEMMA ReadyHole ==
  ASSUME NEW O, NEW T, NEW as, NEW N, Ready(O, T, << >>, as, N), NEW hole, hole[1] \in DOMAIN O,
         \A i \in DOMAIN as : as[i].of[1] # hole[1]
  PROVE  Ready(O, T, hole, as, N)
BY DEF Ready

\* ... or when it has been released.
LEMMA ReadyLess ==
  ASSUME NEW O, NEW T, NEW as, NEW N, Ready(O, T, << >>, as, N), NEW x,
         \A i \in DOMAIN as : as[i].of[1] # x, \A u \in DOMAIN T : T[u][1] # x,
         NEW P, P = Less(O, {x})
  PROVE  Ready(P, T, << >>, as, N)
<1>1. /\ DOMAIN P = DOMAIN O \ {x} /\ P = [y \in DOMAIN P |-> P[y]]
      /\ \A y \in DOMAIN O : y # x => P[y] = O[y]
  BY DEF Less
<1>2. DOMAIN as = 1..N /\ \A i \in 1..N : InO(O, as[i].of)
  BY DEF Ready
<1>3. ASSUME NEW i \in 1..N PROVE InO(P, as[i].of) /\ P[as[i].of[1]] = O[as[i].of[1]]
  <2> DEFINE l == as[i].of
  <2>1. InO(O, l) /\ l[1] # x
    BY <1>2
  <2> HIDE DEF l
  <2>2. InO(P, l) /\ P[l[1]] = O[l[1]]
    <3>1. CASE \E y \in DOMAIN O : l = <<y>>
      <4>1. PICK y \in DOMAIN O : l = <<y>>
        BY <3>1
      <4>2. l[1] = y
        BY <4>1, SingleIs
      <4> QED
        BY <1>1, <2>1, <4>1, <4>2 DEF InO
    <3>2. CASE \E y \in DOMAIN O, k \in Keys : l = <<y, k>> /\ O[y] \in {"tree", "frame"}
      <4>1. PICK y \in DOMAIN O, k \in Keys : l = <<y, k>> /\ O[y] \in {"tree", "frame"}
        BY <3>2
      <4>2. l[1] = y
        BY <4>1
      <4>3. y \in DOMAIN P /\ P[y] = O[y]
        BY <1>1, <2>1, <4>2
      <4> QED
        BY <4>1, <4>2, <4>3 DEF InO
    <3> QED
      BY <2>1, <3>1, <3>2 DEF InO
  <2> QED
    BY <2>2 DEF l
<1>4. /\ N \in 0..2 /\ \A y \in DOMAIN O : O[y] \in Sorts
      /\ \A i \in 1..3 : Temp(i) \notin DOMAIN O \cup DOMAIN T
      /\ \A u \in DOMAIN T : Len(T[u]) = 1 /\ T[u][1] \in DOMAIN O
      /\ \A i \in 1..N : /\ as[i].given \in BOOLEAN
                         /\ as[i].given => /\ Len(as[i].of) = 1 => O[as[i].of[1]] # "frame"
                                           /\ \A u \in DOMAIN T : T[u][1] = as[i].of[1] => Len(as[i].of) = 2
      /\ \A i, j \in 1..N : i # j /\ as[i].given /\ as[j].given => as[i].of[1] # as[j].of[1]
  BY DEF Ready
<1>5. /\ \A y \in DOMAIN P : P[y] \in Sorts
      /\ \A i \in 1..3 : Temp(i) \notin DOMAIN P \cup DOMAIN T
      /\ \A u \in DOMAIN T : Len(T[u]) = 1 /\ T[u][1] \in DOMAIN P
  BY <1>1, <1>4
<1>6. \A i \in 1..N : /\ as[i].given \in BOOLEAN /\ InO(P, as[i].of)
                      /\ as[i].given => /\ Len(as[i].of) = 1 => P[as[i].of[1]] # "frame"
                                        /\ \A u \in DOMAIN T : T[u][1] = as[i].of[1] => Len(as[i].of) = 2
  BY <1>3, <1>4
<1> QED
  BY <1>1, <1>2, <1>4, <1>5, <1>6 DEF Ready

\* What is left as it was is known as before.
LEMMA LeftKnown ==
  ASSUME NEW A, Known(A), NEW B, Left(B, Own(A), Twin(A), << >>)
  PROVE  Known(B)
<1>1. OwnsScopes(B, scopes, Len(scopes))
  BY DEF Known, Shape, OwnsScopes, Left
<1>2. WalksRanges(B, open, Len(open))
  BY DEF Known, Shape, WalksRanges, Left
<1> QED
  BY <1>1, <1>2 DEF Known, Shape, AtRest, Left

\* The point where the walk is, as owners and twins.
LEMMA KnownLeft == ASSUME NEW A, Sighted(A) PROVE Left(A, Own(A), Twin(A), << >>)
BY DEF Sighted, Left

-----------------------------------------------------------------------------
\* The walk's scopes and constructs stay tidy.

Longer(ss, v, s2) ==
  /\ Len(s2) = Len(ss) /\ s2 = [i \in 1..Len(ss) |-> s2[i]]
  /\ \A i \in 1..Len(ss) - 1 : s2[i] = ss[i]
  /\ s2[Len(ss)] = Append(ss[Len(ss)], v)

\* A declaration in the last scope.
LEMMA DeclareTidy ==
  ASSUME NEW ss, NEW os, Tidy(ss, os), NEW v \in Variables, Named(v), v.name \notin HeldIn(ss, Len(ss)),
         v.name \notin RangeVars, NEW s2, Longer(ss, v, s2)
  PROVE  Tidy(s2, os) /\ VarsIn(s2, Len(s2)) = VarsIn(ss, Len(ss)) \cup {v}
<1> DEFINE K == Len(ss)
           L == Len(ss[K])
<1>1. K \in Nat \ {0} /\ \A i \in 1..K : ss[i] \in Seq(Variables)
  BY TidyIs
<1>2. K \in 1..K /\ \A i \in 1..K : i = K \/ i \in 1..K - 1
  BY <1>1
<1>3. ss[K] \in Seq(Variables) /\ L \in Nat /\ DOMAIN ss[K] = 1..L
  BY <1>1, <1>2
<1> HIDE DEF K
<1>4. /\ s2[K] \in Seq(Variables) /\ Len(s2[K]) = L + 1 /\ DOMAIN s2[K] = 1..L + 1
      /\ \A j \in 1..L : s2[K][j] = ss[K][j]
      /\ s2[K][L + 1] = v
  <2> DEFINE t == ss[K]
  <2>1. t \in Seq(Variables)
    BY <1>3
  <2>2. s2[K] = Append(t, v)
    BY DEF Longer, K
  <2>3. L = Len(t)
    OBVIOUS
  <2>4. s2[K] = Append(t, v) /\ ss[K] = t
    BY <2>2
  <2> DEFINE u == Append(t, v)
  <2>5. L \in Nat
    BY <1>3
  <2> HIDE DEF t, L
  <2>6. u \in Seq(Variables) /\ Len(u) = L + 1 /\ (\A j \in 1..L : u[j] = t[j]) /\ u[L + 1] = v
    BY <2>1, <2>3, <2>5
  <2> HIDE DEF u
  <2>7. DOMAIN u = 1..L + 1
    BY <2>6
  <2>8. s2[K] = u
    BY <2>4 DEF u
  <2> QED
    BY <2>4, <2>6, <2>7, <2>8
<1> HIDE DEF L
<1>5. /\ Len(s2) = K /\ s2 = [i \in 1..K |-> s2[i]] /\ \A i \in 1..K - 1 : s2[i] = ss[i]
  BY DEF Longer, K
<1>6. \A i \in 1..K : s2[i] \in Seq(Variables)
  BY <1>1, <1>2, <1>4, <1>5
<1>7. s2 \in Seq(Seq(Variables))
  <2>1. s2 \in [1..K -> Seq(Variables)]
    BY <1>5, <1>6
  <2> QED
    BY <1>1, <2>1
<1>8. ToSet(s2[K]) = ToSet(ss[K]) \cup {v}
  <2>1. \A y : y \in ToSet(s2[K]) <=> \E j \in 1..L + 1 : y = s2[K][j]
    BY <1>4, ToSetIs
  <2>2. \A y : y \in ToSet(ss[K]) <=> \E j \in 1..L : y = ss[K][j]
    BY <1>3, ToSetIs DEF L
  <2>3. \A j : j \in 1..L + 1 <=> j \in 1..L \/ j = L + 1
    BY <1>3
  <2>4. \A y : y \in ToSet(s2[K]) <=> y \in ToSet(ss[K]) \/ y = v
    BY <1>4, <2>1, <2>2, <2>3
  <2> QED
    BY <2>4
<1>9. VarsIn(s2, K) = VarsIn(ss, K) \cup {v}
  <2>1. VarsIn(s2, K - 1) = VarsIn(ss, K - 1)
    <3> DEFINE k == K - 1
    <3>1. \A i \in 1..k : s2[i] = ss[i]
      BY <1>5
    <3> HIDE DEF k
    <3>2. VarsIn(s2, k) = VarsIn(ss, k)
      BY <3>1, VarsSame
    <3> QED
      BY <3>2 DEF k
  <2>2. VarsIn(s2, K) = VarsIn(s2, K - 1) \cup ToSet(s2[K]) /\ VarsIn(ss, K) = VarsIn(ss, K - 1) \cup ToSet(ss[K])
    BY <1>1, VarsNext
  <2> QED
    BY <1>8, <2>1, <2>2
<1>10. \A i \in 1..K : \A j \in DOMAIN ss[i] : ss[i][j].name # v.name
  <2> SUFFICES ASSUME NEW i \in 1..K, NEW j \in DOMAIN ss[i] PROVE ss[i][j].name # v.name
    OBVIOUS
  <2>1. ss[i][j] \in ToSet(ss[i])
    BY DEF ToSet
  <2>2. ss[i][j] \in VarsIn(ss, K)
    BY <2>1 DEF VarsIn
  <2>3. ss[i][j].name \in HeldIn(ss, K)
    BY <2>2 DEF HeldIn
  <2> QED
    BY <2>3 DEF K
<1>11. ASSUME NEW i \in 1..K, NEW j \in DOMAIN s2[i]
       PROVE  \/ i = K /\ j = L + 1 /\ s2[i][j] = v
              \/ j \in DOMAIN ss[i] /\ s2[i][j] = ss[i][j]
  <2>1. CASE i = K
    <3>1. j \in 1..L \/ j = L + 1
      BY <1>3, <1>4, <1>11, <2>1
    <3> QED
      BY <1>3, <1>4, <2>1, <3>1
  <2>2. CASE i # K
    <3>1. s2[i] = ss[i]
      BY <1>2, <1>5, <2>2
    <3> QED
      BY <1>11, <3>1
  <2> QED
    BY <2>1, <2>2
<1>12. OnePlace(s2)
  <2> SUFFICES ASSUME NEW i1 \in 1..K, NEW i2 \in 1..K, NEW j1 \in DOMAIN s2[i1], NEW j2 \in DOMAIN s2[i2],
                      s2[i1][j1].name = s2[i2][j2].name
               PROVE  i1 = i2 /\ j1 = j2
    BY <1>5 DEF OnePlace
  <2>1. \/ i1 = K /\ j1 = L + 1 /\ s2[i1][j1] = v
        \/ j1 \in DOMAIN ss[i1] /\ s2[i1][j1] = ss[i1][j1]
    BY <1>11
  <2>2. \/ i2 = K /\ j2 = L + 1 /\ s2[i2][j2] = v
        \/ j2 \in DOMAIN ss[i2] /\ s2[i2][j2] = ss[i2][j2]
    BY <1>11
  <2>3. OnePlace(ss)
    BY DEF Tidy
  <2> QED
    BY <1>10, <2>1, <2>2, <2>3 DEF OnePlace, K
<1>13. \A i \in 1..K : \A w \in ToSet(s2[i]) : w \in ToSet(ss[i]) \/ w = v
  BY <1>2, <1>5, <1>8
<1>14. \A i \in 1..Len(s2) : \A w \in ToSet(s2[i]) : Named(w)
  BY <1>5, <1>13 DEF Tidy, K
<1>15. HeldByFor(s2, os)
  <2>1. \A n \in 1..3 : v.name # RangeVar(n)
    <3>1. \A n \in 1..3 : RangeVar(n) \in RangeVars
      BY NamesApart
    <3> QED
      BY <3>1
  <2>2. HeldByFor(ss, os)
    BY DEF Tidy
  <2> QED
    BY <1>5, <1>13, <2>1, <2>2 DEF HeldByFor, K
<1>16. Leveled(s2, os)
  BY <1>5 DEF Tidy, Leveled, K
<1>17. RangesHeld(s2, os)
  <2> SUFFICES ASSUME NEW n \in 1..Len(os), os[n].range # << >>
               PROVE  os[n].kind = "for" /\ os[n].range[1] \in HeldIn(s2, os[n].outer)
    BY DEF RangesHeld
  <2>1. os[n].kind = "for" /\ os[n].range[1] \in HeldIn(ss, os[n].outer)
    BY DEF Tidy, RangesHeld
  <2>2. os[n].outer \in Nat \ {0} /\ Width(os[n]) \in 1..2 /\ os[n].outer + Width(os[n]) <= K
    BY TidyIs DEF K
  <2>3. \A i \in 1..os[n].outer : i \in 1..K - 1
    <3> DEFINE a == os[n].outer
               b == Width(os[n])
    <3>1. a \in Nat \ {0} /\ b \in 1..2 /\ a + b <= K
      BY <2>2
    <3> HIDE DEF a, b
    <3>2. \A i \in 1..a : i \in 1..K - 1
      BY <1>1, <3>1
    <3> QED
      BY <3>2 DEF a
  <2>4. \A i \in 1..os[n].outer : ss[i] = s2[i]
    BY <1>5, <2>3
  <2>5. HeldIn(ss, os[n].outer) = HeldIn(s2, os[n].outer)
    BY <2>4, VarsSame, ZenonT(30)
  <2> QED
    BY <2>1, <2>5
<1>18. Tidy(s2, os)
  BY <1>5, <1>7, <1>12, <1>14, <1>15, <1>16, <1>17 DEF Tidy, K
<1> QED
  BY <1>5, <1>9, <1>18 DEF K

Fors(os) == {n \in 1..Len(os) : os[n].kind = "for"}
\* There are finitely many `for`s around a statement.
LEMMA ForsFinite == ASSUME NEW os, Len(os) \in Nat PROVE IsFiniteSet(Fors(os)) /\ Cardinality(Fors(os)) \in Nat
<1>1. IsFiniteSet(1..Len(os))
  BY FS_Interval
<1>2. Fors(os) \subseteq 1..Len(os)
  BY DEF Fors
<1>3. IsFiniteSet(Fors(os))
  BY <1>1, <1>2, FS_Subset
<1> QED
  BY <1>3, FS_CardinalityType

\* Their number when one more construct is opened.
LEMMA ForsNext ==
  ASSUME NEW os, NEW o2, Len(os) \in Nat, Len(o2) = Len(os) + 1, \A m \in 1..Len(os) : o2[m] = os[m]
  PROVE  Cardinality(Fors(o2)) = Cardinality(Fors(os)) + (IF o2[Len(o2)].kind = "for" THEN 1 ELSE 0)
<1> DEFINE n == Len(os) + 1
<1>1. n \notin Fors(os) /\ n = Len(o2)
  <2>1. n \notin 1..Len(os)
    OBVIOUS
  <2> QED
    BY <2>1 DEF Fors
<1>2. \A m : m \in 1..Len(o2) <=> m \in 1..Len(os) \/ m = n
  OBVIOUS
<1> HIDE DEF n
<1>3. CASE o2[n].kind = "for"
  <2>1. Fors(o2) = Fors(os) \cup {n}
    BY <1>2, <1>3 DEF Fors
  <2>2. IsFiniteSet(Fors(os))
    BY ForsFinite
  <2>3. Cardinality(Fors(os) \cup {n}) = Cardinality(Fors(os)) + 1
    BY <1>1, <2>2, FS_AddElement
  <2> QED
    BY <1>1, <1>3, <2>1, <2>3
<1>4. CASE o2[n].kind # "for"
  <2>1. Fors(o2) = Fors(os)
    BY <1>2, <1>4 DEF Fors
  <2>2. Cardinality(Fors(os)) \in Nat
    BY ForsFinite
  <2> QED
    BY <1>1, <1>4, <2>1, <2>2
<1> QED
  BY <1>3, <1>4

\* A construct is opened: its scopes and it are behind those there.
Opens(ss, os, s2, o2, e) ==
  /\ e \in Constructs /\ e.outer = Len(ss)
  /\ o2 \in Seq(Constructs) /\ Len(o2) = Len(os) + 1
  /\ (\A m \in 1..Len(os) : o2[m] = os[m]) /\ o2[Len(o2)] = e
  /\ s2 \in Seq(Seq(Variables)) /\ Len(s2) = Len(ss) + Width(e) /\ \A i \in 1..Len(ss) : s2[i] = ss[i]
Fresh(ss, os, s2, e) ==
  /\ \A i \in 1..Len(s2) : i > Len(ss) =>
       /\ Len(s2[i]) \in 0..1
       /\ \A v \in ToSet(s2[i]) :
            /\ Named(v) /\ v.name \notin HeldIn(ss, Len(ss))
            /\ \A n \in 1..3 : v.name = RangeVar(n) =>
                 n = Len(os) + 1 /\ e.kind = "for" /\ e.range = << >> /\ i = Len(ss) + 1
  /\ \A i1, i2 \in 1..Len(s2) : i1 > Len(ss) /\ i2 > Len(ss) =>
       \A v \in ToSet(s2[i1]), w \in ToSet(s2[i2]) : v.name = w.name => i1 = i2
  /\ e.range # << >> => e.kind = "for" /\ e.range[1] \in HeldIn(ss, Len(ss))

\* A construct is opened: its scopes and it are behind those there.
LEMMA OpenTidy ==
  ASSUME NEW ss, NEW os, Tidy(ss, os), NEW s2, NEW o2, NEW e, Opens(ss, os, s2, o2, e), Fresh(ss, os, s2, e),
         Len(os) < 3
  PROVE  Tidy(s2, o2)
<1> DEFINE K == Len(ss)
           N == Len(os)
           W == Width(e)
<1>1. /\ K \in Nat \ {0} /\ (\A i \in 1..K : ss[i] \in Seq(Variables)) /\ N \in 0..3
      /\ \A n \in 1..N : /\ os[n].outer \in Nat \ {0} /\ Width(os[n]) \in 1..2
                         /\ os[n].outer + Width(os[n]) <= K
  BY TidyIs
<1>2. W \in 1..2
  BY DEF Width
<1>3. /\ e \in Constructs /\ e.outer = K
      /\ o2 \in Seq(Constructs) /\ Len(o2) = N + 1
      /\ (\A m \in 1..N : o2[m] = os[m]) /\ o2[N + 1] = e
      /\ s2 \in Seq(Seq(Variables)) /\ Len(s2) = K + W /\ \A i \in 1..K : s2[i] = ss[i]
  BY DEF Opens
<1>4. N < 3
  OBVIOUS
<1>5. /\ OnePlace(ss) /\ HeldByFor(ss, os) /\ Leveled(ss, os) /\ RangesHeld(ss, os)
      /\ \A i \in 1..K : \A v \in ToSet(ss[i]) : Named(v)
      /\ K = 1 + N + Cardinality(Fors(os))
  BY DEF Tidy, Fors
<1>6. /\ \A i \in 1..K + W : i > K =>
           /\ Len(s2[i]) \in 0..1
           /\ \A v \in ToSet(s2[i]) :
                /\ Named(v) /\ v.name \notin HeldIn(ss, K)
                /\ \A n \in 1..3 : v.name = RangeVar(n) =>
                     n = N + 1 /\ e.kind = "for" /\ e.range = << >> /\ i = K + 1
      /\ \A i1, i2 \in 1..K + W : i1 > K /\ i2 > K =>
           \A v \in ToSet(s2[i1]), w \in ToSet(s2[i2]) : v.name = w.name => i1 = i2
      /\ e.range # << >> => e.kind = "for" /\ e.range[1] \in HeldIn(ss, K)
  BY <1>3 DEF Fresh
<1>c. Cardinality(Fors(o2)) = Cardinality(Fors(os)) + (IF e.kind = "for" THEN 1 ELSE 0) /\ Cardinality(Fors(os)) \in Nat
  <2>1. Len(os) \in Nat /\ Len(o2) = Len(os) + 1 /\ \A m \in 1..Len(os) : o2[m] = os[m]
    BY <1>1, <1>3
  <2>2. o2[Len(o2)] = e
    BY <1>3
  <2> QED
    BY <2>1, <2>2, ForsNext, ForsFinite
<1>w. W = IF e.kind = "for" THEN 2 ELSE 1
  BY DEF Width
<1>k. \A i \in 1..K : ss[i] \in Seq(Variables) /\ DOMAIN ss[i] = 1..Len(ss[i])
  BY <1>1
<1>s. \A i \in 1..K + W : s2[i] \in Seq(Variables) /\ DOMAIN s2[i] = 1..Len(s2[i])
  BY <1>3
<1>o. o2[Len(o2)] = e /\ Width(o2[N + 1]) = W
  BY <1>3
<1>7. \A i \in 1..K : \A v \in ToSet(ss[i]) : v \in VarsIn(ss, K) /\ v.name \in HeldIn(ss, K)
  BY DEF VarsIn, HeldIn
<1>h. \A k : HeldIn(ss, k) = {v.name : v \in VarsIn(ss, k)} \cup Also
  BY DEF HeldIn
<1>l. /\ \A n \in 1..N : os[n].outer = Level(os, n)
      /\ K = Level(os, N + 1)
      /\ \A m, n \in 1..N : m < n => os[m].outer + Width(os[m]) <= os[n].outer
  BY <1>5 DEF Leveled
<1> HIDE DEF K, N, W
<1>8. \A i \in 1..K + W : i \in 1..K \/ i > K
  BY <1>1, <1>2
<1>9. OnePlace(s2)
  <2> SUFFICES ASSUME NEW i1 \in 1..K + W, NEW i2 \in 1..K + W, NEW j1 \in DOMAIN s2[i1], NEW j2 \in DOMAIN s2[i2],
                      s2[i1][j1].name = s2[i2][j2].name
               PROVE  i1 = i2 /\ j1 = j2
    BY <1>3 DEF OnePlace
  <2>1. s2[i1][j1] \in ToSet(s2[i1]) /\ s2[i2][j2] \in ToSet(s2[i2])
    BY DEF ToSet
  <2>2. CASE i1 \in 1..K /\ i2 \in 1..K
    <3>1. s2[i1] = ss[i1] /\ s2[i2] = ss[i2]
      BY <1>3, <2>2
    <3>2. OnePlace(ss)
      BY <1>5
    <3> QED
      BY <2>2, <3>1, <3>2 DEF OnePlace, K
  <2>3. CASE i1 > K /\ i2 > K
    <3>1. i1 = i2 /\ Len(s2[i1]) \in 0..1
      BY <1>6, <2>1, <2>3
    <3>2. j1 \in 1..Len(s2[i1]) /\ j2 \in 1..Len(s2[i1])
      BY <1>s, <3>1
    <3> QED
      BY <3>1, <3>2
  <2>4. CASE i1 \in 1..K /\ i2 > K
    <3>1. s2[i1][j1].name \in HeldIn(ss, K)
      BY <1>3, <1>7, <2>1, <2>4
    <3>2. s2[i2][j2].name \notin HeldIn(ss, K)
      BY <1>6, <2>1, <2>4
    <3> QED
      BY <3>1, <3>2
  <2>5. CASE i1 > K /\ i2 \in 1..K
    <3>1. s2[i2][j2].name \in HeldIn(ss, K)
      BY <1>3, <1>7, <2>1, <2>5
    <3>2. s2[i1][j1].name \notin HeldIn(ss, K)
      BY <1>6, <2>1, <2>5
    <3> QED
      BY <3>1, <3>2
  <2> QED
    BY <1>8, <2>2, <2>3, <2>4, <2>5
<1>10. \A i \in 1..Len(s2) : \A v \in ToSet(s2[i]) : Named(v)
  BY <1>3, <1>5, <1>6, <1>8
<1>11. HeldByFor(s2, o2)
  <2> SUFFICES ASSUME NEW i \in 1..K + W, NEW v \in ToSet(s2[i]), NEW n \in 1..3, v.name = RangeVar(n)
               PROVE  n \in 1..Len(o2) /\ o2[n].kind = "for" /\ o2[n].range = << >> /\ i = o2[n].outer + 1
    BY <1>3 DEF HeldByFor
  <2>1. CASE i \in 1..K
    <3>1. v \in ToSet(ss[i])
      BY <1>3, <2>1
    <3>2. n \in 1..N /\ os[n].kind = "for" /\ os[n].range = << >> /\ i = os[n].outer + 1
      BY <1>5, <2>1, <3>1 DEF HeldByFor, K, N
    <3>3. n \in 1..N + 1 /\ o2[n] = os[n]
      BY <1>1, <1>3, <3>2
    <3> QED
      BY <1>3, <3>2, <3>3
  <2>2. CASE i > K
    <3>1. n = N + 1 /\ e.kind = "for" /\ e.range = << >> /\ i = K + 1
      BY <1>6, <2>2
    <3>2. N + 1 \in 1..N + 1
      BY <1>1
    <3> QED
      BY <1>3, <3>1, <3>2
  <2> QED
    BY <1>8, <2>1, <2>2
<1>12. Leveled(s2, o2)
  <2>1. ASSUME NEW n \in 1..N + 1 PROVE Level(o2, n) = Level(os, n)
    <3>1. CASE n = 1
      BY <3>1 DEF Level
    <3>2. CASE n # 1
      <4>1. n - 1 \in 1..N
        BY <1>1, <3>2
      <4> QED
        BY <1>3, <3>2, <4>1 DEF Level
    <3> QED
      BY <3>1, <3>2
  <2>2. ASSUME NEW n \in 1..N + 1 PROVE o2[n].outer = Level(o2, n)
    <3>1. CASE n \in 1..N
      BY <1>3, <1>l, <2>1, <3>1
    <3>2. CASE n = N + 1
      BY <1>3, <1>l, <2>1, <3>2
    <3> QED
      BY <1>1, <3>1, <3>2
  <2>3. Len(s2) = Level(o2, Len(o2) + 1)
    <3>1. Len(o2) + 1 # 1 /\ Len(o2) + 1 - 1 = N + 1
      BY <1>1, <1>3
    <3> QED
      BY <1>3, <1>o, <3>1 DEF Level
  <2>4. ASSUME NEW m \in 1..N + 1, NEW n \in 1..N + 1, m < n PROVE o2[m].outer + Width(o2[m]) <= o2[n].outer
    <3>1. m \in 1..N
      BY <1>1, <2>4
    <3>2. CASE n \in 1..N
      BY <1>3, <1>l, <2>4, <3>1, <3>2
    <3>3. CASE n = N + 1
      BY <1>1, <1>3, <3>1, <3>3
    <3> QED
      BY <1>1, <3>2, <3>3
  <2> QED
    BY <1>3, <2>2, <2>3, <2>4 DEF Leveled
<1>13. RangesHeld(s2, o2)
  <2> SUFFICES ASSUME NEW n \in 1..N + 1, o2[n].range # << >>
               PROVE  o2[n].kind = "for" /\ o2[n].range[1] \in HeldIn(s2, o2[n].outer)
    BY <1>3 DEF RangesHeld
  <2>1. o2[n].outer \in Nat /\ o2[n].outer <= K /\ o2[n].kind = "for" /\ o2[n].range[1] \in HeldIn(ss, o2[n].outer)
    <3>1. CASE n \in 1..N
      <4>1. os[n].outer \in Nat \ {0} /\ Width(os[n]) \in 1..2 /\ os[n].outer + Width(os[n]) <= K
        BY <1>1, <3>1
      <4>2. os[n].kind = "for" /\ os[n].range[1] \in HeldIn(ss, os[n].outer)
        BY <1>3, <1>5, <3>1 DEF RangesHeld, N
      <4>3. os[n].outer <= K
        <5> DEFINE a == os[n].outer
                   b == Width(os[n])
        <5>1. a \in Nat \ {0} /\ b \in 1..2 /\ a + b <= K
          BY <4>1
        <5> HIDE DEF a, b
        <5>2. a <= K
          BY <1>1, <5>1
        <5> QED
          BY <5>2 DEF a
      <4> QED
        BY <1>3, <3>1, <4>1, <4>2, <4>3
    <3>2. CASE n = N + 1
      <4>1. K <= K
        BY <1>1
      <4> QED
        BY <1>1, <1>3, <1>6, <3>2, <4>1
    <3> QED
      BY <1>1, <3>1, <3>2
  <2> DEFINE k == o2[n].outer
  <2>2. k \in Nat /\ k <= K
    BY <2>1
  <2> HIDE DEF k
  <2>3. \A i \in 1..k : i \in 1..K
    BY <1>1, <2>2
  <2>4. \A i \in 1..k : ss[i] = s2[i]
    BY <1>3, <2>3
  <2>5. HeldIn(ss, k) = HeldIn(s2, k)
    BY <2>4, VarsSame
  <2> QED
    BY <2>1, <2>5 DEF k
<1>14. Len(o2) \in 0..3
  BY <1>1, <1>3, <1>4
<1>15. Len(s2) = 1 + Len(o2) + Cardinality(Fors(o2))
  <2> DEFINE a == Cardinality(Fors(os))
             b == Cardinality(Fors(o2))
             d == IF e.kind = "for" THEN 1 ELSE 0
  <2>1. a \in Nat /\ b = a + d /\ K = 1 + N + a /\ W = 1 + d /\ d \in Nat
    <3>1. W = 1 + d /\ d \in Nat
      BY <1>w
    <3> QED
      BY <1>5, <1>c, <3>1
  <2>2. Len(s2) = K + W /\ Len(o2) = N + 1 /\ K \in Nat /\ N \in Nat
    BY <1>1, <1>3
  <2> HIDE DEF a, b, d
  <2>3. Len(s2) = 1 + Len(o2) + b
    BY <2>1, <2>2
  <2> QED
    BY <2>3 DEF b
<1> QED
  BY <1>3, <1>9, <1>10, <1>11, <1>12, <1>13, <1>14, <1>15 DEF Tidy, Fors

\* A construct is closed: its scopes and it are gone.
Closes(ss, os, s2, o2) ==
  /\ Len(os) # 0
  /\ o2 \in Seq(Constructs) /\ Len(o2) = Len(os) - 1 /\ \A m \in 1..Len(o2) : o2[m] = os[m]
  /\ s2 \in Seq(Seq(Variables)) /\ Len(s2) = os[Len(os)].outer /\ \A i \in 1..Len(s2) : s2[i] = ss[i]

\* A construct is closed: its scopes and it are gone.
LEMMA CloseTidy ==
  ASSUME NEW ss, NEW os, Tidy(ss, os), NEW s2, NEW o2, Closes(ss, os, s2, o2)
  PROVE  Tidy(s2, o2)
<1> DEFINE K == Len(ss)
           N == Len(o2)
           e == os[Len(os)]
           k == Len(s2)
<1>1. /\ K \in Nat \ {0} /\ Len(os) \in 0..3
      /\ \A n \in 1..Len(os) : /\ os[n].outer \in Nat \ {0} /\ Width(os[n]) \in 1..2
                         /\ os[n].outer + Width(os[n]) <= K
  BY TidyIs
<1>2. /\ Len(os) # 0 /\ o2 \in Seq(Constructs) /\ N = Len(os) - 1 /\ (\A m \in 1..N : o2[m] = os[m])
      /\ s2 \in Seq(Seq(Variables)) /\ k = e.outer /\ \A i \in 1..k : s2[i] = ss[i]
  BY DEF Closes
<1>3. N \in 0..2 /\ Len(os) = N + 1 /\ e = os[N + 1] /\ N + 1 \in 1..N + 1
  BY <1>1, <1>2
<1>4. k \in Nat \ {0} /\ Width(e) \in 1..2 /\ k + Width(e) <= K
  BY <1>1, <1>2, <1>3
<1>5. /\ OnePlace(ss) /\ HeldByFor(ss, os) /\ Leveled(ss, os) /\ RangesHeld(ss, os)
      /\ \A i \in 1..K : \A v \in ToSet(ss[i]) : Named(v)
      /\ K = 1 + Len(os) + Cardinality(Fors(os))
  BY DEF Tidy, Fors
<1>6. /\ \A n \in 1..N + 1 : os[n].outer = Level(os, n)
      /\ K = Level(os, N + 1 + 1)
      /\ \A m, n \in 1..N + 1 : m < n => os[m].outer + Width(os[m]) <= os[n].outer
  BY <1>3, <1>5 DEF Leveled
<1>7. K = k + Width(e)
  <2>1. N + 1 + 1 # 1 /\ N + 1 + 1 - 1 = N + 1
    BY <1>3
  <2>2. Level(os, N + 1 + 1) = os[N + 1].outer + Width(os[N + 1])
    BY <2>1 DEF Level
  <2> QED
    BY <1>2, <1>3, <1>6, <2>2
<1>c. Cardinality(Fors(os)) = Cardinality(Fors(o2)) + (IF e.kind = "for" THEN 1 ELSE 0) /\ Cardinality(Fors(o2)) \in Nat
  <2>1. Len(o2) \in Nat /\ Len(os) = Len(o2) + 1 /\ \A m \in 1..Len(o2) : os[m] = o2[m]
    BY <1>2, <1>3
  <2> QED
    BY <2>1, ForsNext, ForsFinite
<1>w. Width(e) = IF e.kind = "for" THEN 2 ELSE 1
  BY DEF Width
<1>f. e.outer = k
  BY <1>2
<1> HIDE DEF K, N, e, k
<1>8. \A i \in 1..k : i \in 1..K
  BY <1>1, <1>4
<1>9. OnePlace(s2)
  <2> SUFFICES ASSUME NEW i1 \in 1..k, NEW i2 \in 1..k, NEW j1 \in DOMAIN s2[i1], NEW j2 \in DOMAIN s2[i2],
                      s2[i1][j1].name = s2[i2][j2].name
               PROVE  i1 = i2 /\ j1 = j2
    BY DEF OnePlace, k
  <2> QED
    BY <1>2, <1>5, <1>8, SMTT(20) DEF OnePlace, K
<1>10. \A i \in 1..Len(s2) : \A v \in ToSet(s2[i]) : Named(v)
  BY <1>2, <1>5, <1>8 DEF k
<1>11. HeldByFor(s2, o2)
  <2> SUFFICES ASSUME NEW i \in 1..k, NEW v \in ToSet(s2[i]), NEW n \in 1..3, v.name = RangeVar(n)
               PROVE  n \in 1..N /\ o2[n].kind = "for" /\ o2[n].range = << >> /\ i = o2[n].outer + 1
    BY DEF HeldByFor, k, N
  <2>1. v \in ToSet(ss[i]) /\ i \in 1..K
    BY <1>2, <1>8
  <2>2. n \in 1..N + 1 /\ os[n].kind = "for" /\ os[n].range = << >> /\ i = os[n].outer + 1
    BY <1>3, <1>5, <2>1 DEF HeldByFor, K
  <2>3. n # N + 1
    <3> SUFFICES ASSUME n = N + 1 PROVE FALSE
      OBVIOUS
    <3>1. i = k + 1
      BY <1>3, <1>f, <2>2
    <3> QED
      BY <1>4, <3>1
  <2>4. n \in 1..N
    BY <1>3, <2>2, <2>3
  <2> QED
    BY <1>2, <2>2, <2>4
<1>12. Leveled(s2, o2)
  <2>1. ASSUME NEW n \in 1..N + 1 PROVE Level(o2, n) = Level(os, n)
    <3>1. CASE n = 1
      BY <3>1 DEF Level
    <3>2. CASE n # 1
      <4>1. n - 1 \in 1..N
        BY <1>3, <3>2
      <4> QED
        BY <1>2, <3>2, <4>1 DEF Level
    <3> QED
      BY <3>1, <3>2
  <2>2. \A n \in 1..N : n \in 1..N + 1
    BY <1>3
  <2>3. \A n \in 1..N : o2[n].outer = Level(o2, n)
    BY <1>2, <1>6, <2>1, <2>2
  <2>4. k = Level(o2, N + 1)
    BY <1>2, <1>3, <1>6, <2>1
  <2>5. \A m, n \in 1..N : m < n => o2[m].outer + Width(o2[m]) <= o2[n].outer
    BY <1>2, <1>6, <2>2
  <2> QED
    BY <2>3, <2>4, <2>5 DEF Leveled, k, N
<1>13. RangesHeld(s2, o2)
  <2> SUFFICES ASSUME NEW n \in 1..N, o2[n].range # << >>
               PROVE  o2[n].kind = "for" /\ o2[n].range[1] \in HeldIn(s2, o2[n].outer)
    BY DEF RangesHeld, N
  <2>1. n \in 1..N + 1 /\ o2[n] = os[n] /\ n < N + 1
    BY <1>2, <1>3
  <2>2. o2[n].kind = "for" /\ o2[n].range[1] \in HeldIn(ss, o2[n].outer)
    BY <1>3, <1>5, <2>1 DEF RangesHeld
  <2>3. os[n].outer \in Nat \ {0} /\ Width(os[n]) \in 1..2 /\ os[n].outer + Width(os[n]) <= os[N + 1].outer
    BY <1>1, <1>3, <1>6, <2>1
  <2> DEFINE j == o2[n].outer
             b == Width(os[n])
  <2>4. j \in Nat /\ b \in 1..2 /\ j + b <= k
    BY <1>2, <1>3, <2>1, <2>3
  <2> HIDE DEF j, b
  <2>5. \A i \in 1..j : i \in 1..k
    BY <1>4, <2>4
  <2>6. \A i \in 1..j : ss[i] = s2[i]
    BY <1>2, <2>5
  <2>7. HeldIn(ss, j) = HeldIn(s2, j)
    BY <2>6, VarsSame
  <2> QED
    BY <2>2, <2>7 DEF j
<1>14. N \in 0..3
  BY <1>3
<1>15. k = 1 + N + Cardinality(Fors(o2))
  <2> DEFINE a == Cardinality(Fors(os))
             b == Cardinality(Fors(o2))
             d == IF e.kind = "for" THEN 1 ELSE 0
             w == Width(e)
  <2>1. b \in Nat /\ a = b + d /\ K = 1 + (N + 1) + a /\ w = 1 + d /\ d \in Nat
    <3>1. w = 1 + d /\ d \in Nat
      BY <1>w
    <3> QED
      BY <1>3, <1>5, <1>c, <3>1
  <2>2. K = k + w /\ K \in Nat /\ N \in Nat /\ k \in Nat
    BY <1>1, <1>3, <1>4, <1>7
  <2> HIDE DEF a, b, d, w
  <2>3. k = 1 + N + b
    BY <2>1, <2>2
  <2> QED
    BY <2>3 DEF b
<1> QED
  BY <1>2, <1>9, <1>10, <1>11, <1>12, <1>13, <1>14, <1>15 DEF Tidy, Fors, k, N

\* An else takes the place of its if.
Turns2(ss, os, s2, o2) ==
  /\ Len(os) # 0 /\ os[Len(os)].kind = "if"
  /\ o2 \in Seq(Constructs) /\ Len(o2) = Len(os) /\ \A m \in 1..Len(os) - 1 : o2[m] = os[m]
  /\ o2[Len(os)].kind = "else" /\ o2[Len(os)].outer = os[Len(os)].outer /\ o2[Len(os)].range = os[Len(os)].range
  /\ s2 \in Seq(Seq(Variables)) /\ Len(s2) = Len(ss) /\ (\A i \in 1..Len(ss) - 1 : s2[i] = ss[i])
  /\ s2[Len(ss)] = << >>

\* An else takes the place of its if.
LEMMA ElseTidy ==
  ASSUME NEW ss, NEW os, Tidy(ss, os), NEW s2, NEW o2, Turns2(ss, os, s2, o2)
  PROVE  Tidy(s2, o2)
<1> DEFINE K == Len(ss)
           N == Len(os)
<1>1. /\ K \in Nat \ {0} /\ N \in 0..3
      /\ \A n \in 1..N : /\ os[n].outer \in Nat \ {0} /\ Width(os[n]) \in 1..2
                         /\ os[n].outer + Width(os[n]) <= K
  BY TidyIs
<1>2. /\ N # 0 /\ os[N].kind = "if"
      /\ o2 \in Seq(Constructs) /\ Len(o2) = N /\ (\A m \in 1..N - 1 : o2[m] = os[m])
      /\ o2[N].kind = "else" /\ o2[N].outer = os[N].outer /\ o2[N].range = os[N].range
      /\ s2 \in Seq(Seq(Variables)) /\ Len(s2) = K /\ (\A i \in 1..K - 1 : s2[i] = ss[i]) /\ s2[K] = << >>
  BY DEF Turns2
<1>3. \A m \in 1..N : m \in 1..N - 1 \/ m = N
  BY <1>1
<1>4. \A m \in 1..N : /\ o2[m].outer = os[m].outer /\ o2[m].range = os[m].range /\ Width(o2[m]) = Width(os[m])
                      /\ (o2[m].kind = "for" <=> os[m].kind = "for")
  BY <1>2, <1>3 DEF Width
<1>5. /\ OnePlace(ss) /\ HeldByFor(ss, os) /\ Leveled(ss, os) /\ RangesHeld(ss, os)
      /\ \A i \in 1..K : \A v \in ToSet(ss[i]) : Named(v)
      /\ K = 1 + N + Cardinality(Fors(os))
  BY DEF Tidy, Fors
<1>6. Fors(o2) = Fors(os)
  BY <1>2, <1>4 DEF Fors
<1>l. /\ \A n \in 1..N : os[n].outer = Level(os, n)
      /\ K = Level(os, N + 1)
      /\ \A m, n \in 1..N : m < n => os[m].outer + Width(os[m]) <= os[n].outer
  BY <1>5 DEF Leveled
<1> HIDE DEF K, N
<1>7. \A i \in 1..K : i \in 1..K - 1 \/ i = K
  BY <1>1
<1>8. \A i \in 1..K : s2[i] = ss[i] \/ (DOMAIN s2[i] = {} /\ ToSet(s2[i]) = {})
  <2>1. DOMAIN << >> = {}
    OBVIOUS
  <2>2. ToSet(<< >>) = {}
    BY <2>1 DEF ToSet
  <2> QED
    BY <1>2, <1>7, <2>1, <2>2
<1>9. OnePlace(s2)
  <2> SUFFICES ASSUME NEW i1 \in 1..K, NEW i2 \in 1..K, NEW j1 \in DOMAIN s2[i1], NEW j2 \in DOMAIN s2[i2],
                      s2[i1][j1].name = s2[i2][j2].name
               PROVE  i1 = i2 /\ j1 = j2
    BY <1>2 DEF OnePlace
  <2> QED
    BY <1>5, <1>8 DEF OnePlace, K
<1>10. \A i \in 1..Len(s2) : \A v \in ToSet(s2[i]) : Named(v)
  BY <1>2, <1>5, <1>8
<1>11. HeldByFor(s2, o2)
  <2> SUFFICES ASSUME NEW i \in 1..K, NEW v \in ToSet(s2[i]), NEW n \in 1..3, v.name = RangeVar(n)
               PROVE  n \in 1..N /\ o2[n].kind = "for" /\ o2[n].range = << >> /\ i = o2[n].outer + 1
    BY <1>2 DEF HeldByFor
  <2>1. v \in ToSet(ss[i])
    BY <1>8
  <2>2. n \in 1..N /\ os[n].kind = "for" /\ os[n].range = << >> /\ i = os[n].outer + 1
    BY <1>5, <2>1 DEF HeldByFor, K, N
  <2> QED
    BY <1>4, <2>2
<1>12. Leveled(s2, o2)
  <2>1. ASSUME NEW n \in 1..N + 1 PROVE Level(o2, n) = Level(os, n)
    <3>1. CASE n = 1
      BY <3>1 DEF Level
    <3>2. CASE n # 1
      <4>1. n - 1 \in 1..N
        BY <1>1, <3>2
      <4> QED
        BY <1>4, <3>2, <4>1 DEF Level
    <3> QED
      BY <3>1, <3>2
  <2>2. (\A n \in 1..N : n \in 1..N + 1) /\ N + 1 \in 1..N + 1
    BY <1>1
  <2>3. \A n \in 1..N : o2[n].outer = Level(o2, n)
    BY <1>4, <1>l, <2>1, <2>2
  <2>4. K = Level(o2, N + 1)
    BY <1>l, <2>1, <2>2
  <2>5. \A m, n \in 1..N : m < n => o2[m].outer + Width(o2[m]) <= o2[n].outer
    BY <1>4, <1>l
  <2> QED
    BY <1>2, <2>3, <2>4, <2>5 DEF Leveled
<1>13. RangesHeld(s2, o2)
  <2> SUFFICES ASSUME NEW n \in 1..N, o2[n].range # << >>
               PROVE  o2[n].kind = "for" /\ o2[n].range[1] \in HeldIn(s2, o2[n].outer)
    BY <1>2 DEF RangesHeld
  <2>2. o2[n].kind = "for" /\ o2[n].range[1] \in HeldIn(ss, o2[n].outer)
    BY <1>4, <1>5 DEF RangesHeld, N
  <2>3. os[n].outer \in Nat \ {0} /\ Width(os[n]) \in 1..2 /\ os[n].outer + Width(os[n]) <= K
    BY <1>1
  <2> DEFINE j == o2[n].outer
             b == Width(os[n])
  <2>4. j \in Nat /\ b \in 1..2 /\ j + b <= K
    BY <1>4, <2>3
  <2> HIDE DEF j, b
  <2>5. \A i \in 1..j : i \in 1..K - 1
    BY <1>1, <2>4
  <2>6. \A i \in 1..j : ss[i] = s2[i]
    BY <1>2, <2>5
  <2>7. HeldIn(ss, j) = HeldIn(s2, j)
    BY <2>6, VarsSame
  <2> QED
    BY <2>2, <2>7 DEF j
<1>14. Len(o2) \in 0..3
  BY <1>1, <1>2
<1>15. Len(s2) = 1 + Len(o2) + Cardinality(Fors(o2))
  BY <1>2, <1>5, <1>6
<1> QED
  BY <1>2, <1>9, <1>10, <1>11, <1>12, <1>13, <1>14, <1>15 DEF Tidy, Fors

-----------------------------------------------------------------------------
\* What is known around the walk stays so when scopes and constructs come and go.

Rests(E, ss, os, n) ==
  /\ Way(E) = IF Loop(os[n]) THEN "loop" ELSE "branch"
  /\ Shape(Top(E), ss, Kept1(os[n]), os, n)
  /\ Shape(Out(E), ss, Kept1(os[n]), os, n - 1)
\* Each construct but a block has a point at its test or else, and one behind it, that
\* fit the scopes around it.
LEMMA FramedIs ==
  ASSUME NEW D, NEW ss, NEW os
  PROVE  Framed(D, ss, os) <=> /\ D = [n \in DOMAIN D |-> D[n]]
                               /\ DOMAIN D = {n \in 1..Len(os) : os[n].kind # "block"}
                               /\ \A n \in DOMAIN D : Rests(D[n], ss, os, n)
BY DEF Framed, Rests

\* A construct's scopes are behind those of the constructs around it.
LEMMA KeptIs ==
  ASSUME NEW ss, NEW os, Tidy(ss, os), NEW n \in 1..Len(os)
  PROVE  /\ Kept1(os[n]) \in 1..Len(ss) - 1 /\ Kept1(os[n]) = os[n].outer + (IF os[n].kind = "for" THEN 1 ELSE 0)
         /\ \A r \in 1..n : os[r].outer <= Kept1(os[n])
<1> DEFINE K == Len(ss)
           k == os[n].outer
           d == IF os[n].kind = "for" THEN 1 ELSE 0
           w == Width(os[n])
<1>1. /\ K \in Nat \ {0} /\ Len(os) \in 0..3
      /\ \A m \in 1..Len(os) : /\ os[m].outer \in Nat \ {0} /\ Width(os[m]) \in 1..2
                               /\ os[m].outer + Width(os[m]) <= K
  BY TidyIs
<1>2. w = 1 + d /\ d \in 0..1
  BY DEF Width
<1>3. k \in Nat \ {0} /\ k + w <= K
  BY <1>1
<1>4. Kept1(os[n]) = k + w - 1
  BY DEF Kept1
<1>5. \A m \in 1..Len(os) : m < n => os[m].outer + Width(os[m]) <= k
  BY DEF Tidy, Leveled
<1>6. \A r \in 1..n : r \in 1..Len(os) /\ (r < n \/ r = n)
  BY <1>1
<1> HIDE DEF K, k, d, w
<1>7. k + w - 1 \in 1..K - 1 /\ k + w - 1 = k + d
  BY <1>1, <1>2, <1>3
<1>8. ASSUME NEW r \in 1..n PROVE os[r].outer <= k + d
  <2>1. CASE r = n
    BY <1>2, <1>3, <2>1 DEF k
  <2>2. CASE r # n
    <3> DEFINE a == os[r].outer
               b == Width(os[r])
    <3>1. a \in Nat /\ b \in 1..2 /\ a + b <= k
      BY <1>1, <1>5, <1>6, <2>2
    <3> HIDE DEF a, b
    <3>2. a <= k + d
      BY <1>2, <1>3, <3>1
    <3> QED
      BY <3>2 DEF a
  <2> QED
    BY <2>1, <2>2
<1> QED
  BY <1>4, <1>7, <1>8 DEF k, d, K

\* What is known of a construct does not depend on the scopes inside it.
LEMMA RestsSame ==
  ASSUME NEW E, NEW ss, NEW os, NEW n \in Nat, Rests(E, ss, os, n), NEW s2, NEW o2,
         \A i \in 1..Kept1(os[n]) : ss[i] = s2[i], \A m \in 1..n : os[m].range = o2[m].range,
         Kept1(o2[n]) = Kept1(os[n]), Loop(os[n]) <=> Loop(o2[n])
  PROVE  Rests(E, s2, o2, n)
<1> DEFINE k == Kept1(os[n])
           A == Top(E)
           B == Out(E)
           m1 == n - 1
<1>1. Shape(A, ss, k, os, n) /\ Shape(B, ss, k, os, m1)
  BY DEF Rests
<1>2. \A m \in 1..m1 : os[m].range = o2[m].range
  BY DEF m1
<1>3. \A i \in 1..k : ss[i] = s2[i]
  OBVIOUS
<1> HIDE DEF k, A, B, m1
<1>4. Shape(A, s2, k, o2, n)
  BY <1>1, <1>3, ShapeSame
<1>5. Shape(B, s2, k, o2, m1)
  BY <1>1, <1>2, <1>3, ShapeSame
<1> QED
  BY <1>4, <1>5 DEF Rests, k, A, B, m1

\* Only the last scope changes.
LEMMA FramedSame ==
  ASSUME NEW ss, NEW os, Tidy(ss, os), NEW D, Framed(D, ss, os), NEW s2, NEW o2,
         \A i \in 1..Len(ss) - 1 : ss[i] = s2[i], Len(o2) = Len(os),
         \A m \in 1..Len(os) : /\ os[m].range = o2[m].range /\ Kept1(o2[m]) = Kept1(os[m])
                               /\ (Loop(os[m]) <=> Loop(o2[m]))
                               /\ (os[m].kind = "block" <=> o2[m].kind = "block")
  PROVE  Framed(D, s2, o2)
<1>1. /\ D = [n \in DOMAIN D |-> D[n]]
      /\ DOMAIN D = {n \in 1..Len(os) : os[n].kind # "block"}
      /\ \A n \in DOMAIN D : Rests(D[n], ss, os, n)
  BY FramedIs
<1>2. ASSUME NEW n \in DOMAIN D PROVE Rests(D[n], s2, o2, n)
  <2>1. n \in 1..Len(os) /\ Len(os) \in 0..3
    BY <1>1, TidyIs
  <2>2. Kept1(os[n]) \in 1..Len(ss) - 1
    BY <2>1, KeptIs
  <2>3. \A i \in 1..Kept1(os[n]) : i \in 1..Len(ss) - 1
    <3>1. Len(ss) \in Nat
      BY TidyIs
    <3> DEFINE a == Kept1(os[n])
               K == Len(ss)
    <3>2. a \in 1..K - 1 /\ K \in Nat
      BY <2>2, <3>1
    <3> HIDE DEF a, K
    <3>3. \A i \in 1..a : i \in 1..K - 1
      BY <3>2
    <3> QED
      BY <3>3 DEF a, K
  <2>4. \A m \in 1..n : m \in 1..Len(os)
    BY <2>1
  <2>5. n \in Nat
    BY <2>1
  <2>6. \A i \in 1..Kept1(os[n]) : ss[i] = s2[i]
    BY <2>3
  <2>7. \A m \in 1..n : os[m].range = o2[m].range
    BY <2>4
  <2> QED
    BY <1>1, <2>1, <2>5, <2>6, <2>7, RestsSame
<1>3. DOMAIN D = {n \in 1..Len(o2) : o2[n].kind # "block"}
  BY <1>1
<1> QED
  BY <1>1, <1>2, <1>3, FramedIs

\* A construct is opened; what is known of it is E, unless it is a block.
LEMMA FramedAdd ==
  ASSUME NEW ss, NEW os, Tidy(ss, os), NEW D, Framed(D, ss, os), NEW s2, NEW o2, NEW e, Opens(ss, os, s2, o2, e),
         NEW E, e.kind # "block" => Rests(E, s2, o2, Len(o2)),
         NEW D2, D2 = (IF e.kind = "block" THEN D ELSE With(D, Len(o2), E))
  PROVE  Framed(D2, s2, o2)
<1> DEFINE N == Len(o2)
<1>1. /\ D = [n \in DOMAIN D |-> D[n]]
      /\ DOMAIN D = {n \in 1..Len(os) : os[n].kind # "block"}
      /\ \A n \in DOMAIN D : Rests(D[n], ss, os, n)
  BY FramedIs
<1>2. /\ Len(os) \in Nat /\ N = Len(os) + 1 /\ (\A m \in 1..Len(os) : o2[m] = os[m]) /\ o2[N] = e
      /\ \A i \in 1..Len(ss) : s2[i] = ss[i]
  BY TidyIs DEF Opens
<1>3. /\ \A m : m \in 1..N <=> m \in 1..Len(os) \/ m = N
      /\ N \notin 1..Len(os)
  BY <1>2
<1>4. ASSUME NEW n \in DOMAIN D PROVE Rests(D[n], s2, o2, n) /\ n # N
  <2>1. n \in 1..Len(os) /\ Len(os) \in 0..3
    BY <1>1, TidyIs
  <2>2. Kept1(os[n]) \in 1..Len(ss) - 1
    BY <2>1, KeptIs
  <2>3. \A i \in 1..Kept1(os[n]) : i \in 1..Len(ss)
    <3>1. Len(ss) \in Nat
      BY TidyIs
    <3> DEFINE a == Kept1(os[n])
               K == Len(ss)
    <3>2. a \in 1..K - 1 /\ K \in Nat
      BY <2>2, <3>1
    <3> HIDE DEF a, K
    <3>3. \A i \in 1..a : i \in 1..K
      BY <3>2
    <3> QED
      BY <3>3 DEF a, K
  <2>4. \A m \in 1..n : m \in 1..Len(os)
    BY <2>1
  <2>5. n \in Nat
    BY <2>1
  <2>6. \A i \in 1..Kept1(os[n]) : ss[i] = s2[i]
    BY <1>2, <2>3
  <2>7. \A m \in 1..n : os[m].range = o2[m].range
    BY <1>2, <2>4
  <2>8. o2[n] = os[n]
    BY <1>2, <2>1
  <2>9. Kept1(o2[n]) = Kept1(os[n]) /\ (Loop(os[n]) <=> Loop(o2[n]))
    BY <2>8
  <2> QED
    BY <1>1, <1>3, <2>1, <2>5, <2>6, <2>7, <2>9, RestsSame
<1> HIDE DEF N
<1>5. CASE e.kind = "block"
  <2>1. DOMAIN D = {n \in 1..N : o2[n].kind # "block"}
    BY <1>1, <1>2, <1>3, <1>5
  <2>2. Framed(D, s2, o2)
    BY <1>1, <1>4, <2>1, FramedIs DEF N
  <2> QED
    BY <1>5, <2>2
<1>6. CASE e.kind # "block"
  <2>1. D2 = With(D, N, E)
    BY <1>6 DEF N
  <2>2. /\ DOMAIN D2 = DOMAIN D \cup {N} /\ D2[N] = E /\ (\A n \in DOMAIN D : n # N => D2[n] = D[n])
        /\ D2 = [n \in DOMAIN D2 |-> D2[n]]
    BY <2>1 DEF With
  <2>3. DOMAIN D2 = {n \in 1..N : o2[n].kind # "block"}
    BY <1>1, <1>2, <1>3, <1>6, <2>2
  <2>4. Rests(E, s2, o2, N)
    BY <1>6 DEF N
  <2>5. \A n \in DOMAIN D2 : Rests(D2[n], s2, o2, n)
    BY <1>4, <2>2, <2>4
  <2>6. Framed(D2, s2, o2)
    BY <2>2, <2>3, <2>5, FramedIs DEF N
  <2> QED
    BY <2>6
<1> QED
  BY <1>5, <1>6

\* A construct is closed.
LEMMA FramedDrop ==
  ASSUME NEW ss, NEW os, Tidy(ss, os), NEW D, Framed(D, ss, os), NEW s2, NEW o2, Closes(ss, os, s2, o2),
         NEW D2, D2 = (IF os[Len(os)].kind = "block" THEN D ELSE Less(D, {Len(os)}))
  PROVE  Framed(D2, s2, o2)
<1> DEFINE N == Len(os)
           M == Len(o2)
<1>1. /\ D = [n \in DOMAIN D |-> D[n]]
      /\ DOMAIN D = {n \in 1..N : os[n].kind # "block"}
      /\ \A n \in DOMAIN D : Rests(D[n], ss, os, n)
  BY FramedIs
<1>2. /\ N \in 0..3 /\ N # 0 /\ M = N - 1 /\ (\A m \in 1..M : o2[m] = os[m])
      /\ Len(s2) = os[N].outer /\ \A i \in 1..Len(s2) : s2[i] = ss[i]
  BY TidyIs DEF Closes
<1>3. /\ \A m : m \in 1..N <=> m \in 1..M \/ m = N
      /\ N \notin 1..M /\ N \in 1..N /\ \A m \in 1..M : m < N /\ m \in 1..N
  BY <1>2
<1>4. ASSUME NEW n \in DOMAIN D, n # N PROVE Rests(D[n], s2, o2, n)
  <2>1. n \in 1..M /\ n \in 1..N /\ n < N
    BY <1>1, <1>3, <1>4
  <2>2. os[n].outer \in Nat \ {0} /\ Width(os[n]) \in 1..2 /\ os[n].outer + Width(os[n]) <= os[N].outer /\ os[N].outer \in Nat
    <3>1. \A m, k \in 1..Len(os) : m < k => os[m].outer + Width(os[m]) <= os[k].outer
      BY DEF Tidy, Leveled
    <3> QED
      BY <1>3, <2>1, <3>1, TidyIs
  <2>3. \A i \in 1..Kept1(os[n]) : i \in 1..Len(s2)
    <3> DEFINE a == os[n].outer
               b == Width(os[n])
               K == Len(s2)
    <3>2. a \in Nat /\ b \in 1..2 /\ a + b <= K /\ K \in Nat
      BY <1>2, <2>2
    <3>k. Kept1(os[n]) = a + b - 1
      BY DEF Kept1
    <3> HIDE DEF a, b, K
    <3>3. \A i \in 1..a + b - 1 : i \in 1..K
      BY <3>2
    <3> QED
      BY <3>3, <3>k DEF K
  <2>4. \A m \in 1..n : m \in 1..M
    BY <1>2, <2>1
  <2>5. n \in Nat
    BY <2>1
  <2>6. \A i \in 1..Kept1(os[n]) : ss[i] = s2[i]
    BY <1>2, <2>3
  <2>7. \A m \in 1..n : os[m].range = o2[m].range
    BY <1>2, <2>4
  <2>8. o2[n] = os[n]
    BY <1>2, <2>1
  <2>9. Kept1(o2[n]) = Kept1(os[n]) /\ (Loop(os[n]) <=> Loop(o2[n]))
    BY <2>8
  <2> QED
    BY <1>1, <2>1, <2>5, <2>6, <2>7, <2>9, RestsSame
<1> HIDE DEF N, M
<1>5. CASE os[N].kind = "block"
  <2>1. DOMAIN D = {n \in 1..M : o2[n].kind # "block"}
    BY <1>1, <1>2, <1>3, <1>5
  <2>2. N \notin DOMAIN D
    BY <1>1, <1>5
  <2>3. \A n \in DOMAIN D : Rests(D[n], s2, o2, n)
    BY <1>4, <2>2
  <2>4. Framed(D, s2, o2)
    BY <1>1, <2>1, <2>3, FramedIs DEF M
  <2> QED
    BY <1>5, <2>4 DEF N
<1>6. CASE os[N].kind # "block"
  <2>1. D2 = Less(D, {N})
    BY <1>6 DEF N
  <2>2. /\ DOMAIN D2 = DOMAIN D \ {N} /\ (\A n \in DOMAIN D2 : D2[n] = D[n])
        /\ D2 = [n \in DOMAIN D2 |-> D2[n]]
    BY <2>1 DEF Less
  <2>3. DOMAIN D2 = {n \in 1..M : o2[n].kind # "block"}
    <3>1. \A n : n \in DOMAIN D2 <=> n \in 1..N /\ os[n].kind # "block" /\ n # N
      BY <1>1, <2>2
    <3>2. \A n : n \in 1..N /\ n # N <=> n \in 1..M
      BY <1>3
    <3>3. \A n : n \in DOMAIN D2 <=> n \in 1..M /\ o2[n].kind # "block"
      BY <1>2, <3>1, <3>2
    <3> QED
      BY <3>3
  <2>5. \A n \in DOMAIN D2 : Rests(D2[n], s2, o2, n)
    BY <1>4, <2>2
  <2>6. Framed(D2, s2, o2)
    BY <2>2, <2>3, <2>5, FramedIs DEF M
  <2> QED
    BY <2>6
<1> QED
  BY <1>5, <1>6

-----------------------------------------------------------------------------
\* The walk's actions, one by one.

LEMMA UnusedIs ==
  ASSUME NEW k \in {"leaf", "tree"}, NEW x, x \in Unused(k)
  PROVE  x \in Given1 \ Visible /\ KindOf(x) = k
<1> DEFINE names == IF k = "tree" THEN Trees ELSE Leaves
<1>1. PICK i \in DOMAIN names : x = names[i] /\ names[i] \notin Visible
  BY DEF Unused
<1>2. x \in ToSet(names)
  BY <1>1 DEF ToSet
<1>3. ToSet(Leaves) \cap ToSet(Trees) = {}
  BY NamesApart
<1>4. CASE k = "tree"
  BY <1>1, <1>2, <1>4 DEF Given1, KindOf
<1>5. CASE k = "leaf"
  BY <1>1, <1>2, <1>3, <1>5 DEF Given1, KindOf
<1> QED
  BY <1>4, <1>5

\* Where the code ends is what the scopes say.
LEMMA DrawnIs ==
  ASSUME NEW A, NEW D, Drawn(A, D)
  PROVE  Known(A) /\ Framed(D, scopes, open)
BY DEF Drawn, Known

\* Nothing but the code grows.
LEMMA StayedOn ==
  ASSUME Tidy(scopes, open), NEW A, NEW D, Drawn(A, D), NEW ss, Emit(ss), UNCHANGED <<scopes, open>>,
         NEW B, Course(ss, A, D, B, D), Left(B, Own(A), Twin(A), << >>)
  PROVE  Tidy(scopes', open') /\ DrawnOn(B, D)
<1>1. Written(code', owners', Also, Start, B, D)
  BY Extends
<1>2. Known(B) /\ Framed(D, scopes, open)
  BY DrawnIs, LeftKnown
<1>3. scopes' = scopes /\ open' = open
  OBVIOUS
<1> QED
  BY <1>1, <1>2, <1>3 DEF DrawnOn, Known

\* A variable is declared that owns, or whose rows do.
LEMMA DeclaredOn ==
  ASSUME Tidy(scopes, open), job \in Jobs, NEW A, NEW D, Drawn(A, D), NEW ss, Emit(ss),
         NEW x \in Given1 \ Visible, NEW o \in BOOLEAN, ~o => x \in ToSet(Trees),
         scopes' = Declared(x, o), open' = open,
         NEW B, Course(ss, A, D, B, D),
         NEW O, O = With(Own(A), x, IF o THEN KindOf(x) ELSE "frame"), Left(B, O, Twin(A), << >>)
  PROVE  Tidy(scopes', open') /\ DrawnOn(B, D)
<1> DEFINE v == ScopeVar(x, o)
           K == Len(scopes)
           s2 == Declared(x, o)
<1>1. Written(code', owners', Also, Start, B, D)
  BY Extends
<1>2. Known(A) /\ Framed(D, scopes, open)
  BY DrawnIs
<1>3. v \in Variables /\ v.name = x /\ v.owned = o
  BY NamesApart DEF ScopeVar, Variables
<1>4. x \notin HeldIn(scopes, K) /\ x \notin RangeVars
  BY VisibleIs, NamesApart
<1>5. Named(v)
  BY <1>3, <1>4 DEF Named, Given1, HeldIn
<1>6. /\ K \in Nat \ {0} /\ DOMAIN scopes = 1..K /\ scopes = [i \in 1..K |-> scopes[i]]
  BY TidyIs
<1>7. Longer(scopes, v, s2)
  <2>1. s2 = [i \in 1..K |-> IF i = K THEN Append(scopes[K], v) ELSE scopes[i]]
    BY <1>6 DEF Declared
  <2> HIDE DEF s2, v
  <2>2. DOMAIN s2 = 1..K /\ Len(s2) = K
    BY <1>6, <2>1
  <2>3. \A i \in 1..K - 1 : s2[i] = scopes[i]
    BY <1>6, <2>1
  <2>4. s2[K] = Append(scopes[K], v)
    BY <1>6, <2>1
  <2>5. s2 = [i \in 1..K |-> s2[i]]
    BY <2>1, <2>2
  <2> QED
    BY <2>2, <2>3, <2>4, <2>5 DEF Longer
<1> HIDE DEF v, s2
<1>8. Tidy(s2, open) /\ VarsIn(s2, Len(s2)) = VarsIn(scopes, Len(scopes)) \cup {v}
  BY <1>3, <1>4, <1>5, <1>7, DeclareTidy
<1>9. Len(s2) = K /\ \A i \in 1..K - 1 : scopes[i] = s2[i]
  BY <1>7 DEF Longer
<1>10. Framed(D, s2, open)
  <2>1. \A m \in 1..Len(open) : /\ open[m].range = open[m].range /\ Kept1(open[m]) = Kept1(open[m])
                               /\ (Loop(open[m]) <=> Loop(open[m]))
                               /\ (open[m].kind = "block" <=> open[m].kind = "block")
    OBVIOUS
  <2> QED
    BY <1>2, <1>9, <2>1, FramedSame
<1>11. Shaped(A, scopes, K, open, Len(open))
  BY <1>2, ShapeIs DEF Known
<1>12. /\ DOMAIN O = DOMAIN Own(A) \cup {x} /\ O[x] = (IF o THEN KindOf(x) ELSE "frame")
       /\ \A y \in DOMAIN Own(A) : y # x => O[y] = Own(A)[y]
       /\ O = [y \in DOMAIN O |-> O[y]]
  <2> DEFINE f == Own(A)
             k == IF o THEN KindOf(x) ELSE "frame"
  <2> HIDE DEF f, k
  <2>1. O = With(f, x, k)
    BY DEF f, k
  <2>2. /\ DOMAIN O = DOMAIN f \cup {x} /\ O[x] = k
        /\ \A y \in DOMAIN f : y # x => O[y] = f[y]
        /\ O = [y \in DOMAIN O |-> O[y]]
    BY <2>1 DEF With
  <2> QED
    BY <2>2 DEF f, k
<1>13. SortOf(v) = O[x]
  BY <1>3, <1>4, <1>12 DEF SortOf, KindOf
<1>14. OwnsScopes(B, s2, K)
  <2>1. HeldIn(s2, K) = HeldIn(scopes, K) \cup {x}
    BY <1>3, <1>8, <1>9 DEF HeldIn
  <2>2. Own(B) = O
    BY DEF Left
  <2>3. DOMAIN O = HeldIn(s2, K)
    BY <1>11, <1>12, <2>1 DEF Shaped
  <2>4. \A u \in VarsIn(s2, K) : O[u.name] = SortOf(u)
    <3>1. O[v.name] = SortOf(v)
      BY <1>3, <1>13
    <3>2. ASSUME NEW u \in VarsIn(scopes, K) PROVE O[u.name] = SortOf(u)
      <4>1. u.name \in HeldIn(scopes, K) /\ u.name # x
        BY <1>4 DEF HeldIn
      <4>2. u.name \in DOMAIN Own(A) /\ Own(A)[u.name] = SortOf(u)
        BY <1>11, <4>1 DEF Shaped
      <4> QED
        BY <1>12, <4>1, <4>2
    <3>3. VarsIn(s2, K) = VarsIn(scopes, K) \cup {v}
      BY <1>8, <1>9
    <3> QED
      BY <3>1, <3>2, <3>3
  <2>5. \A y \in Also : O[y] = KindOf(y)
    <3>1. \A y \in Also : y \in HeldIn(scopes, K) /\ y # x
      BY <1>4 DEF HeldIn
    <3> QED
      BY <1>11, <1>12, <3>1 DEF Shaped
  <2>6. O = [y \in HeldIn(s2, K) |-> O[y]]
    BY <1>12, <2>3
  <2> QED
    BY <2>2, <2>4, <2>5, <2>6 DEF OwnsScopes
<1>15. WalksRanges(B, open, Len(open)) /\ AtRest(B)
  BY <1>11 DEF Shaped, Left, WalksRanges, AtRest
<1>16. Shape(B, s2, K, open, Len(open))
  BY <1>14, <1>15 DEF Shape
<1>17. scopes' = s2 /\ open' = open
  BY DEF s2
<1> QED
  BY <1>1, <1>8, <1>9, <1>10, <1>16, <1>17 DEF DrawnOn

-----------------------------------------------------------------------------
\* One statement, from owners O and twins T to what it leaves.

Says(s, op, to, from) == s.op = op /\ s.to = to /\ s.from = from /\ s.args = << >>
\* What the statements say that Stm makes.
LEMMA StmSays ==
  ASSUME NEW op, NEW to, NEW from
  PROVE  /\ Says(Stm(op, to, from), op, to, from) /\ Stm(op, to, from).nest = Len(open)
         /\ \A k : Says([Stm(op, to, from) EXCEPT !.kind = k], op, to, from)
         /\ \A n : Says([Stm(op, to, from) EXCEPT !.nest = n], op, to, from)
BY DEF Says, Stm
\* What the statements say that build a variable's block.
LEMMA BuildSays ==
  ASSUME NEW op, NEW to, NEW k
  PROVE  Says(Build(op, to, k), op, to, << >>) /\ Build(op, to, k).kind = k
BY DEF Says, Stm, Build

Passing(s, A, C, O, T, hole) == \E B : Course(<<s>>, A, C, B, C) /\ Left(B, O, T, hole)
\* A statement whose effect is known passes from the one point to the other.
LEMMA PassingBy ==
  ASSUME NEW s, NEW A, NEW C, NEW B, Effect(s, A, B), NEW O, NEW T, NEW hole, Left(B, O, T, hole)
  PROVE  Passing(s, A, C, O, T, hole)
<1>1. Flow(s, A, C, B, C)
  BY CourseEffect
<1>2. Course(<<s>>, A, C, B, C)
  BY <1>1, CourseOne
<1> QED
  BY <1>2 DEF Passing

\* The locations at a point that owns O.
LEMMA LeftLocated ==
  ASSUME NEW A, NEW O, NEW T, NEW hole, Left(A, O, T, hole), NEW l
  PROVE  /\ InO(O, l) => Located(A, l)
         /\ hole = << >> => OutsideHole(A, l)
         /\ l[1] # hole[1] => OutsideHole(A, l)
         /\ SortAt(A, l) = IF Len(l) = 2 THEN "leaf" ELSE O[l[1]]
         /\ \A x \in Names : x \notin DOMAIN O /\ x \notin DOMAIN T => IsFree(A, x)
<1>1. Own(A) = O /\ HoleOf(A) = hole /\ DOMAIN Twin(A) = DOMAIN T
  BY DEF Left
<1>2. InO(O, l) => Located(A, l)
  BY <1>1 DEF InO, Located, HasRows
<1>3. (hole = << >> => OutsideHole(A, l)) /\ (l[1] # hole[1] => OutsideHole(A, l))
  BY <1>1 DEF OutsideHole
<1>4. SortAt(A, l) = IF Len(l) = 2 THEN "leaf" ELSE O[l[1]]
  BY <1>1 DEF SortAt
<1>5. \A x \in Names : x \notin DOMAIN O /\ x \notin DOMAIN T => IsFree(A, x)
  BY <1>1 DEF IsFree
<1> QED
  BY <1>2, <1>3, <1>4, <1>5

\* A name gets a new block.
LEMMA LeftCreate ==
  ASSUME NEW A, NEW O, NEW T, NEW hole, Left(A, O, T, hole), NEW C,
         NEW x, x \in Names, x \notin DOMAIN O, x \notin DOMAIN T,
         NEW op \in {"new", "frame"}, NEW k \in {"leaf", "tree"}, op = "frame" => k = "tree",
         NEW s, Says(s, op, <<x>>, << >>), s.kind = k,
         NEW P, P = With(O, x, IF op = "frame" THEN "frame" ELSE k)
  PROVE  Passing(s, A, C, P, T, hole)
<1> DEFINE m == IF op = "frame" THEN "frame" ELSE k
           B == Owns(A, x, m)
<1>1. IsFree(A, x)
  BY LeftLocated
<1>2. s.op = op /\ s.to = <<x>> /\ s.from = << >> /\ s.args = << >>
  BY DEF Says
<1>3. Creates(s, A, B)
  BY <1>1, <1>2 DEF Creates
<1>4. OwnMade(A, x, m, B)
  BY OwnsIs
<1> HIDE DEF B
<1>5. Own(B) = With(Own(A), x, m) /\ Twin(B) = Twin(A) /\ HoleOf(B) = HoleOf(A) /\ Fill(B) = Fill(A) /\ Turns(B) = Turns(A)
  BY <1>4 DEF OwnMade
<1>6. Own(A) = O
  BY DEF Left
<1>7. Own(B) = P
  BY <1>5, <1>6
<1>8. Left(B, P, T, hole)
  BY <1>5, <1>7 DEF Left
<1>9. Effect(s, A, B)
  BY <1>3 DEF Effect
<1> QED
  BY <1>8, <1>9, PassingBy

\* A temporary reads an owner's pointer.
LEMMA LeftTwin ==
  ASSUME NEW A, NEW O, NEW T, Left(A, O, T, << >>), NEW C,
         NEW x, x \in Names, x \notin DOMAIN O, x \notin DOMAIN T, NEW l, InO(O, l),
         NEW s, Says(s, "mov", <<x>>, l), NEW V, V = With(T, x, l)
  PROVE  Passing(s, A, C, O, V, << >>)
<1> DEFINE B == Twins(A, x, l)
<1>1. IsFree(A, x) /\ Located(A, l) /\ OutsideHole(A, l)
  BY LeftLocated
<1>2. s.op = "mov" /\ s.to = <<x>> /\ s.from = l /\ s.args = << >>
  BY DEF Says
<1>3. MakesTwin(s, A, B)
  BY <1>1, <1>2 DEF MakesTwin
<1>4. TwinMade(A, x, l, B)
  BY TwinsIs
<1> HIDE DEF B
<1>5. /\ Own(B) = Own(A) /\ DOMAIN Twin(B) = DOMAIN Twin(A) \cup {x}
      /\ Twin(B)[x] = l /\ \A u \in DOMAIN Twin(A) : u # x => Twin(B)[u] = Twin(A)[u]
      /\ HoleOf(B) = HoleOf(A) /\ Fill(B) = Fill(A) /\ Turns(B) = Turns(A)
  BY <1>4 DEF TwinMade
<1>6. DOMAIN V = DOMAIN T \cup {x} /\ V[x] = l /\ \A u \in DOMAIN T : u # x => V[u] = T[u]
  BY DEF With
<1>7. Left(B, O, V, << >>)
  BY <1>5, <1>6 DEF Left
<1>8. Effect(s, A, B)
  BY <1>3 DEF Effect
<1> QED
  BY <1>7, <1>8, PassingBy

\* A name takes over what another one owns.
LEMMA LeftHands ==
  ASSUME NEW A, NEW O, NEW T, Left(A, O, T, << >>), NEW C,
         NEW x, x \in Names, x \notin DOMAIN O, x \notin DOMAIN T, NEW y \in DOMAIN O, \A u \in DOMAIN T : T[u][1] # y,
         NEW s, Says(s, "mov", <<x>>, <<y>>), NEW R, R = Less(O, {y}), NEW P, P = With(R, x, O[y])
  PROVE  Passing(s, A, C, P, T, << >>)
<1> DEFINE k == O[y]
           W == Without(A, {y})
           B == Owns(W, x, k)
<1>1. IsFree(A, x) /\ Own(A) = O /\ HoleOf(A) = << >>
  BY LeftLocated DEF Left
<1>2. s.op = "mov" /\ s.to = <<x>> /\ s.from = <<y>> /\ s.args = << >>
  BY DEF Says
<1>3. HandsOver(s, A, B)
  BY <1>1, <1>2 DEF HandsOver
<1>4. Gone(A, W, {y})
  BY WithoutGone
<1> HIDE DEF W, k
<1>5. OwnMade(W, x, k, B)
  BY OwnsIs
<1> HIDE DEF B
<1>6. Own(B) = With(Own(W), x, k) /\ Twin(B) = Twin(W) /\ HoleOf(B) = HoleOf(W) /\ Fill(B) = Fill(W) /\ Turns(B) = Turns(W)
  BY <1>5 DEF OwnMade
<1>7. /\ Own(W) = Less(Own(A), {y})
      /\ DOMAIN Twin(W) = {u \in DOMAIN Twin(A) : Twin(A)[u][1] \notin {y}}
      /\ \A u \in DOMAIN Twin(W) : Twin(W)[u] = Twin(A)[u]
      /\ HoleOf(W) = HoleOf(A) /\ Fill(W) = Fill(A) /\ Turns(W) = Turns(A)
  BY <1>4 DEF Gone
<1>8. Own(B) = P
  BY <1>1, <1>6, <1>7 DEF k
<1>9. DOMAIN Twin(A) = DOMAIN T /\ (\A u \in DOMAIN T : Twin(A)[u] = T[u]) /\ Fill(A) = << >> /\ Turns(A) = {}
  BY DEF Left
<1>10. DOMAIN Twin(W) = DOMAIN T
  <2>1. \A u \in DOMAIN Twin(A) : Twin(A)[u][1] # y
    BY <1>9
  <2>2. DOMAIN Twin(W) = DOMAIN Twin(A)
    BY <1>7, <2>1
  <2> QED
    BY <1>9, <2>2
<1>11. Left(B, P, T, << >>)
  BY <1>1, <1>6, <1>7, <1>8, <1>9, <1>10 DEF Left
<1>12. Effect(s, A, B)
  BY <1>3 DEF Effect
<1> QED
  BY <1>11, <1>12, PassingBy

\* What a temporary has read is reset, and the temporary owns it.
LEMMA LeftEmpty ==
  ASSUME NEW A, NEW O, NEW T, Left(A, O, T, << >>), NEW C,
         NEW t \in DOMAIN T, NEW l, T[t] = l, InO(O, l), Len(l) # 2 => O[l[1]] # "frame",
         \A u \in DOMAIN T : u # t => T[u][1] # l[1] \/ (Len(T[u]) = 1 /\ Len(l) = 2),
         NEW s, Says(s, "null", l, << >>), NEW k, k = (IF Len(l) = 2 THEN "leaf" ELSE O[l[1]]),
         NEW P, P = With(O, t, k), NEW V, V = Less(T, {t})
  PROVE  Passing(s, A, C, P, V, << >>)
<1> DEFINE m == SortAt(A, l)
           B == Owns(Point(Own(A), Less(Twin(A), {t}), HoleOf(A), Fill(A), Turns(A)), t, m)
<1>1. Located(A, l) /\ OutsideHole(A, l) /\ m = k
  BY LeftLocated
<1>2. s.op = "null" /\ s.to = l /\ s.from = << >> /\ s.args = << >>
  BY DEF Says
<1>3. /\ Own(A) = O /\ DOMAIN Twin(A) = DOMAIN T /\ (\A u \in DOMAIN T : Twin(A)[u] = T[u])
      /\ HoleOf(A) = << >> /\ Fill(A) = << >> /\ Turns(A) = {}
  BY DEF Left
<1>4. Undisturbed(A, l, t)
  BY <1>3 DEF Undisturbed
<1>5. SortAt(A, l) # "frame"
  BY <1>1
<1>6. EmptiesTwin(s, A, B)
  BY <1>1, <1>2, <1>3, <1>4, <1>5 DEF EmptiesTwin
<1> HIDE DEF m
<1>7. Overtaken(A, t, m, B)
  BY OvertakenIs
<1>o. OwnMade(Point(Own(A), Less(Twin(A), {t}), HoleOf(A), Fill(A), Turns(A)), t, m, B)
  <2> DEFINE Q == Point(Own(A), Less(Twin(A), {t}), HoleOf(A), Fill(A), Turns(A))
  <2> HIDE DEF Q
  <2>1. B = Owns(Q, t, m)
    BY DEF Q
  <2> HIDE DEF B
  <2>2. OwnMade(Q, t, m, B)
    BY <2>1, OwnsIs
  <2> QED
    BY <2>2 DEF Q
<1> HIDE DEF B
<1>8. /\ DOMAIN Own(B) = DOMAIN Own(A) \cup {t} /\ Own(B)[t] = m
      /\ \A y \in DOMAIN Own(A) : y # t => Own(B)[y] = Own(A)[y]
      /\ Own(B) = [y \in DOMAIN Own(B) |-> Own(B)[y]]
      /\ DOMAIN Twin(B) = DOMAIN Twin(A) \ {t} /\ \A u \in DOMAIN Twin(B) : Twin(B)[u] = Twin(A)[u]
      /\ HoleOf(B) = HoleOf(A) /\ Fill(B) = Fill(A) /\ Turns(B) = Turns(A)
  BY <1>7 DEF Overtaken
<1>9. Own(B) = P
  <2>1. DOMAIN P = DOMAIN O \cup {t} /\ P[t] = k /\ (\A y \in DOMAIN O : y # t => P[y] = O[y]) /\ P = [y \in DOMAIN P |-> P[y]]
    BY DEF With
  <2>2. DOMAIN P = DOMAIN Own(B) /\ \A y \in DOMAIN P : P[y] = Own(B)[y]
    BY <1>1, <1>3, <1>8, <2>1
  <2> QED
    BY <1>8, <2>1, <2>2
<1>10. DOMAIN V = DOMAIN T \ {t} /\ \A u \in DOMAIN V : V[u] = T[u]
  BY DEF Less
<1>11. Left(B, P, V, << >>)
  BY <1>3, <1>8, <1>9, <1>10, ZenonT(30) DEF Left
<1>12. Effect(s, A, B)
  BY <1>6 DEF Effect
<1> QED
  BY <1>11, <1>12, PassingBy

\* A variable is released.
LEMMA LeftFrees ==
  ASSUME NEW A, NEW O, NEW T, Left(A, O, T, << >>), NEW C,
         NEW x \in DOMAIN O, O[x] # "frame", \A u \in DOMAIN T : T[u][1] # x,
         NEW s, Says(s, "free", <<x>>, << >>), NEW P, P = Less(O, {x})
  PROVE  Passing(s, A, C, P, T, << >>)
<1> DEFINE W == Without(A, {x})
<1>1. /\ Own(A) = O /\ DOMAIN Twin(A) = DOMAIN T /\ (\A u \in DOMAIN T : Twin(A)[u] = T[u])
      /\ HoleOf(A) = << >> /\ Fill(A) = << >> /\ Turns(A) = {}
  BY DEF Left
<1>2. s.op = "free" /\ s.to = <<x>> /\ s.from = << >> /\ s.args = << >>
  BY DEF Says
<1>3. FreesOwner(s, A, W)
  BY <1>1, <1>2 DEF FreesOwner
<1>4. Gone(A, W, {x})
  BY WithoutGone
<1> HIDE DEF W
<1>5. /\ Own(W) = Less(Own(A), {x})
      /\ DOMAIN Twin(W) = {u \in DOMAIN Twin(A) : Twin(A)[u][1] \notin {x}}
      /\ \A u \in DOMAIN Twin(W) : Twin(W)[u] = Twin(A)[u]
      /\ HoleOf(W) = HoleOf(A) /\ Fill(W) = Fill(A) /\ Turns(W) = Turns(A)
  BY <1>4 DEF Gone
<1>6. DOMAIN Twin(W) = DOMAIN T
  BY <1>1, <1>5, ZenonT(30)
<1>7. Left(W, P, T, << >>)
  BY <1>1, <1>5, <1>6 DEF Left
<1>8. Effect(s, A, W)
  BY <1>3 DEF Effect
<1> QED
  BY <1>7, <1>8, PassingBy

\* A row is released.
LEMMA LeftFreesRow ==
  ASSUME NEW A, NEW O, NEW T, Left(A, O, T, << >>), NEW C,
         NEW l, InO(O, l), Len(l) = 2, \A u \in DOMAIN T : Len(T[u]) = 1,
         NEW s, Says(s, "free", l, << >>)
  PROVE  Passing(s, A, C, O, T, l)
<1> DEFINE B == Hole(A, l, << >>)
<1>1. /\ Own(A) = O /\ DOMAIN Twin(A) = DOMAIN T /\ (\A u \in DOMAIN T : Twin(A)[u] = T[u])
      /\ HoleOf(A) = << >> /\ Fill(A) = << >> /\ Turns(A) = {}
  BY DEF Left
<1>2. s.op = "free" /\ s.to = l /\ s.from = << >> /\ s.args = << >>
  BY DEF Says
<1>3. Located(A, l)
  BY LeftLocated
<1>4. OfOwners(A)
  BY <1>1 DEF OfOwners
<1>5. FreesRow(s, A, B)
  BY <1>1, <1>2, <1>3, <1>4 DEF FreesRow
<1>6. Own(B) = Own(A) /\ Twin(B) = Twin(A) /\ HoleOf(B) = l /\ Fill(B) = << >> /\ Turns(B) = Turns(A)
  BY PointIs DEF Hole
<1> HIDE DEF B
<1>7. Left(B, O, T, l)
  BY <1>1, <1>6 DEF Left
<1>8. Effect(s, A, B)
  BY <1>5 DEF Effect
<1> QED
  BY <1>7, <1>8, PassingBy

\* A variable's data is overwritten with another's.
LEMMA LeftCopies ==
  ASSUME NEW A, NEW O, NEW T, Left(A, O, T, << >>), NEW C,
         NEW x \in DOMAIN O, NEW l, InO(O, l), NEW s, Says(s, "copy", <<x>>, l)
  PROVE  Passing(s, A, C, O, T, << >>)
<1> DEFINE B == Point(Own(A), Twin(A), HoleOf(A), Fill(A), {})
<1>1. /\ Own(A) = O /\ DOMAIN Twin(A) = DOMAIN T /\ (\A u \in DOMAIN T : Twin(A)[u] = T[u])
      /\ HoleOf(A) = << >> /\ Fill(A) = << >> /\ Turns(A) = {}
  BY DEF Left
<1>2. s.op = "copy" /\ s.to = <<x>> /\ s.from = l /\ s.args = << >>
  BY DEF Says
<1>3. Located(A, l) /\ OutsideHole(A, l) /\ OutsideHole(A, <<x>>)
  BY LeftLocated
<1>4. Copies(s, A, B)
  BY <1>1, <1>2, <1>3 DEF Copies
<1>5. Own(B) = Own(A) /\ Twin(B) = Twin(A) /\ HoleOf(B) = HoleOf(A) /\ Fill(B) = Fill(A) /\ Turns(B) = {}
  BY PointIs
<1> HIDE DEF B
<1>6. Left(B, O, T, << >>)
  BY <1>1, <1>5 DEF Left
<1>7. Effect(s, A, B)
  BY <1>4 DEF Effect
<1> QED
  BY <1>6, <1>7, PassingBy
=============================================================================
