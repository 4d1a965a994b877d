--------------------------- MODULE OwnershipProofs ---------------------------
(***************************************************************************)
(* The ownership of blocks, for every set of jobs, every name and every    *)
(* bound: the code the analyzer writes for a function releases each block  *)
(* once and in time.  Each action of the walk is shown to extend the code  *)
(* by a piece that leads to the point the scopes tell (the ...Walks        *)
(* lemmas); the code of a finished function then takes every run from one  *)
(* point to the next, and IInv, which puts the two phases together, is     *)
(* inductive.  The theorems at the end read the properties off it.         *)
(***************************************************************************)
EXTENDS OwnedScopesProofs

-----------------------------------------------------------------------------
\* Declarations.

WalksOn == Tidy(scopes', open') /\ \E B, D : DrawnOn(B, D)

\* Short sequences, one statement longer.
LEMMA Last2 ==
  ASSUME NEW s1, NEW s2
  PROVE  <<s1>> \o <<s2>> = <<s1, s2>>
<1> DEFINE S == {s1, s2}
           a == <<s1>>
           b == <<s2>>
           u == a \o b
           w == <<s1, s2>>
<1>1. a \in Seq(S) /\ b \in Seq(S) /\ w \in Seq(S)
  OBVIOUS
<1>2. /\ Len(a) = 1 /\ Len(b) = 1 /\ Len(w) = 2 /\ b[1] = s2
      /\ a[1] = s1
      /\ w[1] = s1 /\ w[2] = s2
  OBVIOUS
<1> HIDE DEF a, b, S
<1>3. /\ u \in Seq(S) /\ Len(u) = Len(a) + Len(b)
      /\ \A i \in 1..Len(a) : u[i] = a[i]
      /\ \A i \in 1..Len(b) : u[Len(a) + i] = b[i]
  BY <1>1, JoinedIs
<1> HIDE DEF u, w
<1>4. Len(u) = 2 /\ u[1] = s1
  <2>1. 1 \in 1..1
    OBVIOUS
  <2> QED
    BY <1>2, <1>3, <2>1
<1>5. u[2] = s2
  <2>1. 1 \in 1..1 /\ 1 + 1 = 2
    OBVIOUS
  <2>2. u[1 + 1] = b[1]
    BY <1>2, <1>3, <2>1
  <2> QED
    BY <1>2, <2>1, <2>2
<1>6. \A i \in 1..2 : u[i] = w[i]
  <2>1. \A i \in 1..2 : i = 1 \/ i = 2
    OBVIOUS
  <2> QED
    BY <1>2, <1>4, <1>5, <2>1
<1>7. u = w
  BY <1>1, <1>2, <1>3, <1>4, <1>6
<1> QED
  BY <1>7 DEF u, w, a, b

\* ... three, ...
LEMMA Last3 ==
  ASSUME NEW s1, NEW s2, NEW s3
  PROVE  <<s1, s2>> \o <<s3>> = <<s1, s2, s3>>
<1> DEFINE S == {s1, s2, s3}
           a == <<s1, s2>>
           b == <<s3>>
           u == a \o b
           w == <<s1, s2, s3>>
<1>1. a \in Seq(S) /\ b \in Seq(S) /\ w \in Seq(S)
  OBVIOUS
<1>2. /\ Len(a) = 2 /\ Len(b) = 1 /\ Len(w) = 3 /\ b[1] = s3
      /\ a[1] = s1 /\ a[2] = s2
      /\ w[1] = s1 /\ w[2] = s2 /\ w[3] = s3
  OBVIOUS
<1> HIDE DEF a, b, S
<1>3. /\ u \in Seq(S) /\ Len(u) = Len(a) + Len(b)
      /\ \A i \in 1..Len(a) : u[i] = a[i]
      /\ \A i \in 1..Len(b) : u[Len(a) + i] = b[i]
  BY <1>1, JoinedIs
<1> HIDE DEF u, w
<1>4. Len(u) = 3 /\ u[1] = s1 /\ u[2] = s2
  <2>1. 1 \in 1..2 /\ 2 \in 1..2
    OBVIOUS
  <2> QED
    BY <1>2, <1>3, <2>1
<1>5. u[3] = s3
  <2>1. 1 \in 1..1 /\ 2 + 1 = 3
    OBVIOUS
  <2>2. u[2 + 1] = b[1]
    BY <1>2, <1>3, <2>1
  <2> QED
    BY <1>2, <2>1, <2>2
<1>6. \A i \in 1..3 : u[i] = w[i]
  <2>1. \A i \in 1..3 : i = 1 \/ i = 2 \/ i = 3
    OBVIOUS
  <2> QED
    BY <1>2, <1>4, <1>5, <2>1
<1>7. u = w
  BY <1>1, <1>2, <1>3, <1>4, <1>6
<1> QED
  BY <1>7 DEF u, w, a, b

\* ... four.
LEMMA Last4 ==
  ASSUME NEW s1, NEW s2, NEW s3, NEW s4
  PROVE  <<s1, s2, s3>> \o <<s4>> = <<s1, s2, s3, s4>>
<1> DEFINE S == {s1, s2, s3, s4}
           a == <<s1, s2, s3>>
           b == <<s4>>
           u == a \o b
           w == <<s1, s2, s3, s4>>
<1>1. a \in Seq(S) /\ b \in Seq(S) /\ w \in Seq(S)
  OBVIOUS
<1>2. /\ Len(a) = 3 /\ Len(b) = 1 /\ Len(w) = 4 /\ b[1] = s4
      /\ a[1] = s1 /\ a[2] = s2 /\ a[3] = s3
      /\ w[1] = s1 /\ w[2] = s2 /\ w[3] = s3 /\ w[4] = s4
  OBVIOUS
<1> HIDE DEF a, b, S
<1>3. /\ u \in Seq(S) /\ Len(u) = Len(a) + Len(b)
      /\ \A i \in 1..Len(a) : u[i] = a[i]
      /\ \A i \in 1..Len(b) : u[Len(a) + i] = b[i]
  BY <1>1, JoinedIs
<1> HIDE DEF u, w
<1>4. Len(u) = 4 /\ u[1] = s1 /\ u[2] = s2 /\ u[3] = s3
  <2>1. 1 \in 1..3 /\ 2 \in 1..3 /\ 3 \in 1..3
    OBVIOUS
  <2> QED
    BY <1>2, <1>3, <2>1
<1>5. u[4] = s4
  <2>1. 1 \in 1..1 /\ 3 + 1 = 4
    OBVIOUS
  <2>2. u[3 + 1] = b[1]
    BY <1>2, <1>3, <2>1
  <2> QED
    BY <1>2, <2>1, <2>2
<1>6. \A i \in 1..4 : u[i] = w[i]
  <2>1. \A i \in 1..4 : i = 1 \/ i = 2 \/ i = 3 \/ i = 4
    OBVIOUS
  <2> QED
    BY <1>2, <1>4, <1>5, <2>1
<1>7. u = w
  BY <1>1, <1>2, <1>3, <1>4, <1>6
<1> QED
  BY <1>7 DEF u, w, a, b

\* Three statements.
LEMMA ThreeCourse ==
  ASSUME NEW s, NEW t, NEW u, NEW A, NEW C, NEW A1, NEW A2, NEW B,
         Course(<<s>>, A, C, A1, C), Course(<<t>>, A1, C, A2, C), Course(<<u>>, A2, C, B, C)
  PROVE  Course(<<s, t, u>>, A, C, B, C)
<1> DEFINE s1 == <<s>>
           t1 == <<t>>
           u1 == <<u>>
           st == s1 \o t1
<1>1. st \o u1 = <<s, t, u>>
  <2>1. <<s>> \o <<t>> = <<s, t>>
    BY Last2
  <2>2. <<s, t>> \o <<u>> = <<s, t, u>>
    BY Last3
  <2> QED
    BY <2>1, <2>2
<1> HIDE DEF s1, t1, u1
<1>2. Course(st, A, C, A2, C)
  <2>1. Course(s1, A, C, A1, C) /\ Course(t1, A1, C, A2, C)
    BY DEF s1, t1
  <2> QED
    BY <2>1, CourseThen
<1>3. Course(u1, A2, C, B, C)
  BY DEF u1
<1> HIDE DEF st
<1>4. Course(st \o u1, A, C, B, C)
  BY <1>2, <1>3, CourseThen
<1> QED
  BY <1>1, <1>4

\* A name not yet declared owns nothing and reads nothing.
LEMMA UnusedFree ==
  ASSUME NEW A, Sighted(A), NEW x \in Given1 \ Visible
  PROVE  /\ x \in Names /\ x \notin DOMAIN Own(A) /\ x \notin DOMAIN Twin(A)
         /\ \A i \in 1..3 : x # Temp(i)
<1>1. \A i \in 1..3 : Temp(i) \notin Given1
  BY NamesApart
<1>2. Given1 \subseteq Names
  BY NamesApart
<1>3. x \notin DOMAIN Own(A) \cup DOMAIN Twin(A)
  BY DEF Sighted
<1> QED
  BY <1>1, <1>2, <1>3

\* A variable is declared, and its block is made where it is.
LEMMA DeclareWalks ==
  ASSUME Tidy(scopes, open), job \in Jobs, NEW A, NEW D, Drawn(A, D),
         NEW k \in {"leaf", "tree"}, NEW x, x \in Unused(k), Declare(k, x)
  PROVE  WalksOn
<1> DEFINE s == Build("new", <<x>>, k)
           O == Own(A)
           T == Twin(A)
           P == With(O, x, k)
<1>1. Sighted(A)
  BY DrawnIs, KnownIs
<1>2. x \in Given1 \ Visible /\ KindOf(x) = k
  BY UnusedIs
<1>3. x \in Names /\ x \notin DOMAIN O /\ x \notin DOMAIN T
  BY <1>1, <1>2, UnusedFree
<1>4. Says(s, "new", <<x>>, << >>) /\ s.kind = k
  BY BuildSays
<1>5. Left(A, O, T, << >>)
  BY <1>1, KnownLeft
<1>6. Emit(<<s>>) /\ scopes' = Declared(x, TRUE) /\ open' = open
  BY DEF Declare
<1>7. P = With(O, x, IF "new" = "frame" THEN "frame" ELSE k) /\ P = With(O, x, IF TRUE THEN KindOf(x) ELSE "frame")
  BY <1>2
<1> HIDE DEF s, O, P, T
<1>8. Passing(s, A, D, P, T, << >>)
  BY <1>3, <1>4, <1>5, <1>7, LeftCreate
<1>9. PICK B : Course(<<s>>, A, D, B, D) /\ Left(B, P, T, << >>)
  BY <1>8 DEF Passing
<1>10. Tidy(scopes', open') /\ DrawnOn(B, D)
  BY <1>2, <1>6, <1>7, <1>9, DeclaredOn DEF O, T
<1> QED
  BY <1>10 DEF WalksOn

\* A variable is declared whose block is in the function's frame.
LEMMA FrameWalks ==
  ASSUME Tidy(scopes, open), job \in Jobs, NEW A, NEW D, Drawn(A, D),
         NEW x, x \in Unused("tree"), DeclareInFrame(x)
  PROVE  WalksOn
<1> DEFINE s == Build("frame", <<x>>, "tree")
           O == Own(A)
           T == Twin(A)
           P == With(O, x, "frame")
<1>1. Sighted(A)
  BY DrawnIs, KnownIs
<1>2. x \in Given1 \ Visible /\ KindOf(x) = "tree"
  <2> DEFINE k == "tree"
  <2>1. k \in {"leaf", "tree"} /\ x \in Unused(k)
    OBVIOUS
  <2>2. x \in Given1 \ Visible /\ KindOf(x) = k
    BY <2>1, UnusedIs
  <2> QED
    BY <2>2
<1>t. x \in ToSet(Trees)
  BY <1>2 DEF KindOf
<1>3. x \in Names /\ x \notin DOMAIN O /\ x \notin DOMAIN T
  BY <1>1, <1>2, UnusedFree
<1>4. Says(s, "frame", <<x>>, << >>) /\ s.kind = "tree"
  BY BuildSays
<1>5. Left(A, O, T, << >>)
  BY <1>1, KnownLeft
<1>6. Emit(<<s>>) /\ scopes' = Declared(x, FALSE) /\ open' = open
  BY DEF DeclareInFrame
<1>7. P = With(O, x, IF "frame" = "frame" THEN "frame" ELSE "tree") /\ P = With(O, x, IF FALSE THEN KindOf(x) ELSE "frame")
  OBVIOUS
<1> HIDE DEF s, O, P, T
<1>8. Passing(s, A, D, P, T, << >>)
  BY <1>3, <1>4, <1>5, <1>7, LeftCreate
<1>9. PICK B : Course(<<s>>, A, D, B, D) /\ Left(B, P, T, << >>)
  BY <1>8 DEF Passing
<1>10. Tidy(scopes', open') /\ DrawnOn(B, D)
  BY <1>2, <1>t, <1>6, <1>7, <1>9, DeclaredOn DEF O, T
<1> QED
  BY <1>10 DEF WalksOn

\* Owners and twins may be named otherwise.
LEMMA LeftSame ==
  ASSUME NEW B, NEW O, NEW T, NEW hole, Left(B, O, T, hole), NEW P, O = P,
         NEW V, DOMAIN V = DOMAIN T, \A u \in DOMAIN T : V[u] = T[u]
  PROVE  Left(B, P, V, hole)
BY DEF Left

\* The temporary takes the value, its owner is reset, and the variable takes it over.
LEMMA TakeWalks ==
  ASSUME Tidy(scopes, open), job \in Jobs, NEW A, NEW D, Drawn(A, D),
         NEW k \in {"leaf", "tree"}, NEW x, x \in Unused(k), NEW l, l \in Givers, KindAt(l) = k, TakeOver(x, l)
  PROVE  WalksOn
<1> DEFINE t == Temp(1)
           s1 == Move(<<t>>, l)
           s2 == Null(l)
           s3 == Move(<<x>>, <<t>>)
           O == Own(A)
           T == Twin(A)
           V == With(T, t, l)
           V2 == Less(V, {t})
           P == With(O, t, k)
           R == Less(P, {t})
           P2 == With(R, x, P[t])
           Q == With(O, x, k)
<1>1. Sighted(A)
  BY DrawnIs, KnownIs
<1>2. x \in Given1 \ Visible /\ KindOf(x) = k
  BY UnusedIs
<1>3. x \in Names /\ x \notin DOMAIN O /\ x \notin DOMAIN T /\ x # t
  BY <1>1, <1>2, UnusedFree
<1>4. t \in Names /\ t \notin DOMAIN O /\ t \notin DOMAIN T
  <2>1. \A i \in 1..3 : Temp(i) \notin DOMAIN Own(A) \cup DOMAIN Twin(A)
    BY <1>1 DEF Sighted
  <2>2. \A i \in 1..3 : Temp(i) \in Names
    BY NamesApart
  <2> QED
    BY <2>1, <2>2
<1>5. Left(A, O, T, << >>)
  BY <1>1, KnownLeft
<1>6. /\ InO(O, l) /\ l[1] \in DOMAIN O /\ Len(l) \in 1..2
      /\ Len(l) = 1 => O[l[1]] # "frame" /\ O[l[1]] = KindOf(l[1]) /\ l = <<l[1]>>
      /\ \A u \in DOMAIN T : T[u][1] = l[1] => Len(l) = 2
  BY <1>1, GiversSighted
<1>7. \A u \in DOMAIN T : Len(T[u]) = 1 /\ T[u][1] \in DOMAIN O
  BY <1>1 DEF Sighted
<1>8. Says(s1, "mov", <<t>>, l) /\ Says(s2, "null", l, << >>) /\ Says(s3, "mov", <<x>>, <<t>>)
  BY StmSays DEF Move, Null
<1>9. Emit(<<s1, s2, s3>>) /\ scopes' = Declared(x, TRUE) /\ open' = open
  BY DEF TakeOver
<1>10. k = (IF Len(l) = 2 THEN "leaf" ELSE O[l[1]])
  BY <1>6 DEF KindAt
<1>f. O = [y \in DOMAIN O |-> O[y]]
  BY <1>1 DEF Sighted
<1> HIDE DEF s1, s2, s3, O, T, t
<1>11. DOMAIN V = DOMAIN T \cup {t} /\ V[t] = l /\ \A u \in DOMAIN T : u # t => V[u] = T[u]
  BY DEF With
<1>12. DOMAIN V2 = DOMAIN T /\ \A u \in DOMAIN T : V2[u] = T[u]
  BY <1>4, <1>11 DEF Less
<1>13. DOMAIN P = DOMAIN O \cup {t} /\ P[t] = k /\ \A y \in DOMAIN O : y # t => P[y] = O[y]
  BY DEF With
<1>14. R = O
  BY <1>4, <1>13, <1>f DEF Less
<1>15. P2 = Q
  BY <1>13, <1>14
<1> HIDE DEF P, R, P2, Q, V, V2
<1>16. Passing(s1, A, D, O, V, << >>)
  BY <1>4, <1>5, <1>6, <1>8, LeftTwin DEF V
<1>17. PICK A1 : Course(<<s1>>, A, D, A1, D) /\ Left(A1, O, V, << >>)
  BY <1>16 DEF Passing
<1>18. Passing(s2, A1, D, P, V2, << >>)
  <2>1. \A u \in DOMAIN V : u # t => V[u][1] # l[1] \/ (Len(V[u]) = 1 /\ Len(l) = 2)
    BY <1>6, <1>7, <1>11
  <2>2. t \in DOMAIN V /\ V[t] = l
    BY <1>11
  <2>3. Len(l) # 2 => O[l[1]] # "frame"
    BY <1>6
  <2> QED
    BY <1>6, <1>8, <1>10, <1>17, <2>1, <2>2, <2>3, LeftEmpty DEF P, V2
<1>19. PICK A2 : Course(<<s2>>, A1, D, A2, D) /\ Left(A2, P, V2, << >>)
  BY <1>18 DEF Passing
<1>20. Passing(s3, A2, D, P2, V2, << >>)
  <2>1. x \notin DOMAIN P /\ x \notin DOMAIN V2 /\ t \in DOMAIN P
    BY <1>3, <1>12, <1>13
  <2>2. \A u \in DOMAIN V2 : V2[u][1] # t
    BY <1>4, <1>7, <1>12
  <2> QED
    BY <1>3, <1>8, <1>19, <2>1, <2>2, LeftHands DEF P2, R
<1>21. PICK B : Course(<<s3>>, A2, D, B, D) /\ Left(B, P2, V2, << >>)
  BY <1>20 DEF Passing
<1>22. Left(B, Q, T, << >>)
  BY <1>12, <1>15, <1>21, LeftSame
<1>23. Course(<<s1, s2, s3>>, A, D, B, D)
  BY <1>17, <1>19, <1>21, ThreeCourse
<1>24. Q = With(O, x, IF TRUE THEN KindOf(x) ELSE "frame")
  BY <1>2 DEF Q
<1>25. Tidy(scopes', open') /\ DrawnOn(B, D)
  BY <1>2, <1>9, <1>22, <1>23, <1>24, DeclaredOn DEF O, T
<1> QED
  BY <1>25 DEF WalksOn

\* A variable is declared for what a call returns.
LEMMA ResultWalks ==
  ASSUME Tidy(scopes, open), job \in Jobs, job.apart, NEW A, NEW D, Drawn(A, D),
         NEW k \in {"leaf", "tree"}, NEW x, x \in Unused(k), NEW as, as \in Args, TakeResult(x, k, as)
  PROVE  WalksOn
<1> DEFINE O == Own(A)
           T == Twin(A)
           ss == CallOf(as, <<x>>, k)
           P == With(O, x, k)
<1>1. Sighted(A)
  BY DrawnIs, KnownIs
<1>2. x \in Given1 \ Visible /\ KindOf(x) = k
  BY UnusedIs
<1>3. x \in Names /\ x \notin DOMAIN O \cup DOMAIN T /\ \A i \in 1..2 : x # Temp(i)
  BY <1>1, <1>2, UnusedFree
<1>4. Left(A, O, T, << >>)
  BY <1>1, KnownLeft
<1>5. PICK N : Ready(O, T, << >>, as, N)
  BY <1>1, ArgsReady
<1>6. Emit(ss) /\ scopes' = Declared(x, TRUE) /\ open' = open
  BY DEF TakeResult
<1> HIDE DEF O, T
<1>7. PICK B : Course(ss, A, D, B, D) /\ Left(B, P, T, << >>)
  BY <1>3, <1>4, <1>5, CallNew
<1>8. P = With(O, x, IF TRUE THEN KindOf(x) ELSE "frame")
  BY <1>2
<1> HIDE DEF P, ss
<1>9. Tidy(scopes', open') /\ DrawnOn(B, D)
  BY <1>2, <1>6, <1>7, <1>8, DeclaredOn DEF O, T
<1> QED
  BY <1>9 DEF WalksOn

-----------------------------------------------------------------------------
\* Calls, and what is given from one owner to another.

LEMMA GiverNamed ==
  ASSUME NEW A, Sighted(A), NEW l, l \in Givers
  PROVE  /\ l[1] \in Given1 /\ l[1] \in Names /\ l[1] \notin DOMAIN Twin(A) /\ \A i \in 1..3 : l[1] # Temp(i)
         /\ Len(l) = 2 => KindOf(l[1]) = "tree" /\ KindAt(l) = "leaf"
         /\ Len(l) = 1 => KindAt(l) = KindOf(l[1])
<1>1. l[1] \in Visible /\ (Len(l) = 2 => KindOf(l[1]) = "tree")
  <2>1. CASE l \in Rows
    <3>1. PICK w \in Visible, k \in Keys : l = <<w, k>> /\ KindOf(w) = "tree"
      BY <2>1 DEF Rows
    <3> QED
      BY <3>1
  <2>2. CASE l \notin Rows
    <3>1. PICK x \in Owned \cap Visible : l = <<x>>
      BY <2>2 DEF Givers
    <3> QED
      BY <3>1
  <2> QED
    BY <2>1, <2>2
<1>2. l[1] \in Given1
  BY <1>1 DEF Sighted
<1>3. DOMAIN Twin(A) \subseteq RangeVars
  BY DEF Sighted
<1>4. /\ \A i \in 1..3 : Temp(i) \notin Given1
      /\ Given1 \subseteq Names /\ RangeVars \cap Given1 = {}
  BY NamesApart
<1>5. (Len(l) = 2 => KindAt(l) = "leaf") /\ (Len(l) = 1 => KindAt(l) = KindOf(l[1]))
  BY DEF KindAt
<1> QED
  BY <1>1, <1>2, <1>3, <1>4, <1>5

\* A call for its effect.
LEMMA CallWalks ==
  ASSUME Tidy(scopes, open), job \in Jobs, job.apart, NEW A, NEW D, Drawn(A, D), NEW as, as \in Args, Call(as)
  PROVE  WalksOn
<1> DEFINE ss == CallOf(as, << >>, "")
           O == Own(A)
           T == Twin(A)
           k == ""
<1>1. Sighted(A)
  BY DrawnIs, KnownIs
<1>2. Left(A, O, T, << >>)
  BY <1>1, KnownLeft
<1>3. PICK N : Ready(O, T, << >>, as, N)
  BY <1>1, ArgsReady
<1>4. Emit(ss) /\ UNCHANGED <<scopes, open>>
  BY DEF Call, Kept
<1>5. ss = CallOf(as, << >>, k)
  OBVIOUS
<1> HIDE DEF k, ss
<1>6. PICK B : Course(CallOf(as, << >>, k), A, D, B, D) /\ Left(B, O, T, << >>)
  BY <1>2, <1>3, CallNone
<1>7. Course(ss, A, D, B, D)
  BY <1>5, <1>6
<1>8. Tidy(scopes', open') /\ DrawnOn(B, D)
  BY <1>4, <1>6, <1>7, StayedOn
<1> QED
  BY <1>8 DEF WalksOn

\* A name added and taken out again.
LEMMA LessWith ==
  ASSUME NEW O, O = [y \in DOMAIN O |-> O[y]], NEW x, NEW k
  PROVE  /\ x \notin DOMAIN O => Less(With(O, x, k), {x}) = O
         /\ x \in DOMAIN O /\ O[x] = k => With(Less(O, {x}), x, k) = O
<1>1. ASSUME x \notin DOMAIN O PROVE Less(With(O, x, k), {x}) = O
  BY <1>1 DEF Less, With
<1>2. ASSUME x \in DOMAIN O, O[x] = k PROVE With(Less(O, {x}), x, k) = O
  <2>1. With(Less(O, {x}), x, k) = [y \in DOMAIN O |-> IF y = x THEN k ELSE O[y]]
    BY <1>2 DEF Less, With
  <2> QED
    BY <1>2, <2>1
<1> QED
  BY <1>1, <1>2

\* A call whose result is not used: it is released at once.
LEMMA DiscardWalks ==
  ASSUME Tidy(scopes, open), job \in Jobs, job.apart, NEW A, NEW D, Drawn(A, D), NEW as, as \in Args,
         NEW k \in {"leaf", "tree"}, CallAndDiscard(as, k)
  PROVE  WalksOn
<1> DEFINE t == Temp(3)
           ss == CallOf(as, <<t>>, k)
           s == Stm("free", <<t>>, << >>)
           O == Own(A)
           T == Twin(A)
           P == With(O, t, k)
           Q == Less(P, {t})
<1>1. Sighted(A)
  BY DrawnIs, KnownIs
<1>2. Left(A, O, T, << >>)
  BY <1>1, KnownLeft
<1>3. PICK N : Ready(O, T, << >>, as, N)
  BY <1>1, ArgsReady
<1>4. Emit(ss \o <<s>>) /\ UNCHANGED <<scopes, open>>
  BY DEF CallAndDiscard, Kept
<1>5. Says(s, "free", <<t>>, << >>)
  BY StmSays
<1>6. t \in Names /\ t \notin DOMAIN O \cup DOMAIN T /\ \A i \in 1..2 : t # Temp(i)
  <2>1. \A i \in 1..3 : Temp(i) \notin DOMAIN Own(A) \cup DOMAIN Twin(A)
    BY <1>1 DEF Sighted
  <2>2. \A i \in 1..3 : Temp(i) \in Names
    BY NamesApart
  <2>3. \A i \in 1..2 : i \in 1..3 /\ i # 3
    OBVIOUS
  <2>4. \A i \in 1..2 : t # Temp(i)
    <3>1. \A m, n \in 1..3 : Temp(m) = Temp(n) => m = n
      BY NamesApart
    <3>2. 3 \in 1..3
      OBVIOUS
    <3>3. ASSUME NEW i \in 1..2, t = Temp(i) PROVE FALSE
      <4>1. i \in 1..3 /\ i # 3 /\ Temp(3) = Temp(i)
        BY <2>3, <3>3
      <4> QED
        BY <3>1, <3>2, <4>1
    <3> QED
      BY <3>3
  <2> QED
    BY <2>1, <2>2, <2>4
<1>7. O = [y \in DOMAIN O |-> O[y]] /\ \A u \in DOMAIN T : T[u][1] \in DOMAIN O
  BY <1>1 DEF Sighted
<1> HIDE DEF t, ss, s, O, T
<1>8. PICK A1 : Course(ss, A, D, A1, D) /\ Left(A1, P, T, << >>)
  BY <1>2, <1>3, <1>6, CallNew DEF ss
<1>9. Q = O
  BY <1>6, <1>7, LessWith
<1>10. t \in DOMAIN P /\ P[t] = k
  BY DEF With
<1>11. \A u \in DOMAIN T : T[u][1] # t
  BY <1>6, <1>7
<1> HIDE DEF P, Q
<1>12. Passing(s, A1, D, Q, T, << >>)
  BY <1>5, <1>8, <1>10, <1>11, LeftFrees DEF Q
<1>13. PICK B : Course(<<s>>, A1, D, B, D) /\ Left(B, Q, T, << >>)
  BY <1>12 DEF Passing
<1>14. Course(ss \o <<s>>, A, D, B, D)
  BY <1>8, <1>13, CourseThen
<1>15. Tidy(scopes', open') /\ DrawnOn(B, D)
  BY <1>4, <1>9, <1>13, <1>14, StayedOn DEF O, T
<1> QED
  BY <1>15 DEF WalksOn

\* A variable is released, and takes over what another location holds.
LEMMA TransferOwner ==
  ASSUME Tidy(scopes, open), job \in Jobs, NEW A, NEW D, Drawn(A, D),
         NEW to, to \in Givers, NEW l, l \in Givers, KindAt(l) = KindAt(to), Transfer(l, to), Len(to) = 1
  PROVE  WalksOn
<1> DEFINE s1 == Stm("free", to, << >>)
           s2 == Move(to, l)
           s3 == Null(l)
           x == to[1]
           O == Own(A)
           T == Twin(A)
           P == Less(O, {x})
           V == With(T, x, l)
           V2 == Less(V, {x})
           k == IF Len(l) = 2 THEN "leaf" ELSE P[l[1]]
           Q == With(P, x, k)
<1>1. Sighted(A)
  BY DrawnIs, KnownIs
<1>2. Left(A, O, T, << >>)
  BY <1>1, KnownLeft
<1>3. Emit(<<s1, s2, s3>>) /\ UNCHANGED <<scopes, open>> /\ (l = to => Len(to) = 2)
  BY DEF Transfer, Kept
<1>4. /\ x \in DOMAIN O /\ O[x] # "frame" /\ O[x] = KindOf(x) /\ to = <<x>>
      /\ \A u \in DOMAIN T : T[u][1] # x
  <2>1. /\ Len(to) = 1 => O[to[1]] # "frame" /\ O[to[1]] = KindOf(to[1]) /\ to = <<to[1]>>
        /\ \A u \in DOMAIN T : T[u][1] = to[1] => Len(to) = 2
        /\ to[1] \in DOMAIN O
    BY <1>1, GiversSighted
  <2> QED
    BY <2>1
<1>5. /\ InO(O, l) /\ l[1] \in DOMAIN O /\ Len(l) \in 1..2
      /\ Len(l) = 1 => O[l[1]] # "frame" /\ O[l[1]] = KindOf(l[1]) /\ l = <<l[1]>>
      /\ \A u \in DOMAIN T : T[u][1] = l[1] => Len(l) = 2
  BY <1>1, GiversSighted
<1>6. x \in Names /\ x \notin DOMAIN T /\ KindAt(to) = KindOf(x)
  BY <1>1, GiverNamed
<1>7. (Len(l) = 2 => KindOf(l[1]) = "tree" /\ KindAt(l) = "leaf") /\ (Len(l) = 1 => KindAt(l) = KindOf(l[1]))
  BY <1>1, GiverNamed
<1>8. \A u \in DOMAIN T : Len(T[u]) = 1 /\ T[u][1] \in DOMAIN O
  BY <1>1 DEF Sighted
<1>9. Says(s1, "free", to, << >>) /\ Says(s2, "mov", to, l) /\ Says(s3, "null", l, << >>)
  BY StmSays DEF Move, Null
<1>f. O = [y \in DOMAIN O |-> O[y]]
  BY <1>1 DEF Sighted
<1> HIDE DEF s1, s2, s3, O, T, x
<1>10. l[1] # x
  <2>1. CASE Len(l) = 2
    BY <1>6, <1>7, <2>1
  <2>2. CASE Len(l) = 1
    BY <1>3, <1>4, <1>5, <2>2
  <2> QED
    BY <1>5, <2>1, <2>2
<1>11. DOMAIN P = DOMAIN O \ {x} /\ \A y \in DOMAIN O : y # x => P[y] = O[y]
  BY DEF Less
<1>12. InO(P, l)
  <2>1. CASE \E y \in DOMAIN O : l = <<y>>
    <3>1. PICK y \in DOMAIN O : l = <<y>>
      BY <2>1
    <3>2. y \in DOMAIN P
      BY <1>10, <1>11, <3>1
    <3> QED
      BY <3>1, <3>2 DEF InO
  <2>2. CASE \E y \in DOMAIN O, kk \in Keys : l = <<y, kk>> /\ O[y] \in {"tree", "frame"}
    <3>1. PICK y \in DOMAIN O, kk \in Keys : l = <<y, kk>> /\ O[y] \in {"tree", "frame"}
      BY <2>2
    <3>2. y \in DOMAIN P /\ P[y] = O[y]
      BY <1>10, <1>11, <3>1
    <3> QED
      BY <3>1, <3>2 DEF InO
  <2> QED
    BY <1>5, <2>1, <2>2 DEF InO
<1>13. k = O[x]
  <2>1. CASE Len(l) = 2
    BY <1>4, <1>6, <1>7, <2>1
  <2>2. CASE Len(l) = 1
    <3>1. P[l[1]] = O[l[1]]
      BY <1>5, <1>10, <1>11
    <3> QED
      BY <1>4, <1>5, <1>6, <1>7, <2>2, <3>1
  <2> QED
    BY <1>5, <2>1, <2>2
<1>14. DOMAIN V = DOMAIN T \cup {x} /\ V[x] = l /\ \A u \in DOMAIN T : u # x => V[u] = T[u]
  BY DEF With
<1>15. DOMAIN V2 = DOMAIN T /\ \A u \in DOMAIN T : V2[u] = T[u]
  BY <1>6, <1>14 DEF Less
<1>16. Q = O
  <2> HIDE DEF k
  <2> QED
    BY <1>4, <1>13, <1>f, LessWith
<1>17. Passing(s1, A, D, P, T, << >>)
  BY <1>2, <1>4, <1>9, LeftFrees
<1>18. PICK A1 : Course(<<s1>>, A, D, A1, D) /\ Left(A1, P, T, << >>)
  BY <1>17 DEF Passing
<1> HIDE DEF P, V, V2
<1>19. Passing(s2, A1, D, P, V, << >>)
  <2>1. x \notin DOMAIN P
    BY <1>11
  <2> QED
    BY <1>4, <1>6, <1>9, <1>12, <1>18, <2>1, LeftTwin DEF V
<1>20. PICK A2 : Course(<<s2>>, A1, D, A2, D) /\ Left(A2, P, V, << >>)
  BY <1>19 DEF Passing
<1>21. Passing(s3, A2, D, Q, V2, << >>)
  <2>1. x \in DOMAIN V /\ V[x] = l
    BY <1>14
  <2>2. Len(l) # 2 => P[l[1]] # "frame"
    <3>1. Len(l) # 2 => k = P[l[1]]
      OBVIOUS
    <3> QED
      BY <1>4, <1>13, <3>1
  <2>3. \A u \in DOMAIN V : u # x => V[u][1] # l[1] \/ (Len(V[u]) = 1 /\ Len(l) = 2)
    BY <1>5, <1>8, <1>14
  <2> HIDE DEF Q
  <2>4. Q = With(P, x, k)
    BY DEF Q
  <2>5. k = (IF Len(l) = 2 THEN "leaf" ELSE P[l[1]])
    OBVIOUS
  <2> HIDE DEF k
  <2> QED
    BY <1>9, <1>12, <1>20, <2>1, <2>2, <2>3, <2>4, <2>5, LeftEmpty DEF V2
<1>22. PICK B : Course(<<s3>>, A2, D, B, D) /\ Left(B, Q, V2, << >>)
  BY <1>21 DEF Passing
<1> HIDE DEF Q
<1>23. Left(B, O, T, << >>)
  BY <1>15, <1>16, <1>22, LeftSame
<1>24. Course(<<s1, s2, s3>>, A, D, B, D)
  BY <1>18, <1>20, <1>22, ThreeCourse
<1>25. Tidy(scopes', open') /\ DrawnOn(B, D)
  BY <1>3, <1>23, <1>24, StayedOn DEF O, T
<1> QED
  BY <1>25 DEF WalksOn

\* A row is released and filled again; only then is what it was filled with reset.
LEMMA TransferRow ==
  ASSUME Tidy(scopes, open), job \in Jobs, NEW A, NEW D, Drawn(A, D),
         NEW to, to \in Givers, NEW l, l \in Givers, KindAt(l) = KindAt(to), Transfer(l, to), Len(to) = 2
  PROVE  WalksOn
<1> DEFINE s1 == Stm("free", to, << >>)
           s2 == Move(to, l)
           s3 == Null(l)
           O == Own(A)
           T == Twin(A)
<1>1. Sighted(A)
  BY DrawnIs, KnownIs
<1>2. Left(A, O, T, << >>)
  BY <1>1, KnownLeft
<1>3. Emit(<<s1, s2, s3>>) /\ UNCHANGED <<scopes, open>>
  BY DEF Transfer, Kept
<1>4. InO(O, to) /\ to # << >>
  BY <1>1, GiversSighted
<1>5. /\ InO(O, l) /\ l[1] \in DOMAIN O /\ Len(l) \in 1..2
      /\ Len(l) = 1 => O[l[1]] # "frame" /\ O[l[1]] = KindOf(l[1]) /\ l = <<l[1]>>
      /\ \A u \in DOMAIN T : T[u][1] = l[1] => Len(l) = 2
  BY <1>1, GiversSighted
<1>6. KindAt(to) = "leaf"
  BY DEF KindAt
<1>7. Len(l) = 1 => KindAt(l) = KindOf(l[1])
  BY <1>1, GiverNamed
<1>8. \A u \in DOMAIN T : Len(T[u]) = 1 /\ T[u][1] \in DOMAIN O
  BY <1>1 DEF Sighted
<1>9. Says(s1, "free", to, << >>) /\ Says(s2, "mov", to, l) /\ Says(s3, "null", l, << >>)
  BY StmSays DEF Move, Null
<1> HIDE DEF s1, s2, s3, O, T
<1>10. Passing(s1, A, D, O, T, to)
  BY <1>2, <1>4, <1>8, <1>9, LeftFreesRow
<1>11. PICK A1 : Course(<<s1>>, A, D, A1, D) /\ Left(A1, O, T, to)
  BY <1>10 DEF Passing
<1>12. /\ Own(A1) = O /\ DOMAIN Twin(A1) = DOMAIN T /\ (\A u \in DOMAIN T : Twin(A1)[u] = T[u])
       /\ HoleOf(A1) = to /\ Fill(A1) = << >> /\ Turns(A1) = {}
  BY <1>11 DEF Left
<1>13. Located(A1, l) /\ SortAt(A1, l) = "leaf"
  <2>1. Located(A1, l) /\ SortAt(A1, l) = IF Len(l) = 2 THEN "leaf" ELSE O[l[1]]
    BY <1>5, <1>11, LeftLocated
  <2> QED
    BY <1>5, <1>6, <1>7, <2>1
<1> DEFINE A2 == Hole(A1, HoleOf(A1), l)
<1>14. FillsHole(s2, A1, A2)
  BY <1>4, <1>9, <1>12, <1>13 DEF FillsHole, Says
<1>15. Own(A2) = Own(A1) /\ Twin(A2) = Twin(A1) /\ HoleOf(A2) = HoleOf(A1) /\ Fill(A2) = l /\ Turns(A2) = Turns(A1)
  BY PointIs DEF Hole
<1> HIDE DEF A2
<1> DEFINE B == Hole(A2, << >>, << >>)
<1>16. EmptiesFill(s3, A2, B)
  <2>1. Located(A2, l)
    BY <1>13, <1>15 DEF Located, HasRows
  <2>2. OfOwners(A2)
    BY <1>8, <1>12, <1>15 DEF OfOwners
  <2>3. \A u \in DOMAIN Twin(A2) : Twin(A2)[u] # l
    <3> SUFFICES ASSUME NEW u \in DOMAIN T, T[u] = l PROVE FALSE
      BY <1>12, <1>15
    <3>1. Len(l) = 1 /\ T[u][1] = l[1]
      BY <1>8
    <3> QED
      BY <1>5, <3>1
  <2> QED
    BY <1>4, <1>9, <1>12, <1>15, <2>1, <2>2, <2>3 DEF EmptiesFill, Says
<1>17. Own(B) = Own(A2) /\ Twin(B) = Twin(A2) /\ HoleOf(B) = << >> /\ Fill(B) = << >> /\ Turns(B) = Turns(A2)
  BY PointIs DEF Hole
<1> HIDE DEF B
<1>18. Course(<<s2>>, A1, D, A2, D) /\ Course(<<s3>>, A2, D, B, D)
  <2>1. Effect(s2, A1, A2) /\ Effect(s3, A2, B)
    BY <1>14, <1>16 DEF Effect
  <2>2. Flow(s2, A1, D, A2, D) /\ Flow(s3, A2, D, B, D)
    BY <2>1, CourseEffect
  <2> QED
    BY <2>2, CourseOne
<1>19. Left(B, O, T, << >>)
  BY <1>12, <1>15, <1>17 DEF Left
<1>20. Course(<<s1, s2, s3>>, A, D, B, D)
  BY <1>11, <1>18, ThreeCourse
<1>21. Tidy(scopes', open') /\ DrawnOn(B, D)
  BY <1>3, <1>19, <1>20, StayedOn DEF O, T
<1> QED
  BY <1>21 DEF WalksOn

\* A transfer to a variable or to a row.
LEMMA TransferWalks ==
  ASSUME Tidy(scopes, open), job \in Jobs, NEW A, NEW D, Drawn(A, D),
         NEW to, to \in Givers, NEW l, l \in Givers, KindAt(l) = KindAt(to), Transfer(l, to)
  PROVE  WalksOn
<1>1. Len(to) \in 1..2
  BY DrawnIs, KnownIs, GiversSighted
<1>2. Len(to) = 1 \/ Len(to) = 2
  BY <1>1
<1> QED
  BY <1>2, TransferOwner, TransferRow

\* A transfer of what a call returns: the call is made, then what was there is
\* released.
LEMMA ReplaceWalks ==
  ASSUME Tidy(scopes, open), job \in Jobs, job.apart, ~job.reuse, NEW A, NEW D, Drawn(A, D),
         NEW to, to \in Givers, NEW as, as \in Args, TransferResult(as, to)
  PROVE  WalksOn
<1> DEFINE s == Stm("free", to, << >>)
           k == KindAt(to)
           ss == CallOf(as, to, k)
           x == to[1]
           O == Own(A)
           T == Twin(A)
<1>1. Sighted(A)
  BY DrawnIs, KnownIs
<1>2. Left(A, O, T, << >>)
  BY <1>1, KnownLeft
<1>3. PICK N : Ready(O, T, << >>, as, N)
  BY <1>1, ArgsReady
<1>4. Emit(<<s>> \o ss) /\ UNCHANGED <<scopes, open>> /\ \A i \in DOMAIN as : as[i].of[1] # x
  BY DEF TransferResult, Kept
<1>5. /\ InO(O, to) /\ x \in DOMAIN O /\ Len(to) \in 1..2
      /\ Len(to) = 1 => O[x] # "frame" /\ O[x] = KindOf(x) /\ to = <<x>>
      /\ \A u \in DOMAIN T : T[u][1] = x => Len(to) = 2
  BY <1>1, GiversSighted
<1>6. /\ x \in Names /\ x \notin DOMAIN T /\ (\A i \in 1..3 : x # Temp(i))
      /\ (Len(to) = 2 => k = "leaf") /\ (Len(to) = 1 => k = KindOf(x))
  BY <1>1, GiverNamed
<1>7. \A u \in DOMAIN T : Len(T[u]) = 1 /\ T[u][1] \in DOMAIN O
  BY <1>1 DEF Sighted
<1>8. Says(s, "free", to, << >>)
  BY StmSays
<1>9. k \in {"leaf", "tree"}
  BY KindsOf DEF KindAt
<1>f. O = [y \in DOMAIN O |-> O[y]]
  BY <1>1 DEF Sighted
<1> HIDE DEF s, O, T, x, k
<1>10. ASSUME NEW A1, NEW B, Course(<<s>>, A, D, A1, D), Course(ss, A1, D, B, D), Left(B, O, T, << >>)
       PROVE  WalksOn
  <2> HIDE DEF ss
  <2>1. Course(<<s>> \o ss, A, D, B, D)
    BY <1>10, CourseThen
  <2>2. Tidy(scopes', open') /\ DrawnOn(B, D)
    BY <1>4, <1>10, <2>1, StayedOn DEF O, T
  <2> QED
    BY <2>2 DEF WalksOn
<1>11. CASE Len(to) = 1
  <2> DEFINE P == Less(O, {x})
             Q == With(P, x, k)
  <2>1. to = <<x>> /\ O[x] = k /\ O[x] # "frame" /\ \A u \in DOMAIN T : T[u][1] # x
    BY <1>5, <1>6, <1>11
  <2>2. Passing(s, A, D, P, T, << >>)
    BY <1>2, <1>5, <1>8, <2>1, LeftFrees
  <2>3. PICK A1 : Course(<<s>>, A, D, A1, D) /\ Left(A1, P, T, << >>)
    BY <2>2 DEF Passing
  <2>4. Q = O
    BY <1>5, <1>f, <2>1, LessWith
  <2>5. x \notin DOMAIN P \cup DOMAIN T
    BY <1>6 DEF Less
  <2> HIDE DEF P
  <2>6. Ready(P, T, << >>, as, N)
    BY <1>3, <1>4, <2>1, ReadyLess DEF P
  <2>7. \A i \in 1..2 : x # Temp(i)
    BY <1>6
  <2>8. PICK B : Course(CallOf(as, <<x>>, k), A1, D, B, D) /\ Left(B, Q, T, << >>)
    BY <1>6, <1>9, <2>3, <2>5, <2>6, <2>7, CallNew
  <2> HIDE DEF Q
  <2>9. Course(ss, A1, D, B, D) /\ Left(B, O, T, << >>)
    BY <2>1, <2>4, <2>8
  <2> QED
    BY <1>10, <2>3, <2>9
<1>12. CASE Len(to) = 2
  <2>1. \A u \in DOMAIN T : Len(T[u]) = 1
    BY <1>7
  <2>2. Passing(s, A, D, O, T, to)
    BY <1>2, <1>5, <1>8, <1>12, <2>1, LeftFreesRow
  <2>3. PICK A1 : Course(<<s>>, A, D, A1, D) /\ Left(A1, O, T, to)
    BY <2>2 DEF Passing
  <2>4. Ready(O, T, to, as, N)
    <3>1. to[1] \in DOMAIN O /\ \A i \in DOMAIN as : as[i].of[1] # to[1]
      BY <1>4, <1>5 DEF x
    <3> QED
      BY <1>3, <3>1, ReadyHole
  <2>5. to # << >>
    BY <1>12
  <2>6. PICK B : Course(CallOf(as, to, "leaf"), A1, D, B, D) /\ Left(B, O, T, << >>)
    BY <2>3, <2>4, <2>5, CallHole
  <2>7. Course(ss, A1, D, B, D)
    BY <1>6, <1>12, <2>6
  <2> QED
    BY <1>10, <2>3, <2>6, <2>7
<1> QED
  <2>1. Len(to) = 1 \/ Len(to) = 2
    BY <1>5
  <2> QED
    BY <1>11, <1>12, <2>1

-----------------------------------------------------------------------------
\* Returns.

Declared1 == {v.name : v \in VarsIn(scopes, Len(scopes))}

Clears(keep, A, C) ==
  \E B : /\ Course(AllFrees(keep), A, C, B, C) /\ HoleOf(B) = << >>
         /\ DOMAIN Own(B) = DOMAIN Own(A) \ (Declared1 \ {keep})
\* All scopes' variables but keep are released.
LEMMA AllLeft ==
  ASSUME Tidy(scopes, open), NEW keep, NEW A, NEW C, HoleOf(A) = << >>, Own(A) = [x \in DOMAIN Own(A) |-> Own(A)[x]],
         \A v \in VarsIn(scopes, Len(scopes)) : v.name # keep =>
           v.name \in DOMAIN Own(A) /\ Own(A)[v.name] = SortOf(v)
  PROVE  Clears(keep, A, C)
<1> DEFINE K == Len(scopes)
           n == 1
<1>1. K \in Nat \ {0}
  BY TidyIs
<1>2. VarsFrom(scopes, n, K) = VarsIn(scopes, K)
  BY DEF VarsFrom, VarsIn
<1>3. n \in 1..K /\ K \in 1..K /\ n <= K
  BY <1>1
<1>4. AllFrees(keep) = CollectFree(n, K, keep)
  BY DEF AllFrees
<1> HIDE DEF n, K
<1>5. \A v \in VarsFrom(scopes, n, K) : v.name # keep => v.name \in DOMAIN Own(A) /\ Own(A)[v.name] = SortOf(v)
  BY <1>2 DEF K
<1>6. PICK B : Course(CollectFree(n, K, keep), A, C, B, C) /\ Gone(A, B, NamesFrom(scopes, n, K, keep))
  BY <1>3, <1>5, LeavesScopes DEF K
<1>7. NamesFrom(scopes, n, K, keep) = Declared1 \ {keep}
  BY <1>2 DEF NamesFrom, Declared1, K
<1>8. Gone(A, B, Declared1 \ {keep})
  BY <1>6, <1>7
<1>9. Own(B) = Less(Own(A), Declared1 \ {keep}) /\ HoleOf(B) = HoleOf(A)
  BY <1>8 DEF Gone
<1>10. DOMAIN Own(B) = DOMAIN Own(A) \ (Declared1 \ {keep})
  BY <1>9 DEF Less
<1> QED
  BY <1>4, <1>6, <1>9, <1>10 DEF Clears

\* What comes after a jump is known as what was before it.
LEMMA JumpedOn ==
  ASSUME Tidy(scopes, open), job \in Jobs, NEW A, NEW D, Drawn(A, D), NEW ss, Emit(ss), UNCHANGED <<scopes, open>>,
         Course(ss, A, D, A, D)
  PROVE  WalksOn
<1>1. Left(A, Own(A), Twin(A), << >>)
  BY DrawnIs, KnownIs, KnownLeft
<1>2. Tidy(scopes', open') /\ DrawnOn(A, D)
  BY <1>1, StayedOn
<1> QED
  BY <1>2 DEF WalksOn

\* After the releases the return leaves nothing behind.
LEMMA ReturnCourse ==
  ASSUME NEW A, NEW D, NEW ss, NEW l, NEW B, Course(ss, A, D, B, D), HoleOf(B) = << >>,
         \/ l = << >> /\ DOMAIN Own(B) = {}
         \/ \E x \in Names : l = <<x>> /\ DOMAIN Own(B) = {x}
  PROVE  Course(ss \o <<Stm("return", << >>, l)>>, A, D, A, D)
<1> DEFINE s == Stm("return", << >>, l)
<1>1. Says(s, "return", << >>, l)
  BY StmSays
<1> HIDE DEF s
<1>2. Exits(s, B, D, A, D)
  BY <1>1 DEF Exits, Says
<1>3. Flow(s, B, D, A, D)
  BY <1>2 DEF Flow
<1>4. Course(ss \o <<s>>, A, D, A, D)
  BY <1>3, CourseAnd
<1> QED
  BY <1>4 DEF s

\* The walk goes on behind a return, where nothing comes to.
LEMMA ReturnedOn ==
  ASSUME Tidy(scopes, open), job \in Jobs, NEW A, NEW D, Drawn(A, D), NEW ss, NEW l,
         Emit(ss \o <<Stm("return", << >>, l)>>), UNCHANGED <<scopes, open>>,
         NEW B, Course(ss, A, D, B, D), HoleOf(B) = << >>,
         \/ l = << >> /\ DOMAIN Own(B) = {}
         \/ \E x \in Names : l = <<x>> /\ DOMAIN Own(B) = {x}
  PROVE  WalksOn
<1> DEFINE ts == ss \o <<Stm("return", << >>, l)>>
<1>1. Course(ts, A, D, A, D)
  BY ReturnCourse
<1>2. Emit(ts)
  OBVIOUS
<1> HIDE DEF ts
<1> QED
  BY <1>1, <1>2, JumpedOn

\* Where the walk is the declared variables and the named return are owned.
LEMMA DeclaredIs ==
  ASSUME Tidy(scopes, open), job \in Jobs, NEW A, Known(A)
  PROVE  /\ DOMAIN Own(A) = Declared1 \cup Also /\ Declared1 \cap Also = {} /\ "" \notin Declared1
         /\ \A v \in VarsIn(scopes, Len(scopes)) : v.name \in DOMAIN Own(A) /\ Own(A)[v.name] = SortOf(v)
         /\ Own(A) = [x \in DOMAIN Own(A) |-> Own(A)[x]] /\ HoleOf(A) = << >>
<1> DEFINE K == Len(scopes)
<1>1. Shaped(A, scopes, K, open, Len(open))
  BY ShapeIs DEF Known
<1>2. K \in 0..Len(scopes)
  BY TidyIs
<1>3. HeldIn(scopes, K) \subseteq Given1 \cup RangeVars /\ \A v \in VarsIn(scopes, K) : Named(v)
  BY <1>2, HeldAre
<1>4. HeldIn(scopes, K) = Declared1 \cup Also
  BY DEF HeldIn, Declared1
<1>5. Declared1 \cap Also = {}
  BY <1>3 DEF Named, Declared1
<1>6. "" \notin Declared1
  BY <1>3, <1>4, NamesApart
<1>7. \A v \in VarsIn(scopes, K) : v.name \in Declared1
  BY DEF Declared1
<1> QED
  BY <1>1, <1>4, <1>5, <1>6, <1>7 DEF Shaped

\* A function's end without a value, or with its named return.
LEMMA BareCourse ==
  ASSUME Tidy(scopes, open), job \in Jobs, NEW A, NEW D, Drawn(A, D),
         NEW l, l = (IF job.named = "" THEN << >> ELSE <<job.named>>)
  PROVE  Course(AllFrees("") \o <<Stm("return", << >>, l)>>, A, D, A, D)
<1> DEFINE ss == AllFrees("")
<1>1. Known(A)
  BY DrawnIs
<1>2. /\ DOMAIN Own(A) = Declared1 \cup Also /\ Declared1 \cap Also = {} /\ "" \notin Declared1
      /\ \A v \in VarsIn(scopes, Len(scopes)) : v.name \in DOMAIN Own(A) /\ Own(A)[v.name] = SortOf(v)
      /\ Own(A) = [x \in DOMAIN Own(A) |-> Own(A)[x]] /\ HoleOf(A) = << >>
  BY <1>1, DeclaredIs
<1>4. Clears(None, A, D)
  BY <1>2, AllLeft
<1>5. PICK B : /\ Course(ss, A, D, B, D) /\ HoleOf(B) = << >>
               /\ DOMAIN Own(B) = DOMAIN Own(A) \ (Declared1 \ {""})
  BY <1>4 DEF Clears, None
<1>6. DOMAIN Own(B) = Also
  BY <1>2, <1>5
<1>7. Also \subseteq Given1 /\ (Also = {} \/ Also = {job.named}) /\ (job.named = "" <=> Also = {})
  BY AlsoIs
<1>8. Given1 \subseteq Names
  BY NamesApart
<1>9. \/ l = << >> /\ DOMAIN Own(B) = {}
      \/ \E x \in Names : l = <<x>> /\ DOMAIN Own(B) = {x}
  BY <1>6, <1>7, <1>8
<1> HIDE DEF ss
<1>10. Course(ss \o <<Stm("return", << >>, l)>>, A, D, A, D)
  BY <1>5, <1>9, ReturnCourse
<1> QED
  BY <1>10 DEF ss

\* A return without a value.
LEMMA BareReturnWalks ==
  ASSUME Tidy(scopes, open), job \in Jobs, NEW A, NEW D, Drawn(A, D), BareReturn
  PROVE  WalksOn
<1> DEFINE l == IF job.named = "" THEN << >> ELSE <<job.named>>
           ts == AllFrees("") \o <<Stm("return", << >>, l)>>
<1>1. Course(ts, A, D, A, D)
  BY BareCourse
<1>2. Emit(ts) /\ UNCHANGED <<scopes, open>>
  BY DEF BareReturn, Kept
<1> HIDE DEF ts
<1> QED
  BY <1>1, <1>2, JumpedOn

\* No statements change nothing.
LEMMA EmptyStill == ASSUME NEW ss, ss = << >>, NEW A, NEW C, NEW B, NEW D, Course(ss, A, C, B, D) PROVE B = A
BY CourseStill

\* A temporary has taken over what is returned, and everything else is released.
LEMMA TempReturns ==
  ASSUME Tidy(scopes, open), job \in Jobs, job.named = "", NEW A, NEW D, Drawn(A, D), NEW i \in 1..3,
         NEW k, NEW O, O = With(Own(A), Temp(i), k), NEW T, NEW A1, Left(A1, O, T, << >>),
         NEW ss, Course(ss, A, D, A1, D)
  PROVE  /\ Clears(None, A1, D)
         /\ Emit(ss \o AllFrees("") \o <<Stm("return", << >>, <<Temp(i)>>)>>) /\ UNCHANGED <<scopes, open>> => WalksOn
         /\ AllFrees("") = << >> => DOMAIN O = {Temp(i)}
<1> DEFINE t == Temp(i)
           fs == AllFrees("")
<1>1. Known(A) /\ Sighted(A)
  BY DrawnIs, KnownIs
<1>2. /\ DOMAIN Own(A) = Declared1 \cup Also /\ Declared1 \cap Also = {} /\ "" \notin Declared1
      /\ \A v \in VarsIn(scopes, Len(scopes)) : v.name \in DOMAIN Own(A) /\ Own(A)[v.name] = SortOf(v)
  BY <1>1, DeclaredIs
<1>3. t \in Names /\ t \notin DOMAIN Own(A)
  <2>1. \A j \in 1..3 : Temp(j) \notin DOMAIN Own(A) \cup DOMAIN Twin(A)
    BY <1>1 DEF Sighted
  <2>2. \A j \in 1..3 : Temp(j) \in Names
    BY NamesApart
  <2> QED
    BY <2>1, <2>2
<1>4. Also = {}
  BY AlsoIs
<1> HIDE DEF t, fs
<1>5. /\ DOMAIN O = DOMAIN Own(A) \cup {t} /\ (\A x \in DOMAIN Own(A) : x # t => O[x] = Own(A)[x])
      /\ O = [x \in DOMAIN O |-> O[x]]
  BY DEF With, t
<1>6. Own(A1) = O /\ HoleOf(A1) = << >>
  BY DEF Left
<1>7. Clears(None, A1, D)
  <2>1. \A v \in VarsIn(scopes, Len(scopes)) : v.name \in DOMAIN Own(A1) /\ Own(A1)[v.name] = SortOf(v)
    BY <1>2, <1>3, <1>5, <1>6
  <2> QED
    BY <1>5, <1>6, <2>1, AllLeft
<1>8. PICK B : /\ Course(fs, A1, D, B, D) /\ HoleOf(B) = << >>
               /\ DOMAIN Own(B) = DOMAIN Own(A1) \ (Declared1 \ {""})
  BY <1>7 DEF Clears, None, fs
<1>9. DOMAIN Own(B) = {t}
  BY <1>2, <1>3, <1>4, <1>5, <1>6, <1>8, Zenon
<1>10. ASSUME Emit(ss \o fs \o <<Stm("return", << >>, <<t>>)>>), UNCHANGED <<scopes, open>> PROVE WalksOn
  <2> DEFINE s2 == ss \o fs
             l == <<t>>
  <2>1. Course(s2, A, D, B, D)
    BY <1>8, CourseThen
  <2>2. Emit(s2 \o <<Stm("return", << >>, l)>>)
    BY <1>10
  <2>3. \E x \in Names : l = <<x>> /\ DOMAIN Own(B) = {x}
    BY <1>3, <1>9
  <2> HIDE DEF s2, l
  <2> QED
    BY <1>8, <1>10, <2>1, <2>2, <2>3, ReturnedOn
<1>11. ASSUME fs = << >> PROVE DOMAIN O = {t}
  <2>1. B = A1
    BY <1>8, <1>11, EmptyStill
  <2> QED
    BY <1>6, <1>9, <2>1
<1> QED
  BY <1>7, <1>10, <1>11 DEF t, fs

\* A return of what a call returns.
LEMMA ReturnResultWalks ==
  ASSUME Tidy(scopes, open), job \in Jobs, job.apart, NEW A, NEW D, Drawn(A, D), NEW as, as \in Args, ReturnResult(as)
  PROVE  WalksOn
<1> DEFINE i == 3
           t == Temp(i)
           k == job.ret
           ss == CallOf(as, <<t>>, k)
           O == Own(A)
           T == Twin(A)
           P == With(O, t, k)
<1>1. Sighted(A)
  BY DrawnIs, KnownIs
<1>2. Left(A, O, T, << >>)
  BY <1>1, KnownLeft
<1>3. PICK N : Ready(O, T, << >>, as, N)
  BY <1>1, ArgsReady
<1>4. /\ job.named = "" /\ k # "none" /\ UNCHANGED <<scopes, open>>
      /\ Emit(ss \o AllFrees("") \o <<Stm("return", << >>, <<t>>)>>)
  BY DEF ReturnResult, Kept
<1>5. k \in {"leaf", "tree"}
  BY <1>4, JobsAssumption
<1>6. t \in Names /\ t \notin DOMAIN O \cup DOMAIN T /\ \A j \in 1..2 : t # Temp(j)
  <2>1. \A j \in 1..3 : Temp(j) \notin DOMAIN Own(A) \cup DOMAIN Twin(A)
    BY <1>1 DEF Sighted
  <2>2. \A j \in 1..3 : Temp(j) \in Names
    BY NamesApart
  <2>3. \A j \in 1..2 : j \in 1..3 /\ j # i
    OBVIOUS
  <2>4. \A m, n \in 1..3 : Temp(m) = Temp(n) => m = n
    BY NamesApart
  <2>5. i \in 1..3
    OBVIOUS
  <2> HIDE DEF i
  <2>6. \A j \in 1..2 : t # Temp(j)
    BY <2>3, <2>4, <2>5
  <2> QED
    BY <2>1, <2>2, <2>5, <2>6
<1>7. i \in 1..3
  OBVIOUS
<1> HIDE DEF i, k, ss, O, T
<1>8. PICK A1 : Course(ss, A, D, A1, D) /\ Left(A1, P, T, << >>)
  BY <1>2, <1>3, <1>5, <1>6, CallNew DEF ss
<1>9. P = With(Own(A), Temp(i), k)
  BY DEF O
<1> HIDE DEF P
<1>10. Emit(ss \o AllFrees("") \o <<Stm("return", << >>, <<Temp(i)>>)>>) /\ UNCHANGED <<scopes, open>> => WalksOn
  BY <1>4, <1>7, <1>8, <1>9, TempReturns
<1> QED
  BY <1>4, <1>10

\* A return of a copy of what another owner has.
LEMMA ReturnCopyWalks ==
  ASSUME Tidy(scopes, open), job \in Jobs, NEW A, NEW D, Drawn(A, D),
         NEW l, l \in Rows \cup {<<x>> : x \in Visible \ Owned}, ReturnCopy(l)
  PROVE  WalksOn
<1> DEFINE t1 == Temp(1)
           t2 == Temp(2)
           k == job.ret
           s1 == Build("new", <<t1>>, k)
           s2 == Stm("copy", <<t1>>, l)
           s3 == Move(<<t2>>, <<t1>>)
           fs == AllFrees("")
           O == Own(A)
           T == Twin(A)
           P == With(O, t1, k)
           R == Less(P, {t1})
           Q == With(R, t2, P[t1])
<1>1. Sighted(A)
  BY DrawnIs, KnownIs
<1>2. Left(A, O, T, << >>)
  BY <1>1, KnownLeft
<1>3. /\ job.named = "" /\ KindAt(l) = k /\ UNCHANGED <<scopes, open>>
      /\ LET value == IF fs = << >> THEN <<t1>> ELSE <<t2>>
         IN  Emit(<<s1, s2>> \o (IF fs = << >> THEN << >> ELSE <<s3>>) \o fs \o <<Stm("return", << >>, value)>>)
  BY DEF ReturnCopy, Kept
<1>4. k \in {"leaf", "tree"}
  BY <1>3, KindsOf DEF KindAt
<1>5. /\ t1 \in Names /\ t1 \notin DOMAIN O /\ t1 \notin DOMAIN T
      /\ t2 \in Names /\ t2 \notin DOMAIN O /\ t2 \notin DOMAIN T /\ t1 # t2
  <2>1. \A j \in 1..3 : Temp(j) \notin DOMAIN Own(A) \cup DOMAIN Twin(A)
    BY <1>1 DEF Sighted
  <2>2. \A j \in 1..3 : Temp(j) \in Names
    BY NamesApart
  <2>3. \A m, n \in 1..3 : Temp(m) = Temp(n) => m = n
    BY NamesApart
  <2>4. 1 \in 1..3 /\ 2 \in 1..3 /\ 1 # 2
    OBVIOUS
  <2> QED
    BY <2>1, <2>2, <2>3, <2>4
<1>6. InO(O, l)
  <2>1. CASE l \in Rows
    BY <1>1, <2>1, RowsSighted
  <2>2. CASE l \notin Rows
    <3>1. PICK x \in Visible \ Owned : l = <<x>>
      BY <2>2
    <3>2. x \in DOMAIN O
      BY <1>1 DEF Sighted
    <3> QED
      BY <3>1, <3>2 DEF InO
  <2> QED
    BY <2>1, <2>2
<1>7. /\ Says(s1, "new", <<t1>>, << >>) /\ s1.kind = k /\ Says(s2, "copy", <<t1>>, l)
      /\ Says(s3, "mov", <<t2>>, <<t1>>)
  BY BuildSays, StmSays DEF Move
<1>8. (\A u \in DOMAIN T : T[u][1] \in DOMAIN O) /\ O = [y \in DOMAIN O |-> O[y]]
  BY <1>1 DEF Sighted
<1> HIDE DEF s1, s2, s3, O, T, t1, t2, k
<1>9. DOMAIN P = DOMAIN O \cup {t1} /\ P[t1] = k /\ \A y \in DOMAIN O : y # t1 => P[y] = O[y]
  BY DEF With
<1>10. R = O
  BY <1>5, <1>8, LessWith
<1>11. P = With(O, t1, IF "new" = "frame" THEN "frame" ELSE k)
  OBVIOUS
<1>12. InO(P, l)
  <2>1. CASE \E y \in DOMAIN O : l = <<y>>
    BY <1>9, <2>1 DEF InO
  <2>2. CASE \E y \in DOMAIN O, kk \in Keys : l = <<y, kk>> /\ O[y] \in {"tree", "frame"}
    <3>1. PICK y \in DOMAIN O, kk \in Keys : l = <<y, kk>> /\ O[y] \in {"tree", "frame"}
      BY <2>2
    <3>2. y \in DOMAIN P /\ P[y] = O[y]
      BY <1>5, <1>9
    <3> QED
      BY <3>1, <3>2 DEF InO
  <2> QED
    BY <1>6, <2>1, <2>2 DEF InO
<1> HIDE DEF P
<1>13. Passing(s1, A, D, P, T, << >>)
  BY <1>2, <1>4, <1>5, <1>7, <1>11, LeftCreate
<1>14. PICK A1 : Course(<<s1>>, A, D, A1, D) /\ Left(A1, P, T, << >>)
  BY <1>13 DEF Passing
<1>15. Passing(s2, A1, D, P, T, << >>)
  <2>1. t1 \in DOMAIN P
    BY <1>9
  <2> QED
    BY <1>7, <1>12, <1>14, <2>1, LeftCopies
<1>16. PICK A2 : Course(<<s2>>, A1, D, A2, D) /\ Left(A2, P, T, << >>)
  BY <1>15 DEF Passing
<1>17. Course(<<s1, s2>>, A, D, A2, D)
  <2>1. Course(<<s1>> \o <<s2>>, A, D, A2, D)
    BY <1>14, <1>16, CourseThen
  <2> QED
    BY <2>1, Last2
<1>18. P = With(Own(A), Temp(1), k) /\ 1 \in 1..3
  BY DEF P, O, t1
<1>19. CASE fs = << >>
  <2> DEFINE ss == <<s1, s2>> \o << >>
             i == 1
  <2>1. Course(ss, A, D, A2, D)
    <3>1. Course(<< >>, A2, D, A2, D)
      BY CourseNone
    <3> QED
      BY <1>17, <3>1, CourseThen
  <2>2. Emit(ss \o AllFrees("") \o <<Stm("return", << >>, <<Temp(i)>>)>>)
    BY <1>3, <1>19 DEF t1
  <2>3. i \in 1..3 /\ P = With(Own(A), Temp(i), k)
    BY <1>18
  <2> HIDE DEF ss, i
  <2>4. Emit(ss \o AllFrees("") \o <<Stm("return", << >>, <<Temp(i)>>)>>) /\ UNCHANGED <<scopes, open>> => WalksOn
    BY <1>3, <1>16, <2>1, <2>3, TempReturns
  <2> QED
    BY <1>3, <2>2, <2>4
<1>20. CASE fs # << >>
  <2> DEFINE ss == <<s1, s2>> \o <<s3>>
             i == 2
  <2> HIDE DEF R
  <2>1. Passing(s3, A2, D, Q, T, << >>)
    <3>1. t1 \in DOMAIN P /\ t2 \notin DOMAIN P /\ \A u \in DOMAIN T : T[u][1] # t1
      BY <1>5, <1>8, <1>9
    <3>2. R = Less(P, {t1}) /\ Q = With(R, t2, P[t1])
      BY DEF R
    <3> HIDE DEF Q
    <3> QED
      BY <1>5, <1>7, <1>16, <3>1, <3>2, LeftHands
  <2>2. PICK A3 : Course(<<s3>>, A2, D, A3, D) /\ Left(A3, Q, T, << >>)
    BY <2>1 DEF Passing
  <2>3. Course(ss, A, D, A3, D)
    BY <1>17, <2>2, CourseThen
  <2>4. i \in 1..3 /\ Q = With(Own(A), Temp(i), k)
    BY <1>9, <1>10 DEF O, t2
  <2>5. Emit(ss \o AllFrees("") \o <<Stm("return", << >>, <<Temp(i)>>)>>)
    BY <1>3, <1>20 DEF t2
  <2> HIDE DEF ss, i, Q
  <2>6. Emit(ss \o AllFrees("") \o <<Stm("return", << >>, <<Temp(i)>>)>>) /\ UNCHANGED <<scopes, open>> => WalksOn
    BY <1>3, <2>2, <2>3, <2>4, TempReturns
  <2> QED
    BY <1>3, <2>5, <2>6
<1> QED
  BY <1>19, <1>20

\* A variable's block is handed over before the others are released.
LEMMA ReturnOwnedWalks ==
  ASSUME Tidy(scopes, open), job \in Jobs, NEW A, NEW D, Drawn(A, D), NEW x, x \in Owned \cap Visible, ReturnOwned(x)
  PROVE  WalksOn
<1> DEFINE t == Temp(1)
           fs == AllFrees(x)
           s == Move(<<t>>, <<x>>)
           O == Own(A)
           T == Twin(A)
<1>1. Known(A) /\ Sighted(A)
  BY DrawnIs, KnownIs
<1>2. /\ DOMAIN O = Declared1 \cup Also /\ Declared1 \cap Also = {} /\ "" \notin Declared1
      /\ \A v \in VarsIn(scopes, Len(scopes)) : v.name \in DOMAIN O /\ O[v.name] = SortOf(v)
      /\ O = [y \in DOMAIN O |-> O[y]] /\ HoleOf(A) = << >>
  BY <1>1, DeclaredIs
<1>3. /\ job.named = "" /\ UNCHANGED <<scopes, open>>
      /\ LET value == IF fs = << >> THEN <<x>> ELSE <<t>>
         IN  Emit((IF fs = << >> THEN << >> ELSE <<s>>) \o fs \o <<Stm("return", << >>, value)>>)
  BY DEF ReturnOwned, Kept
<1>4. Also = {}
  BY <1>3, AlsoIs
<1>5. t \in Names /\ t \notin DOMAIN O /\ t \notin DOMAIN T
  <2>1. \A j \in 1..3 : Temp(j) \notin DOMAIN Own(A) \cup DOMAIN Twin(A)
    BY <1>1 DEF Sighted
  <2>2. \A j \in 1..3 : Temp(j) \in Names
    BY NamesApart
  <2>3. 1 \in 1..3
    OBVIOUS
  <2> QED
    BY <2>1, <2>2, <2>3
<1>6. x \in DOMAIN O /\ x \in Names
  <2>1. \A y \in Visible : y \in DOMAIN Own(A) /\ y \in Given1
    BY <1>1 DEF Sighted
  <2>2. Given1 \subseteq Names
    BY NamesApart
  <2> QED
    BY <2>1, <2>2
<1>7. Says(s, "mov", <<t>>, <<x>>)
  BY StmSays DEF Move
<1> HIDE DEF s, O, T, t, fs
<1>8. CASE fs = << >>
  <2>1. Clears(x, A, D)
    BY <1>2, AllLeft DEF O
  <2>2. PICK B : /\ Course(fs, A, D, B, D) /\ HoleOf(B) = << >>
                 /\ DOMAIN Own(B) = DOMAIN Own(A) \ (Declared1 \ {x})
    BY <2>1 DEF Clears, fs
  <2>3. DOMAIN Own(B) = {x}
    BY <1>2, <1>4, <1>6, <2>2 DEF O
  <2> DEFINE ss == << >> \o fs
             l == <<x>>
  <2>4. Course(ss, A, D, B, D)
    <3>1. Course(<< >>, A, D, A, D)
      BY CourseNone
    <3> QED
      BY <2>2, <3>1, CourseThen
  <2>5. Emit(ss \o <<Stm("return", << >>, l)>>)
    BY <1>3, <1>8
  <2>6. \E y \in Names : l = <<y>> /\ DOMAIN Own(B) = {y}
    BY <1>6, <2>3
  <2> HIDE DEF ss, l
  <2> QED
    BY <1>3, <2>2, <2>4, <2>5, <2>6, ReturnedOn
<1>9. CASE fs # << >>
  <2> DEFINE k == O[x]
             W == Without(A, {x})
             A1 == Owns(W, t, k)
  <2>1. HandsOver(s, A, A1)
    <3>1. IsFree(A, t)
      BY <1>5 DEF IsFree, O, T
    <3> QED
      BY <1>2, <1>5, <1>6, <1>7, <3>1 DEF HandsOver, Says, O
  <2>2. Gone(A, W, {x})
    BY WithoutGone
  <2> HIDE DEF W, k
  <2>3. OwnMade(W, t, k, A1)
    BY OwnsIs
  <2> HIDE DEF A1
  <2>4. Own(W) = Less(Own(A), {x}) /\ HoleOf(W) = HoleOf(A)
    BY <2>2 DEF Gone
  <2>5. /\ DOMAIN Own(W) = DOMAIN O \ {x} /\ \A y \in DOMAIN O : y # x => Own(W)[y] = O[y]
    BY <2>4 DEF Less, O
  <2>6. /\ DOMAIN Own(A1) = DOMAIN Own(W) \cup {t}
        /\ \A y \in DOMAIN Own(W) : y # t => Own(A1)[y] = Own(W)[y]
        /\ Own(A1) = [y \in DOMAIN Own(A1) |-> Own(A1)[y]] /\ HoleOf(A1) = HoleOf(W)
    BY <2>3 DEF OwnMade
  <2>7. HoleOf(A1) = << >>
    BY <1>2, <2>4, <2>6
  <2>8. Clears(x, A1, D)
    <3>1. ASSUME NEW v \in VarsIn(scopes, Len(scopes)), v.name # x
          PROVE  v.name \in DOMAIN Own(A1) /\ Own(A1)[v.name] = SortOf(v)
      <4>1. v.name \in DOMAIN O /\ O[v.name] = SortOf(v) /\ v.name # t
        BY <1>2, <1>5
      <4>2. v.name \in DOMAIN Own(W) /\ Own(W)[v.name] = O[v.name]
        BY <2>5, <3>1, <4>1
      <4> QED
        BY <2>6, <4>1, <4>2
    <3> QED
      BY <2>6, <2>7, <3>1, AllLeft
  <2>9. PICK B : /\ Course(fs, A1, D, B, D) /\ HoleOf(B) = << >>
                 /\ DOMAIN Own(B) = DOMAIN Own(A1) \ (Declared1 \ {x})
    BY <2>8 DEF Clears, fs
  <2>10. DOMAIN Own(B) = {t}
    BY <1>2, <1>4, <1>5, <1>6, <2>5, <2>6, <2>9
  <2> DEFINE ss == <<s>> \o fs
             l == <<t>>
  <2>11. Course(<<s>>, A, D, A1, D)
    <3>1. Effect(s, A, A1)
      BY <2>1 DEF Effect
    <3>2. Flow(s, A, D, A1, D)
      BY <3>1, CourseEffect
    <3> QED
      BY <3>2, CourseOne
  <2>12. Course(ss, A, D, B, D)
    BY <2>9, <2>11, CourseThen
  <2>13. Emit(ss \o <<Stm("return", << >>, l)>>)
    BY <1>3, <1>9
  <2>14. \E y \in Names : l = <<y>> /\ DOMAIN Own(B) = {y}
    BY <1>5, <2>10
  <2> HIDE DEF ss, l
  <2> QED
    BY <1>3, <2>9, <2>12, <2>13, <2>14, ReturnedOn
<1> QED
  BY <1>8, <1>9

-----------------------------------------------------------------------------
\* Out of loops.

\* What is left when a construct is left.
LeavesFor(n, A, C, D) ==
  \E B : /\ Course(CollectFree(Kept1(open[n]) + 1, Len(scopes), None), A, C, B, C)
         /\ OwnsScopes(B, scopes, Kept1(open[n])) /\ AtRest(B) /\ Leads(B, Top(D[n])) /\ Leads(B, Out(D[n]))
         /\ \A r \in Ranged(open, Len(open)) : open[r].outer <= Kept1(open[n]) =>
              RangeVar(r) \in DOMAIN Twin(B) /\ Twin(B)[RangeVar(r)] = open[r].range
         /\ (\A r \in 1..Len(open) : open[r].outer <= Kept1(open[n])) =>
              Shape(B, scopes, Kept1(open[n]), open, Len(open))
\* The inner scopes' variables are released; what the k outer ones hold is left.
LEMMA KeptScopes ==
  ASSUME Tidy(scopes, open), job \in Jobs, NEW A, Known(A), NEW C, NEW k, k \in 1..Len(scopes) - 1
  PROVE  \E B : /\ Course(CollectFree(k + 1, Len(scopes), None), A, C, B, C)
                /\ OwnsScopes(B, scopes, k) /\ AtRest(B)
                /\ \A r \in Ranged(open, Len(open)) : open[r].outer <= k =>
                     RangeVar(r) \in DOMAIN Twin(B) /\ Twin(B)[RangeVar(r)] = open[r].range
                /\ (\A r \in 1..Len(open) : open[r].outer <= k) => Shape(B, scopes, k, open, Len(open))
<1> DEFINE K == Len(scopes)
           j == k + 1
           N == Len(open)
<1>1. K \in Nat \ {0} /\ N \in 0..Len(open) /\ Len(open) \in 0..3
  <2>1. K \in Nat \ {0} /\ Len(open) \in 0..3
    BY TidyIs
  <2> QED
    BY <2>1
<1>2. j \in 1..K /\ K \in 1..K /\ j <= K /\ k \in 0..K /\ K \in 0..K
  BY <1>1
<1>3. /\ DOMAIN Own(A) = Declared1 \cup Also
      /\ \A v \in VarsIn(scopes, K) : v.name \in DOMAIN Own(A) /\ Own(A)[v.name] = SortOf(v)
      /\ Own(A) = [x \in DOMAIN Own(A) |-> Own(A)[x]] /\ HoleOf(A) = << >>
  BY DeclaredIs
<1>4. \A v \in VarsFrom(scopes, j, K) : v \in VarsIn(scopes, K)
  BY <1>1, <1>2 DEF VarsFrom, VarsIn
<1>5. \A v \in VarsFrom(scopes, j, K) : v.name # None => v.name \in DOMAIN Own(A) /\ Own(A)[v.name] = SortOf(v)
  BY <1>3, <1>4
<1>6. Shape(A, scopes, K, open, N)
  BY DEF Known
<1> HIDE DEF K, j, N
<1>7. PICK B : Course(CollectFree(j, K, None), A, C, B, C) /\ Gone(A, B, NamesFrom(scopes, j, K, None))
  BY <1>2, <1>3, <1>5, LeavesScopes DEF K
<1>8. Gone(A, B, NamesFrom(scopes, k + 1, K, None))
  BY <1>7 DEF j
<1>9. /\ OwnsScopes(B, scopes, k) /\ AtRest(B)
      /\ \A r \in Ranged(open, N) : open[r].outer <= k =>
           RangeVar(r) \in DOMAIN Twin(B) /\ Twin(B)[RangeVar(r)] = open[r].range
      /\ (\A r \in 1..N : open[r].outer <= k) => Shape(B, scopes, k, open, N)
  BY <1>1, <1>2, <1>6, <1>8, GoneShape DEF K
<1> QED
  BY <1>7, <1>9 DEF j, K, N

\* So it is when the scopes inside a construct are left.
LEMMA LeavesIt ==
  ASSUME Tidy(scopes, open), job \in Jobs, NEW A, Known(A), NEW D, Framed(D, scopes, open), NEW n \in DOMAIN D, NEW C
  PROVE  LeavesFor(n, A, C, D) /\ n \in 1..Len(open)
<1> DEFINE k == Kept1(open[n])
           X == Top(D[n])
           Y == Out(D[n])
           n1 == n - 1
<1>1. n \in 1..Len(open) /\ Rests(D[n], scopes, open, n)
  BY FramedIs
<1>2. k \in 1..Len(scopes) - 1 /\ \A r \in 1..n : open[r].outer <= k
  BY <1>1, KeptIs
<1>3. Shape(X, scopes, k, open, n) /\ Shape(Y, scopes, k, open, n1)
  BY <1>1 DEF Rests
<1>4. \A r \in Ranged(open, n) : r \in 1..n /\ r \in Ranged(open, Len(open))
  <2>1. Len(open) \in 0..3
    BY TidyIs
  <2> QED
    BY <1>1, <2>1 DEF Ranged
<1>5. \A r \in Ranged(open, n1) : r \in 1..n /\ r \in Ranged(open, Len(open))
  <2>1. Len(open) \in 0..3
    BY TidyIs
  <2> QED
    BY <1>1, <2>1 DEF Ranged
<1> HIDE DEF k, X, Y, n1
<1>6. PICK B : /\ Course(CollectFree(k + 1, Len(scopes), None), A, C, B, C)
               /\ OwnsScopes(B, scopes, k) /\ AtRest(B)
               /\ \A r \in Ranged(open, Len(open)) : open[r].outer <= k =>
                    RangeVar(r) \in DOMAIN Twin(B) /\ Twin(B)[RangeVar(r)] = open[r].range
               /\ (\A r \in 1..Len(open) : open[r].outer <= k) => Shape(B, scopes, k, open, Len(open))
  BY <1>2, KeptScopes
<1>7. HoleOf(B) = << >>
  BY <1>6 DEF AtRest
<1>8. Leads(B, X)
  <2>1. OwnsScopes(X, scopes, k) /\ AtRest(X) /\ WalksRanges(X, open, n)
    BY <1>3 DEF Shape
  <2>2. \A u \in DOMAIN Twin(X) : u \in DOMAIN Twin(B) /\ Twin(X)[u] = Twin(B)[u]
    <3> SUFFICES ASSUME NEW u \in DOMAIN Twin(X) PROVE u \in DOMAIN Twin(B) /\ Twin(X)[u] = Twin(B)[u]
      OBVIOUS
    <3>1. PICK r \in Ranged(open, n) : u = RangeVar(r) /\ Twin(X)[u] = open[r].range
      BY <2>1 DEF WalksRanges
    <3>2. open[r].outer <= k /\ r \in Ranged(open, Len(open))
      BY <1>2, <1>4
    <3> QED
      BY <1>6, <3>1, <3>2
  <2> QED
    BY <1>6, <1>7, <2>1, <2>2, LeadsBack
<1>9. Leads(B, Y)
  <2>1. OwnsScopes(Y, scopes, k) /\ AtRest(Y) /\ WalksRanges(Y, open, n1)
    BY <1>3 DEF Shape
  <2>2. \A u \in DOMAIN Twin(Y) : u \in DOMAIN Twin(B) /\ Twin(Y)[u] = Twin(B)[u]
    <3> SUFFICES ASSUME NEW u \in DOMAIN Twin(Y) PROVE u \in DOMAIN Twin(B) /\ Twin(Y)[u] = Twin(B)[u]
      OBVIOUS
    <3>1. PICK r \in Ranged(open, n1) : u = RangeVar(r) /\ Twin(Y)[u] = open[r].range
      BY <2>1 DEF WalksRanges
    <3>2. open[r].outer <= k /\ r \in Ranged(open, Len(open))
      BY <1>2, <1>5
    <3> QED
      BY <1>6, <3>1, <3>2
  <2> QED
    BY <1>6, <1>7, <2>1, <2>2, LeadsBack
<1> QED
  BY <1>1, <1>6, <1>8, <1>9 DEF LeavesFor, k, X, Y

\* The loop that a break or continue is in.
LEMMA InnermostIs ==
  ASSUME Tidy(scopes, open), Loops # {}
  PROVE  /\ InnermostLoop \in 1..Len(open) /\ Loop(open[InnermostLoop])
         /\ LoopScope = Kept1(open[InnermostLoop]) + 1
<1>1. Len(open) \in 0..3 /\ DOMAIN open = 1..Len(open) /\ \A n \in 1..Len(open) : open[n].outer \in Nat \ {0}
  BY TidyIs
<1>2. Loops \subseteq 1..3
  BY <1>1 DEF Loops
<1>3. \E n \in Loops : \A m \in Loops : m <= n
  <2>1. CASE 3 \in Loops
    <3>1. \A m \in Loops : m <= 3
      BY <1>2
    <3> QED
      BY <2>1, <3>1
  <2>2. CASE 3 \notin Loops /\ 2 \in Loops
    <3>1. \A m \in Loops : m <= 2
      BY <1>2, <2>2
    <3> QED
      BY <2>2, <3>1
  <2>3. CASE 3 \notin Loops /\ 2 \notin Loops
    <3>1. \A m \in Loops : m = 1
      BY <1>2, <2>3
    <3>2. 1 \in Loops
      BY <3>1
    <3>3. \A m \in Loops : m <= 1
      BY <3>1
    <3> QED
      BY <3>2, <3>3
  <2> QED
    BY <2>1, <2>2, <2>3
<1>4. InnermostLoop \in Loops
  BY <1>3 DEF InnermostLoop
<1> DEFINE e == open[InnermostLoop]
<1>5. InnermostLoop \in 1..Len(open) /\ Loop(e) /\ e.outer \in Nat
  BY <1>1, <1>4 DEF Loops, Loop
<1>6. LoopScope = e.outer + (IF e.kind = "for" THEN 2 ELSE 1)
  BY DEF LoopScope
<1>7. Kept1(e) = e.outer + (IF e.kind = "for" THEN 2 ELSE 1) - 1
  BY DEF Kept1, Width
<1> HIDE DEF e
<1>8. LoopScope = Kept1(e) + 1
  BY <1>5, <1>6, <1>7
<1> QED
  BY <1>5, <1>8 DEF e

\* What the statement of a jump says.
LEMMA JumpIs == ASSUME NEW op PROVE Says(Jump(op), op, << >>, << >>) /\ Jump(op).nest = InnermostLoop
BY DEF Jump, Says, Stm

\* A break.
LEMMA BreakWalks ==
  ASSUME Tidy(scopes, open), job \in Jobs, NEW A, NEW D, Drawn(A, D), Break
  PROVE  WalksOn
<1> DEFINE n == InnermostLoop
           s == Jump("break")
           fs == CollectFree(LoopScope, Len(scopes), "")
<1>1. Known(A) /\ Framed(D, scopes, open)
  BY DrawnIs
<1>2. Emit(fs \o <<s>>) /\ UNCHANGED <<scopes, open>> /\ Loops # {}
  BY DEF Break, Kept
<1>3. n \in 1..Len(open) /\ Loop(open[n]) /\ fs = CollectFree(Kept1(open[n]) + 1, Len(scopes), None)
  BY <1>2, InnermostIs DEF None
<1>4. n \in DOMAIN D /\ Way(D[n]) = "loop"
  <2>1. n \in DOMAIN D
    BY <1>1, <1>3, FramedIs DEF Loop
  <2>2. Rests(D[n], scopes, open, n)
    BY <1>1, <2>1, FramedIs
  <2> QED
    BY <1>3, <2>1, <2>2 DEF Rests
<1>5. Says(s, "break", << >>, << >>) /\ s.nest = n
  BY JumpIs
<1> HIDE DEF n, s, fs
<1>6. LeavesFor(n, A, D, D)
  BY <1>1, <1>4, LeavesIt
<1>7. PICK B : Course(fs, A, D, B, D) /\ Leads(B, Out(D[n]))
  BY <1>3, <1>6 DEF LeavesFor
<1>8. BreaksOff(s, B, D, A, D)
  BY <1>4, <1>5, <1>7 DEF BreaksOff, Bare, Says
<1>9. Course(fs \o <<s>>, A, D, A, D)
  <2>1. Flow(s, B, D, A, D)
    BY <1>8 DEF Flow
  <2> QED
    BY <1>7, <2>1, CourseAnd
<1> DEFINE ss == fs \o <<s>>
<1> HIDE DEF ss
<1> QED
  BY <1>2, <1>9, JumpedOn DEF ss

\* A continue.
LEMMA ContinueWalks ==
  ASSUME Tidy(scopes, open), job \in Jobs, NEW A, NEW D, Drawn(A, D), Continue
  PROVE  WalksOn
<1> DEFINE n == InnermostLoop
           s == Jump("continue")
           st == Step
           fs == CollectFree(LoopScope, Len(scopes), "")
<1>1. Known(A) /\ Framed(D, scopes, open)
  BY DrawnIs
<1>2. Emit(fs \o st \o <<s>>) /\ UNCHANGED <<scopes, open>> /\ Loops # {}
  BY DEF Continue, Kept
<1>3. n \in 1..Len(open) /\ Loop(open[n]) /\ fs = CollectFree(Kept1(open[n]) + 1, Len(scopes), None)
  BY <1>2, InnermostIs DEF None
<1>4. n \in DOMAIN D /\ Way(D[n]) = "loop" /\ n \in Nests
  <2>1. n \in DOMAIN D
    BY <1>1, <1>3, FramedIs DEF Loop
  <2>2. Rests(D[n], scopes, open, n)
    BY <1>1, <2>1, FramedIs
  <2>3. Len(open) \in 0..3
    BY TidyIs
  <2>4. n \in Nests
    <3> HIDE DEF n
    <3> DEFINE N == Len(open)
    <3>0. N \in 0..3
      BY <2>3
    <3> HIDE DEF N
    <3>x. \A m \in 1..N : m \in 1..3
      BY <3>0
    <3>1. \A m \in 1..Len(open) : m \in 1..3
      BY <3>x DEF N
    <3> QED
      BY <1>3, <3>1 DEF Nests
  <2> QED
    BY <1>3, <2>1, <2>2, <2>4, ZenonT(30) DEF Rests
<1>5. Says(s, "continue", << >>, << >>) /\ s.nest = n
  BY JumpIs
<1>6. st = << >> \/ \E t : st = <<t>> /\ Says(t, "step", << >>, << >>) /\ t.nest = n
  BY JumpIs DEF Step
<1> HIDE DEF n, s, fs, st
<1>7. LeavesFor(n, A, D, D)
  BY <1>1, <1>4, LeavesIt
<1>8. PICK B : Course(fs, A, D, B, D) /\ Leads(B, Top(D[n])) /\ AtRest(B)
  BY <1>3, <1>7 DEF LeavesFor
<1>9. Course(st, B, D, B, D)
  <2>1. CASE st = << >>
    BY <2>1, CourseNone
  <2>2. CASE \E t : st = <<t>> /\ Says(t, "step", << >>, << >>) /\ t.nest = n
    <3>1. PICK t : st = <<t>> /\ Says(t, "step", << >>, << >>) /\ t.nest = n
      BY <2>2
    <3>2. Steps(t, B, D, B, D)
      BY <1>4, <1>8, <3>1 DEF Steps, Bare, Says, AtRest
    <3>3. Flow(t, B, D, B, D)
      BY <3>2 DEF Flow
    <3> QED
      BY <3>1, <3>3, CourseOne
  <2> QED
    BY <1>6, <2>1, <2>2
<1>10. Repeats(s, B, D, A, D)
  BY <1>4, <1>5, <1>8 DEF Repeats, Bare, Says
<1> DEFINE ss == (fs \o st) \o <<s>>
<1>11. Course(ss, A, D, A, D)
  <2>1. Flow(s, B, D, A, D)
    BY <1>10 DEF Flow
  <2>2. Course(fs \o st, A, D, B, D)
    BY <1>8, <1>9, CourseThen
  <2> DEFINE t2 == fs \o st
  <2> HIDE DEF t2
  <2>3. Course(t2 \o <<s>>, A, D, A, D)
    BY <2>1, <2>2, CourseAnd DEF t2
  <2> QED
    BY <2>3 DEF t2
<1> HIDE DEF ss
<1> QED
  BY <1>2, <1>11, JumpedOn DEF ss

-----------------------------------------------------------------------------
\* Blocks, branches and loops.

LEMMA ShapeBy ==
  ASSUME NEW A, NEW ss, NEW k, NEW os, NEW n, Shaped(A, ss, k, os, n)
  PROVE  Shape(A, ss, k, os, n)
BY DEF Shaped, Shape, OwnsScopes, WalksRanges, AtRest

\* What the statements say that open a construct.
LEMMA DeeperIs ==
  ASSUME NEW op, NEW to, NEW from
  PROVE  /\ Says(Deeper(op, to, from), op, to, from) /\ Deeper(op, to, from).nest = Len(open) + 1
         /\ \A k : /\ Says([Deeper(op, to, from) EXCEPT !.kind = k], op, to, from)
                   /\ [Deeper(op, to, from) EXCEPT !.kind = k].kind = k
                   /\ [Deeper(op, to, from) EXCEPT !.kind = k].nest = Len(open) + 1
BY DEF Deeper, Says, Stm

\* The parts of what is known of a construct.
LEMMA EntryIs == ASSUME NEW w, NEW X, NEW Y PROVE Way(Entry(w, X, Y)) = w /\ Top(Entry(w, X, Y)) = X /\ Out(Entry(w, X, Y)) = Y
BY DEF Entry, Way, Top, Out

\* The ranges that the first constructs walk are the same when there is one more.
LEMMA RangedNext ==
  ASSUME NEW os, NEW o2, NEW N \in Nat \ {0}, NEW M, M = N - 1, \A m \in 1..M : o2[m] = os[m]
  PROVE  /\ Ranged(o2, M) = Ranged(os, M)
         /\ o2[N].range = << >> => Ranged(o2, N) = Ranged(os, M)
         /\ o2[N].range # << >> => Ranged(o2, N) = Ranged(os, M) \cup {N}
<1>1. \A m : m \in 1..N <=> m \in 1..M \/ m = N
  OBVIOUS
<1> QED
  BY <1>1 DEF Ranged

\* A point can be jumped to from itself.
LEMMA Selfleads == ASSUME NEW A, HoleOf(A) = << >>, Turns(A) = {} PROVE Leads(A, A)
BY DEF Leads

\* What opening a construct with one more, empty scope makes of the scopes.
LEMMA OpenedEmpty ==
  ASSUME Tidy(scopes, open), NEW kind \in {"block", "if", "while"}, Len(open) < 3,
         NEW e, e = Construct(kind, << >>), NEW s2, s2 = Append(scopes, << >>), NEW o2, o2 = Append(open, e)
  PROVE  Opens(scopes, open, s2, o2, e) /\ Tidy(s2, o2) /\ ToSet(s2[Len(s2)]) = {} /\ Kept1(e) = Len(scopes)
<1> DEFINE K == Len(scopes)
<1>1. K \in Nat \ {0} /\ scopes \in Seq(Seq(Variables)) /\ open \in Seq(Constructs) /\ Len(open) \in 0..3
  BY TidyIs DEF Tidy
<1>2. e.kind = kind /\ e.outer = K /\ e.range = << >> /\ e \in Constructs
  BY <1>1 DEF Construct, Constructs
<1>3. Width(e) = 1
  BY <1>2 DEF Width
<1> HIDE DEF K
<1>4. Kept1(e) = K
  BY <1>1, <1>2, <1>3 DEF Kept1
<1>5. << >> \in Seq(Variables)
  OBVIOUS
<1>6. s2 \in Seq(Seq(Variables)) /\ Len(s2) = K + 1 /\ (\A i \in 1..K : s2[i] = scopes[i]) /\ s2[K + 1] = << >>
  BY <1>1, <1>5 DEF K
<1>7. o2 \in Seq(Constructs) /\ Len(o2) = Len(open) + 1 /\ (\A m \in 1..Len(open) : o2[m] = open[m]) /\ o2[Len(o2)] = e
  BY <1>1, <1>2
<1>8. Opens(scopes, open, s2, o2, e)
  BY <1>2, <1>3, <1>6, <1>7 DEF Opens, K
<1>9. ToSet(s2[K + 1]) = {}
  BY <1>6 DEF ToSet
<1>10. \A i \in 1..Len(s2) : i > K => i = K + 1
  BY <1>1, <1>6
<1>11. Fresh(scopes, open, s2, e)
  <2>1. \A i \in 1..Len(s2) : i > Len(scopes) => Len(s2[i]) \in 0..1 /\ ToSet(s2[i]) = {}
    <3>1. Len(s2[K + 1]) = 0
      BY <1>6
    <3>2. \A i \in 1..Len(s2) : i > K => s2[i] = s2[K + 1]
      BY <1>10
    <3> QED
      BY <1>9, <3>1, <3>2 DEF K
  <2> QED
    BY <1>2, <2>1 DEF Fresh
<1>12. Tidy(s2, o2)
  BY <1>8, <1>11, OpenTidy
<1> QED
  BY <1>4, <1>6, <1>8, <1>9, <1>12 DEF K

\* What is known at A is as good for one more empty scope.
LEMMA OpenedShape ==
  ASSUME Tidy(scopes, open), NEW A, Known(A), NEW e, e.range = << >>, NEW s2, NEW o2, Opens(scopes, open, s2, o2, e),
         Width(e) = 1, ToSet(s2[Len(s2)]) = {}
  PROVE  /\ Shape(A, s2, Len(s2), o2, Len(o2)) /\ Shape(A, s2, Len(scopes), o2, Len(o2))
         /\ Shape(A, s2, Len(scopes), o2, Len(o2) - 1)
<1> DEFINE K == Len(scopes)
           N == Len(o2)
           N1 == N - 1
           K2 == Len(s2)
<1>1. /\ K \in Nat \ {0} /\ Len(open) \in 0..3 /\ N = Len(open) + 1 /\ (\A m \in 1..Len(open) : o2[m] = open[m]) /\ o2[N] = e
      /\ K2 = K + 1 /\ \A i \in 1..K : s2[i] = scopes[i]
  BY TidyIs DEF Opens
<1>2. Shaped(A, scopes, K, open, Len(open))
  BY ShapeIs DEF Known
<1>3. Len(open) = N1 /\ N \in Nat \ {0}
  BY <1>1
<1> HIDE DEF K, N, N1, K2
<1>4. VarsIn(s2, K) = VarsIn(scopes, K)
  BY <1>1, VarsSame
<1>5. VarsIn(s2, K2) = VarsIn(s2, K)
  <2>1. K2 \in Nat \ {0} /\ K2 - 1 = K
    BY <1>1
  <2>2. VarsIn(s2, K2) = VarsIn(s2, K2 - 1) \cup ToSet(s2[K2])
    BY <2>1, VarsNext
  <2> QED
    BY <2>1, <2>2 DEF K2
<1>6. HeldIn(s2, K2) = HeldIn(scopes, K) /\ HeldIn(s2, K) = HeldIn(scopes, K)
  BY <1>4, <1>5 DEF HeldIn
<1>7. Ranged(o2, N1) = Ranged(open, N1) /\ Ranged(o2, N) = Ranged(open, N1)
  <2>1. (\A m \in 1..N1 : o2[m] = open[m]) /\ N1 = N - 1
    BY <1>1, <1>3 DEF N1
  <2>2. o2[N].range = << >>
    BY <1>1
  <2> QED
    BY <1>3, <2>1, <2>2, RangedNext
<1>8. \A m \in Ranged(open, N1) : o2[m].range = open[m].range
  BY <1>1, <1>3 DEF Ranged
<1>9. \A k \in {K, K2} : \A n \in {N1, N} : Shaped(A, s2, k, o2, n)
  BY <1>2, <1>3, <1>4, <1>5, <1>6, <1>7, <1>8 DEF Shaped
<1>10. Shape(A, s2, K2, o2, N) /\ Shape(A, s2, K, o2, N) /\ Shape(A, s2, K, o2, N1)
  BY <1>9, ShapeBy
<1> QED
  BY <1>10 DEF K, N, N1, K2

\* A block, an if or a while is opened.
LEMMA OpenWalks ==
  ASSUME Tidy(scopes, open), job \in Jobs, NEW A, NEW D, Drawn(A, D), NEW kind \in {"block", "if", "while"}, Open(kind)
  PROVE  WalksOn
<1> DEFINE e == Construct(kind, << >>)
           s2 == Append(scopes, << >>)
           o2 == Append(open, e)
           N == Len(o2)
           ss == CASE kind = "block" -> << >>
                   [] kind = "if"    -> <<Deeper("if", << >>, << >>)>>
                   [] kind = "while" -> <<Deeper("loop", << >>, << >>), Deeper("test", << >>, << >>)>>
<1>1. Emit(ss) /\ open' = o2 /\ scopes' = s2 /\ Len(open) < job.nest
  BY DEF Open
<1>2. Len(open) < 3 /\ Len(open) \in 0..3
  <2>1. job.nest \in 0..3
    BY JobsAssumption
  <2>2. Len(open) \in 0..3
    BY TidyIs
  <2> DEFINE a == Len(open)
             b == job.nest
  <2>3. a \in 0..3 /\ b \in 0..3 /\ a < b
    BY <1>1, <2>1, <2>2
  <2> HIDE DEF a, b
  <2>4. a < 3
    BY <2>3
  <2> QED
    BY <2>2, <2>4 DEF a
<1>3. e.kind = kind /\ e.range = << >>
  BY DEF Construct
<1>4. Known(A) /\ Framed(D, scopes, open)
  BY DrawnIs
<1>5. Sighted(A)
  BY <1>4, KnownIs
<1> HIDE DEF e, s2, o2
<1>6. Opens(scopes, open, s2, o2, e) /\ Tidy(s2, o2) /\ ToSet(s2[Len(s2)]) = {} /\ Kept1(e) = Len(scopes)
  BY <1>2, OpenedEmpty DEF e, s2, o2
<1>7. N = Len(open) + 1 /\ o2[N] = e
  BY <1>6 DEF Opens
<1>8. Width(e) = 1
  BY <1>3 DEF Width
<1>9. N \in Nests /\ N \notin DOMAIN D
  <2>1. DOMAIN D = {n \in 1..Len(open) : open[n].kind # "block"}
    BY <1>4, FramedIs
  <2> DEFINE a == Len(open)
  <2>2. a < 3 /\ a \in 0..3 /\ N = a + 1
    BY <1>2, <1>7
  <2> HIDE DEF a, N
  <2>3. N \in 1..3 /\ N \notin 1..a
    BY <2>2
  <2> QED
    BY <2>1, <2>3 DEF Nests, a
<1> HIDE DEF N
<1>10. HoleOf(A) = << >> /\ Turns(A) = {}
  BY <1>5 DEF Sighted
<1>11. Leads(A, A)
  BY <1>10, Selfleads
<1>12. ASSUME NEW B, Known(B), NEW D2, Course(ss, A, D, B, D2),
              kind = "block" => D2 = D,
              kind # "block" => /\ D2 = With(D, N, Entry(IF kind = "while" THEN "loop" ELSE "branch", A, A))
       PROVE  WalksOn
  <2> DEFINE w == IF kind = "while" THEN "loop" ELSE "branch"
             E == Entry(w, A, A)
  <2>1. Written(code', owners', Also, Start, B, D2)
    <3> HIDE DEF ss
    <3> QED
      BY <1>1, <1>12, Extends
  <2>2. Shape(B, s2, Len(s2), o2, Len(o2))
    BY <1>3, <1>6, <1>8, <1>12, OpenedShape
  <2>3. Shape(A, s2, Len(scopes), o2, Len(o2)) /\ Shape(A, s2, Len(scopes), o2, Len(o2) - 1)
    BY <1>3, <1>4, <1>6, <1>8, OpenedShape
  <2>4. Way(E) = w /\ Top(E) = A /\ Out(E) = A
    <3> HIDE DEF w
    <3> QED
      BY EntryIs
  <2>5. w = IF Loop(o2[N]) THEN "loop" ELSE "branch"
    BY <1>3, <1>7 DEF Loop
  <2>6. D2 = (IF e.kind = "block" THEN D ELSE With(D, Len(o2), E))
    BY <1>3, <1>12 DEF N
  <2> HIDE DEF E, w
  <2>7. Rests(E, s2, o2, Len(o2))
    BY <1>6, <1>7, <2>3, <2>4, <2>5 DEF Rests, N
  <2>8. Framed(D2, s2, o2)
    BY <1>4, <1>6, <2>6, <2>7, FramedAdd
  <2>9. Tidy(scopes', open') /\ DrawnOn(B, D2)
    BY <1>1, <1>6, <2>1, <2>2, <2>8 DEF DrawnOn
  <2> QED
    BY <2>9 DEF WalksOn
<1>13. CASE kind = "block"
  <2>1. Course(ss, A, D, A, D)
    <3>1. ss = << >>
      BY <1>13
    <3> HIDE DEF ss
    <3> QED
      BY <3>1, CourseNone
  <2> HIDE DEF ss
  <2> QED
    BY <1>4, <1>12, <1>13, <2>1
<1>14. CASE kind = "if"
  <2> DEFINE s == Deeper("if", << >>, << >>)
             D2 == With(D, N, Entry("branch", A, A))
  <2>1. Says(s, "if", << >>, << >>) /\ s.nest = N
    BY <1>7, DeeperIs
  <2>2. ss = <<s>>
    BY <1>14
  <2> HIDE DEF ss, s
  <2>3. Ifs(s, A, D, A, D2)
    BY <1>9, <1>11, <2>1 DEF Ifs, Bare, Says
  <2>4. D2 = With(D, N, Entry(IF kind = "while" THEN "loop" ELSE "branch", A, A))
    BY <1>14
  <2> HIDE DEF D2
  <2>5. Course(ss, A, D, A, D2)
    <3>1. Flow(s, A, D, A, D2)
      BY <2>3 DEF Flow
    <3> QED
      BY <2>2, <3>1, CourseOne
  <2> QED
    BY <1>4, <1>12, <1>14, <2>4, <2>5
<1>15. CASE kind = "while"
  <2> DEFINE t1 == Deeper("loop", << >>, << >>)
             t2 == Deeper("test", << >>, << >>)
             E1 == Entry("fresh", A, A)
             D1 == With(D, N, E1)
             E2 == Entry("loop", A, A)
             D2 == With(D, N, E2)
             B == Point(Own(A), Twin(A), << >>, << >>, {})
  <2>1. /\ Says(t1, "loop", << >>, << >>) /\ t1.nest = N
        /\ Says(t2, "test", << >>, << >>) /\ t2.nest = N
    BY <1>7, DeeperIs
  <2>2. ss = <<t1, t2>>
    BY <1>15
  <2> HIDE DEF ss, t1, t2
  <2>3. Way(E1) = "fresh" /\ Top(E1) = A /\ Out(E1) = A
    BY EntryIs
  <2>4. Begins(t1, A, D, A, D1)
    BY <1>9, <1>10, <1>11, <2>1 DEF Begins, Bare, Says
  <2>5. N \in DOMAIN D1 /\ D1[N] = E1
    BY DEF With
  <2>6. With(D1, N, E2) = D2
    BY DEF With
  <2> HIDE DEF E1, D1
  <2>7. Tests(t2, A, D1, B, D2)
    <3>1. D2 = With(D1, N, Entry("loop", Top(D1[N]), Out(D1[N])))
      BY <2>3, <2>5, <2>6
    <3>2. B = Point(Own(A), Twin(A), << >>, << >>, IF t2.from # << >> THEN {t2.nest} ELSE {})
      BY <2>1 DEF Says
    <3> HIDE DEF B, D2
    <3> QED
      BY <1>9, <1>11, <2>1, <2>3, <2>5, <3>1, <3>2 DEF Tests, Says
  <2>8. Own(B) = Own(A) /\ Twin(B) = Twin(A) /\ HoleOf(B) = << >> /\ Fill(B) = << >> /\ Turns(B) = {}
    BY PointIs
  <2>9. D2 = With(D, N, Entry(IF kind = "while" THEN "loop" ELSE "branch", A, A))
    BY <1>15
  <2> HIDE DEF B, D2
  <2>10. Known(B)
    <3>1. Left(B, Own(A), Twin(A), << >>)
      BY <2>8 DEF Left
    <3> QED
      BY <1>4, <3>1, LeftKnown
  <2>11. Course(ss, A, D, B, D2)
    <3>1. Flow(t1, A, D, A, D1) /\ Flow(t2, A, D1, B, D2)
      BY <2>4, <2>7 DEF Flow
    <3> QED
      BY <2>2, <3>1, CourseTwo
  <2> QED
    BY <1>12, <1>15, <2>9, <2>10, <2>11
<1> QED
  BY <1>13, <1>14, <1>15

-----------------------------------------------------------------------------
\* `for`: f stands for what is walked, and x is a copy of each row of it.

ForBegins(t1, t2, t3, t4, n, range, f, x) ==
  /\ Says(t1, "loop", << >>, << >>) /\ t1.nest = n
  /\ Says(t2, "test", range, <<f>>) /\ t2.nest = n
  /\ Says(t3, "new", <<x>>, << >>) /\ t3.kind = "leaf"
  /\ Says(t4, "copy", <<x>>, <<f, "#">>) /\ t4.nest = n
\* The statements that start it lead to a point where the copy owns its block.
LEMMA LoopFor ==
  ASSUME NEW A, NEW D, NEW n \in Nests, n \notin DOMAIN D, NEW O, NEW T, Left(A, O, T, << >>),
         NEW Y, Leads(A, Y), NEW f, f \in Names, NEW y, StandsFor(A, f, y), O[y] \in {"tree", "frame"},
         NEW range, range = << >> \/ (f \in DOMAIN Twin(A) /\ range = <<y>> /\ Twin(A)[f] = <<y>>),
         NEW x, x \in Names, x \notin DOMAIN O, x \notin DOMAIN T,
         NEW t1, NEW t2, NEW t3, NEW t4, ForBegins(t1, t2, t3, t4, n, range, f, x),
         NEW D2, D2 = With(D, n, Entry("loop", A, Y)), NEW P, P = With(O, x, "leaf")
  PROVE  \E B : Course(<<t1, t2, t3, t4>>, A, D, B, D2) /\ Left(B, P, T, << >>)
<1> DEFINE E1 == Entry("fresh", A, Y)
           D1 == With(D, n, E1)
           A2 == Point(Own(A), Twin(A), << >>, << >>, {n})
           A3 == Owns(A2, x, "leaf")
           B == Point(Own(A3), Twin(A3), HoleOf(A3), Fill(A3), {})
<1>1. /\ t1.op = "loop" /\ t1.to = << >> /\ t1.from = << >> /\ t1.args = << >> /\ t1.nest = n
      /\ t2.op = "test" /\ t2.to = range /\ t2.from = <<f>> /\ t2.args = << >> /\ t2.nest = n
      /\ t3.op = "new" /\ t3.to = <<x>> /\ t3.from = << >> /\ t3.args = << >> /\ t3.kind = "leaf"
      /\ t4.op = "copy" /\ t4.to = <<x>> /\ t4.from = <<f, "#">> /\ t4.args = << >> /\ t4.nest = n
  BY DEF ForBegins, Says
<1>2. /\ Own(A) = O /\ DOMAIN Twin(A) = DOMAIN T /\ (\A u \in DOMAIN T : Twin(A)[u] = T[u])
      /\ HoleOf(A) = << >> /\ Fill(A) = << >> /\ Turns(A) = {}
  BY DEF Left
<1>3. Way(E1) = "fresh" /\ Top(E1) = A /\ Out(E1) = Y
  BY EntryIs
<1>4. Begins(t1, A, D, A, D1)
  BY <1>1, <1>2 DEF Begins, Bare
<1>5. n \in DOMAIN D1 /\ D1[n] = E1
  BY DEF With
<1>6. D2 = With(D1, n, Entry("loop", Top(D1[n]), Out(D1[n])))
  <2>1. D2 = With(D1, n, Entry("loop", A, Y))
    BY DEF With
  <2> HIDE DEF E1, D1
  <2> QED
    BY <1>3, <1>5, <2>1
<1>7. Leads(A, A)
  BY <1>2, Selfleads
<1> HIDE DEF E1, D1
<1>8. y \in DOMAIN Own(A) /\ (f = y \/ (f \in DOMAIN Twin(A) /\ Twin(A)[f] = <<y>>))
  BY DEF StandsFor
<1>9. Tests(t2, A, D1, A2, D2)
  <2>1. t2.from # << >> /\ A2 = Point(Own(A), Twin(A), << >>, << >>, IF t2.from # << >> THEN {t2.nest} ELSE {})
    BY <1>1
  <2>2. n \in DOMAIN D1 \cap Nests /\ Way(D1[n]) = "fresh" /\ Top(D1[n]) = A /\ Leads(A, Out(D1[n]))
    BY <1>3, <1>5
  <2>3. range # << >> => \E g \in DOMAIN Twin(A), z \in DOMAIN Own(A) :
                           <<f>> = <<g>> /\ range = <<z>> /\ Twin(A)[g] = <<z>>
    BY <1>8
  <2> HIDE DEF A2
  <2> QED
    BY <1>1, <1>6, <1>7, <2>1, <2>2, <2>3 DEF Tests
<1>10. Own(A2) = O /\ Twin(A2) = Twin(A) /\ HoleOf(A2) = << >> /\ Fill(A2) = << >> /\ Turns(A2) = {n}
  BY <1>2, PointIs
<1> HIDE DEF A2
<1>11. Creates(t3, A2, A3)
  <2>1. IsFree(A2, x)
    BY <1>2, <1>10 DEF IsFree
  <2> QED
    BY <1>1, <2>1 DEF Creates
<1>12. OwnMade(A2, x, "leaf", A3)
  <2> DEFINE k == "leaf"
  <2>1. A3 = Owns(A2, x, k)
    OBVIOUS
  <2> HIDE DEF k, A3
  <2>2. OwnMade(A2, x, k, A3)
    BY <2>1, OwnsIs
  <2> QED
    BY <2>2 DEF k
<1> HIDE DEF A3
<1>13. /\ DOMAIN Own(A3) = DOMAIN O \cup {x} /\ Own(A3)[x] = "leaf" /\ Own(A3) = P
       /\ (\A z \in DOMAIN O : z # x => Own(A3)[z] = O[z]) /\ Twin(A3) = Twin(A)
       /\ HoleOf(A3) = << >> /\ Fill(A3) = << >> /\ Turns(A3) = {n}
  BY <1>10, <1>12 DEF OwnMade
<1>14. Copies(t4, A3, B)
  <2>1. StandsFor(A3, f, y) /\ HasRows(A3, y) /\ y \in DOMAIN Own(A3)
    BY <1>2, <1>8, <1>13 DEF StandsFor, HasRows
  <2>2. OutsideHole(A3, <<x>>)
    BY <1>13 DEF OutsideHole
  <2>3. x \in DOMAIN Own(A3)
    BY <1>13
  <2>4. \E g \in Names, z \in DOMAIN Own(A3) :
          /\ StandsFor(A3, g, z) /\ HasRows(A3, z) /\ HoleOf(A3) = << >>
          /\ t4.from = <<g, "#">> /\ t4.nest \in Turns(A3)
    BY <1>1, <1>13, <2>1
  <2> HIDE DEF B
  <2>5. B = Point(Own(A3), Twin(A3), HoleOf(A3), Fill(A3), {})
    BY DEF B
  <2> QED
    BY <1>1, <2>2, <2>3, <2>4, <2>5 DEF Copies
<1>15. Own(B) = Own(A3) /\ Twin(B) = Twin(A3) /\ HoleOf(B) = HoleOf(A3) /\ Fill(B) = Fill(A3) /\ Turns(B) = {}
  BY PointIs
<1> HIDE DEF B
<1>16. Left(B, P, T, << >>)
  BY <1>2, <1>13, <1>15 DEF Left
<1>17. Course(<<t1, t2, t3, t4>>, A, D, B, D2)
  <2>1. Flow(t1, A, D, A, D1) /\ Flow(t2, A, D1, A2, D2)
    BY <1>4, <1>9 DEF Flow
  <2>2. Effect(t3, A2, A3) /\ Effect(t4, A3, B)
    BY <1>11, <1>14 DEF Effect
  <2>3. Flow(t3, A2, D2, A3, D2) /\ Flow(t4, A3, D2, B, D2)
    BY <2>2, CourseEffect
  <2>4. Course(<<t1, t2>>, A, D, A2, D2)
    BY <2>1, CourseTwo
  <2>5. Course(<<t1, t2>> \o <<t3>>, A, D, A3, D2)
    BY <2>3, <2>4, CourseAnd
  <2>6. Course(<<t1, t2, t3>>, A, D, A3, D2)
    BY <2>5, Last3
  <2>7. Course(<<t1, t2, t3>> \o <<t4>>, A, D, B, D2)
    BY <2>3, <2>6, CourseAnd
  <2> QED
    BY <2>7, Last4
<1> QED
  BY <1>16, <1>17

-----------------------------------------------------------------------------
\* What is known grows with the scopes and constructs.

LEMMA GrownEmpty ==
  ASSUME NEW A, NEW ss, NEW k \in Nat, NEW os, NEW n, Shape(A, ss, k, os, n), NEW k2, k2 = k + 1, ToSet(ss[k2]) = {}
  PROVE  Shape(A, ss, k2, os, n)
<1>1. k2 \in Nat \ {0} /\ k2 - 1 = k
  OBVIOUS
<1>2. VarsIn(ss, k2) = VarsIn(ss, k2 - 1) \cup ToSet(ss[k2])
  BY <1>1, VarsNext
<1>3. VarsIn(ss, k2) = VarsIn(ss, k)
  BY <1>1, <1>2
<1>4. HeldIn(ss, k2) = HeldIn(ss, k)
  BY <1>3 DEF HeldIn
<1> QED
  BY <1>3, <1>4 DEF Shape, OwnsScopes

\* A scope with one variable that the point owns.
LEMMA GrownOne ==
  ASSUME NEW A, NEW ss, NEW k \in Nat, NEW os, NEW n, Shape(A, ss, k, os, n), NEW k2, k2 = k + 1,
         NEW v, ToSet(ss[k2]) = {v}, NEW x, x = v.name, x \notin HeldIn(ss, k), NEW t, t = SortOf(v),
         NEW P, P = With(Own(A), x, t), NEW B, Left(B, P, Twin(A), << >>)
  PROVE  Shape(B, ss, k2, os, n)
<1>1. k2 \in Nat \ {0} /\ k2 - 1 = k
  OBVIOUS
<1>2. VarsIn(ss, k2) = VarsIn(ss, k2 - 1) \cup ToSet(ss[k2])
  BY <1>1, VarsNext
<1>3. VarsIn(ss, k2) = VarsIn(ss, k) \cup {v}
  BY <1>1, <1>2
<1>4. HeldIn(ss, k2) = HeldIn(ss, k) \cup {x}
  BY <1>3 DEF HeldIn
<1>5. Shaped(A, ss, k, os, n)
  BY ShapeIs
<1>6. DOMAIN P = DOMAIN Own(A) \cup {x} /\ P[x] = t /\ (\A y \in DOMAIN Own(A) : y # x => P[y] = Own(A)[y]) /\ P = [y \in DOMAIN P |-> P[y]]
  BY DEF With
<1>7. Own(B) = P /\ DOMAIN Twin(B) = DOMAIN Twin(A) /\ (\A u \in DOMAIN Twin(A) : Twin(B)[u] = Twin(A)[u])
      /\ HoleOf(B) = << >> /\ Fill(B) = << >> /\ Turns(B) = {}
  BY DEF Left
<1>8. DOMAIN Own(A) = HeldIn(ss, k)
  BY <1>5 DEF Shaped
<1>9. \A w \in VarsIn(ss, k2) : P[w.name] = SortOf(w)
  <2> SUFFICES ASSUME NEW w \in VarsIn(ss, k2) PROVE P[w.name] = SortOf(w)
    OBVIOUS
  <2>1. CASE w = v
    BY <1>6, <2>1
  <2>2. CASE w # v
    <3>1. w \in VarsIn(ss, k)
      BY <1>3, <2>2
    <3>2. w.name \in HeldIn(ss, k) /\ w.name # x
      BY <3>1 DEF HeldIn
    <3>3. Own(A)[w.name] = SortOf(w)
      BY <1>5, <3>1 DEF Shaped
    <3> QED
      BY <1>6, <1>8, <3>2, <3>3
  <2> QED
    BY <2>1, <2>2
<1>10. \A y \in Also : P[y] = KindOf(y)
  <2>1. \A y \in Also : y \in HeldIn(ss, k) /\ y # x
    BY DEF HeldIn
  <2> QED
    BY <1>5, <1>6, <1>8, <2>1 DEF Shaped
<1>11. Shaped(B, ss, k2, os, n)
  <2>1. /\ DOMAIN Twin(A) = {RangeVar(m) : m \in Ranged(os, n)}
        /\ \A m \in Ranged(os, n) : Twin(A)[RangeVar(m)] = os[m].range
    BY <1>5 DEF Shaped
  <2>2. DOMAIN Own(B) = HeldIn(ss, k2) /\ Own(B) = [y \in DOMAIN Own(B) |-> Own(B)[y]]
    BY <1>4, <1>6, <1>7, <1>8
  <2>3. \A m \in Ranged(os, n) : Twin(B)[RangeVar(m)] = os[m].range
    BY <1>7, <2>1
  <2> QED
    BY <1>7, <1>9, <1>10, <2>1, <2>2, <2>3 DEF Shaped
<1> QED
  BY <1>11, ShapeBy

\* A construct that walks no variable.
LEMMA GrownConstruct ==
  ASSUME NEW A, NEW ss, NEW k, NEW os, NEW n \in Nat \ {0}, NEW m, m = n - 1, Shape(A, ss, k, os, m), os[n].range = << >>
  PROVE  Shape(A, ss, k, os, n)
<1>1. Ranged(os, n) = Ranged(os, m)
  BY RangedNext
<1> QED
  BY <1>1 DEF Shape, WalksRanges

\* A construct that walks a variable: the range is a twin of it.
LEMMA GrownRange ==
  ASSUME NEW A, NEW ss, NEW k, NEW os, NEW n \in 1..3, NEW m, m = n - 1, Shape(A, ss, k, os, m), os[n].range # << >>,
         NEW B, TwinMade(A, RangeVar(n), os[n].range, B)
  PROVE  Shape(B, ss, k, os, n)
<1>1. Ranged(os, n) = Ranged(os, m) \cup {n}
  <2>1. n \in Nat \ {0}
    OBVIOUS
  <2> QED
    BY <2>1, RangedNext
<1>2. \A r \in Ranged(os, m) : r \in 1..3 /\ r # n
  BY DEF Ranged
<1>3. \A r \in Ranged(os, m) : RangeVar(r) # RangeVar(n)
  <2>1. \A i, j \in 1..3 : RangeVar(i) = RangeVar(j) => i = j
    BY NamesApart
  <2> QED
    BY <1>2, <2>1
<1>4. Shaped(A, ss, k, os, m)
  BY ShapeIs
<1> DEFINE f == RangeVar(n)
           l == os[n].range
<1>5. /\ Own(B) = Own(A) /\ DOMAIN Twin(B) = DOMAIN Twin(A) \cup {f}
      /\ Twin(B)[f] = l /\ \A u \in DOMAIN Twin(A) : u # f => Twin(B)[u] = Twin(A)[u]
      /\ HoleOf(B) = HoleOf(A) /\ Fill(B) = Fill(A) /\ Turns(B) = Turns(A)
  BY DEF TwinMade
<1>6. /\ DOMAIN Twin(A) = {RangeVar(r) : r \in Ranged(os, m)}
      /\ \A r \in Ranged(os, m) : Twin(A)[RangeVar(r)] = os[r].range
  BY <1>4 DEF Shaped
<1>7. {RangeVar(r) : r \in Ranged(os, n)} = {RangeVar(r) : r \in Ranged(os, m)} \cup {f}
  BY <1>1
<1>8. \A r \in Ranged(os, n) : Twin(B)[RangeVar(r)] = os[r].range
  BY <1>1, <1>3, <1>5, <1>6
<1>9. Shaped(B, ss, k, os, n)
  BY <1>4, <1>5, <1>6, <1>7, <1>8 DEF Shaped
<1> QED
  BY <1>9, ShapeBy

\* Two sequences, one behind the other.
LEMMA PairMore ==
  ASSUME NEW S, NEW ss, ss \in Seq(S), NEW t, t \in Seq(S), NEW N, N = Len(ss), NEW s2, s2 = ss \o t
  PROVE  /\ s2 \in Seq(S) /\ Len(s2) = N + Len(t) /\ (\A i \in 1..N : s2[i] = ss[i])
         /\ N \in Nat /\ \A i \in 1..Len(t) : s2[N + i] = t[i]
<1>1. /\ ss \o t \in Seq(S) /\ Len(ss \o t) = Len(ss) + Len(t)
      /\ (\A i \in 1..Len(ss) : (ss \o t)[i] = ss[i])
      /\ (\A i \in 1..Len(t) : (ss \o t)[Len(ss) + i] = t[i])
  BY JoinedIs
<1>2. Len(ss) \in Nat
  OBVIOUS
<1> QED
  BY <1>1, <1>2, Zenon

\* Two more elements.
LEMMA TwoMore ==
  ASSUME NEW S, NEW ss, ss \in Seq(S), NEW a, a \in S, NEW b, b \in S, NEW N, N = Len(ss), NEW s2, s2 = ss \o <<a, b>>
  PROVE  /\ s2 \in Seq(S) /\ Len(s2) = N + 2 /\ (\A i \in 1..N : s2[i] = ss[i])
         /\ s2[N + 1] = a /\ s2[N + 2] = b
<1> DEFINE tl == <<a, b>>
<1>1. tl \in Seq(S) /\ Len(tl) = 2 /\ tl[1] = a /\ tl[2] = b
  OBVIOUS
<1>2. s2 = ss \o tl
  OBVIOUS
<1> HIDE DEF tl
<1>3. /\ s2 \in Seq(S) /\ Len(s2) = N + Len(tl) /\ (\A i \in 1..N : s2[i] = ss[i])
      /\ N \in Nat /\ \A i \in 1..Len(tl) : s2[N + i] = tl[i]
  BY <1>1, <1>2, PairMore
<1>4. 1 \in 1..Len(tl) /\ 2 \in 1..Len(tl)
  BY <1>1
<1> QED
  BY <1>1, <1>3, <1>4, Zenon

Behind(s2, S, ss, a, b) ==
  /\ s2 \in Seq(S) /\ Len(s2) = Len(ss) + 2 /\ (\A i \in 1..Len(ss) : s2[i] = ss[i])
  /\ s2[Len(ss) + 1] = a /\ s2[Len(ss) + 2] = b

\* Two more elements, named.
LEMMA TwoBehind ==
  ASSUME NEW S, NEW ss, ss \in Seq(S), NEW a, a \in S, NEW b, b \in S
  PROVE  Behind(ss \o <<a, b>>, S, ss, a, b)
<1> DEFINE s2 == ss \o <<a, b>>
           N == Len(ss)
<1>1. s2 = ss \o <<a, b>> /\ N = Len(ss)
  OBVIOUS
<1> HIDE DEF s2, N
<1>2. /\ s2 \in Seq(S) /\ Len(s2) = N + 2 /\ (\A i \in 1..N : s2[i] = ss[i])
      /\ s2[N + 1] = a /\ s2[N + 2] = b
  BY <1>1, TwoMore
<1>3. Behind(s2, S, ss, a, b)
  BY <1>2 DEF N, Behind
<1> QED
  BY <1>3 DEF s2

ForOpened(x, n, f, range, e, s2, o2) ==
  /\ Opens(scopes, open, s2, o2, e) /\ Tidy(s2, o2) /\ Kept1(e) = Len(scopes) + 1
  /\ ToSet(s2[Len(scopes) + 1]) = (IF range = << >> THEN {ScopeVar(f, TRUE)} ELSE {})
  /\ ToSet(s2[Len(scopes) + 2]) = {ScopeVar(x, TRUE)}
  /\ n \in 1..3 /\ f \notin HeldIn(scopes, Len(scopes)) /\ x \notin HeldIn(scopes, Len(scopes)) /\ x # f
  /\ e.kind = "for" /\ e.range = range
  /\ n = Len(open) + 1 /\ f = RangeVar(n)

\* What opening a `for` makes of scopes and constructs.
LEMMA OpenedFor ==
  ASSUME Tidy(scopes, open), job \in Jobs, Len(open) < 3, NEW x \in Given1 \ Visible,
         NEW n, n = Len(open) + 1, NEW f, f = RangeVar(n), NEW range, NEW held,
         \/ range = << >> /\ held = <<ScopeVar(f, TRUE)>>
         \/ held = << >> /\ \E w \in Visible : w \in ToSet(Trees) /\ range = <<w>>,
         NEW e, e = Construct("for", range), NEW s2, s2 = scopes \o <<held, <<ScopeVar(x, TRUE)>>>>,
         NEW o2, o2 = Append(open, e)
  PROVE  ForOpened(x, n, f, range, e, s2, o2)
<1> DEFINE K == Len(scopes)
           vf == ScopeVar(f, TRUE)
           vx == ScopeVar(x, TRUE)
           K1 == K + 1
           K2 == K + 2
<1>1. K \in Nat \ {0} /\ scopes \in Seq(Seq(Variables)) /\ open \in Seq(Constructs) /\ Len(open) \in 0..3
  BY TidyIs DEF Tidy
<1>2. n \in 1..3 /\ n \notin 1..Len(open)
  <2> DEFINE a == Len(open)
  <2>1. a \in 0..3 /\ a < 3 /\ n = a + 1
    BY <1>1
  <2> HIDE DEF a
  <2>2. n \in 1..3 /\ n \notin 1..a
    BY <2>1
  <2> QED
    BY <2>2 DEF a
<1>3. /\ f \in RangeVars /\ f \in Names \ Given1 /\ (\A m \in 1..3 : f = RangeVar(m) => m = n)
      /\ x \in Names /\ x \notin RangeVars /\ \A m \in 1..3 : x # RangeVar(m)
  <2>1. \A m \in 1..3 : RangeVar(m) \in RangeVars /\ RangeVar(m) \in Names \ Given1
    BY NamesApart
  <2>2. \A i, j \in 1..3 : RangeVar(i) = RangeVar(j) => i = j
    BY NamesApart
  <2>3. Given1 \subseteq Names /\ RangeVars \cap Given1 = {}
    BY NamesApart
  <2> QED
    BY <1>2, <2>1, <2>2, <2>3
<1>4. x \notin HeldIn(scopes, K)
  BY <1>3, VisibleIs
<1>5. f \notin HeldIn(scopes, K)
  <2>1. \A m \in 1..3 : RangeVar(m) \in HeldIn(scopes, K) => m \in 1..Len(open)
    <3>1. K \in 0..Len(scopes)
      BY <1>1
    <3> HIDE DEF K
    <3>2. \A m \in 1..3 : RangeVar(m) \in HeldIn(scopes, K) =>
            m \in 1..Len(open) /\ open[m].kind = "for" /\ open[m].range = << >> /\ open[m].outer + 1 \in 1..K
      BY <3>1, HeldAre
    <3> QED
      BY <3>2
  <2> QED
    BY <1>2, <2>1
<1>6. x \notin Also /\ f \notin Also
  BY <1>4, <1>5 DEF HeldIn
<1>7. vf \in Variables /\ vf.name = f /\ vf.owned /\ vx \in Variables /\ vx.name = x /\ vx.owned
  BY <1>3 DEF ScopeVar, Variables
<1>8. Named(vf) /\ Named(vx)
  BY <1>3, <1>6, <1>7 DEF Named, Given1
<1> HIDE DEF vf, vx
<1>9. range \in {<< >>} \cup {<<w>> : w \in ToSet(Trees)} /\ (range # << >> => range[1] \in Visible)
  <2>1. CASE range = << >>
    BY <2>1
  <2>2. CASE \E w \in Visible : w \in ToSet(Trees) /\ range = <<w>>
    <3>1. PICK w \in Visible : w \in ToSet(Trees) /\ range = <<w>>
      BY <2>2
    <3>2. range[1] = w
      BY <3>1
    <3>3. range \in {<<u>> : u \in ToSet(Trees)}
      BY <3>1
    <3> QED
      BY <3>1, <3>2, <3>3
  <2> QED
    BY <2>1, <2>2
<1>10. e.kind = "for" /\ e.outer = K /\ e.range = range /\ e \in Constructs
  BY <1>1, <1>9 DEF Construct, Constructs
<1>11. Width(e) = 2
  BY <1>10 DEF Width
<1> HIDE DEF K
<1>12. Kept1(e) = K + 1
  BY <1>1, <1>10, <1>11 DEF Kept1
<1>13. held \in Seq(Variables) /\ <<vx>> \in Seq(Variables)
  <2>1. <<vf>> \in Seq(Variables) /\ <<vx>> \in Seq(Variables) /\ << >> \in Seq(Variables)
    BY <1>7
  <2>2. held = <<vf>> \/ held = << >>
    BY DEF vf
  <2> QED
    BY <2>1, <2>2
<1>14. /\ s2 \in Seq(Seq(Variables)) /\ Len(s2) = K2 /\ (\A i \in 1..K : s2[i] = scopes[i])
       /\ s2[K1] = held /\ s2[K2] = <<vx>>
  <2> DEFINE S == Seq(Variables)
             ox == <<vx>>
  <2>1. scopes \in Seq(S) /\ held \in S /\ ox \in S
    BY <1>1, <1>13
  <2>2. s2 = scopes \o <<held, ox>>
    BY DEF vx
  <2> HIDE DEF ox, S
  <2>3. Behind(scopes \o <<held, ox>>, S, scopes, held, ox)
    BY <2>1, TwoBehind, Zenon
  <2>4. Behind(s2, S, scopes, held, ox)
    BY <2>2, <2>3, Zenon
  <2> QED
    BY <2>4, Zenon DEF S, ox, K, Behind
<1>15. o2 \in Seq(Constructs) /\ Len(o2) = Len(open) + 1 /\ (\A m \in 1..Len(open) : o2[m] = open[m]) /\ o2[Len(o2)] = e
  BY <1>1, <1>10
<1>16. Opens(scopes, open, s2, o2, e)
  BY <1>10, <1>11, <1>14, <1>15 DEF Opens, K
<1>17. ToSet(s2[K2]) = {vx} /\ Len(s2[K2]) = 1
  <2>1. ToSet(<<vx>>) = {vx} /\ Len(<<vx>>) = 1
    BY DEF ToSet
  <2>2. s2[K2] = <<vx>>
    BY <1>14
  <2> HIDE DEF K2
  <2> QED
    BY <2>1, <2>2
<1>18. ToSet(s2[K1]) = (IF range = << >> THEN {vf} ELSE {}) /\ Len(s2[K1]) \in 0..1
  <2>1. ToSet(<<vf>>) = {vf} /\ Len(<<vf>>) = 1 /\ ToSet(<< >>) = {} /\ Len(<< >>) = 0
    BY DEF ToSet
  <2>2. s2[K1] = held
    BY <1>14
  <2> DEFINE sc == s2[K1]
  <2> HIDE DEF K1, sc
  <2>6. sc = held
    BY <2>2 DEF sc
  <2>7. 0 \in 0..1 /\ 1 \in 0..1
    OBVIOUS
  <2>3. CASE range = << >> /\ held = <<vf>>
    <3>1. ToSet(sc) = {vf} /\ Len(sc) = 1
      BY <2>1, <2>3, <2>6
    <3>2. Len(sc) \in 0..1
      BY <2>7, <3>1
    <3> QED
      BY <2>3, <3>1, <3>2 DEF sc
  <2>4. CASE held = << >> /\ range # << >>
    <3>1. ToSet(sc) = {} /\ Len(sc) = 0
      BY <2>1, <2>4, <2>6
    <3>2. Len(sc) \in 0..1
      BY <2>7, <3>1
    <3> QED
      BY <2>4, <3>1, <3>2 DEF sc
  <2>5. \A w : <<w>> # << >>
    OBVIOUS
  <2> QED
    BY <2>3, <2>4, <2>5 DEF vf
<1>19. \A i \in 1..Len(s2) : i > K => i = K1 \/ i = K2
  <2>1. K \in Nat /\ Len(s2) = K + 2
    BY <1>1, <1>14 DEF K
  <2> HIDE DEF K
  <2> QED
    BY <2>1
<1>20. K1 # K2
  BY <1>1 DEF K
<1> HIDE DEF K1, K2
<1>21. Fresh(scopes, open, s2, e)
  <2>1. ASSUME NEW i \in 1..Len(s2), i > K
        PROVE  /\ Len(s2[i]) \in 0..1
               /\ \A v \in ToSet(s2[i]) :
                    /\ Named(v) /\ v.name \notin HeldIn(scopes, K)
                    /\ \A m \in 1..3 : v.name = RangeVar(m) =>
                         m = Len(open) + 1 /\ e.kind = "for" /\ e.range = << >> /\ i = K + 1
    <3>1. CASE i = K2
      <4>1. ToSet(s2[i]) = {vx} /\ Len(s2[i]) = 1
        BY <1>17, <3>1
      <4>2. ASSUME NEW v \in ToSet(s2[i])
            PROVE  Named(v) /\ v.name \notin HeldIn(scopes, K) /\ \A m \in 1..3 : v.name # RangeVar(m)
        <5>1. v = vx
          BY <4>1
        <5> QED
          BY <1>3, <1>4, <1>7, <1>8, <5>1
      <4>3. Len(s2[i]) \in 0..1
        BY <4>1
      <4> QED
        BY <4>2, <4>3
    <3>2. CASE i = K1
      <4>1. Len(s2[i]) \in 0..1 /\ \A v \in ToSet(s2[i]) : v = vf /\ range = << >>
        BY <1>18, <3>2
      <4>2. i = K + 1
        BY <3>2 DEF K1
      <4> QED
        BY <1>3, <1>5, <1>7, <1>8, <1>10, <4>1, <4>2, Zenon
    <3> QED
      BY <1>19, <2>1, <3>1, <3>2
  <2>2. ASSUME NEW i1 \in 1..Len(s2), NEW i2 \in 1..Len(s2), i1 > K, i2 > K,
               NEW v \in ToSet(s2[i1]), NEW w \in ToSet(s2[i2]), v.name = w.name
        PROVE  i1 = i2
    <3>1. i1 = K1 => v = vf
      BY <1>18
    <3>2. i1 = K2 => v = vx
      BY <1>17
    <3>3. i2 = K1 => w = vf
      BY <1>18
    <3>4. i2 = K2 => w = vx
      BY <1>17
    <3>5. vx.name # vf.name
      BY <1>3, <1>7
    <3> QED
      BY <1>19, <2>2, <3>1, <3>2, <3>3, <3>4, <3>5
  <2>3. e.range # << >> => e.kind = "for" /\ e.range[1] \in HeldIn(scopes, K)
    BY <1>9, <1>10, VisibleIs DEF K
  <2> QED
    BY <2>1, <2>2, <2>3 DEF Fresh, K
<1>22. Tidy(s2, o2)
  BY <1>16, <1>21, OpenTidy
<1> QED
  BY <1>2, <1>3, <1>4, <1>5, <1>10, <1>12, <1>16, <1>17, <1>18, <1>22 DEF K, K1, K2, vf, vx, ForOpened

-----------------------------------------------------------------------------
\* `for`, whatever it walks.

LEMMA ForHeld ==
  ASSUME Tidy(scopes, open), NEW x, NEW n, NEW f, NEW range, NEW e, NEW s2, NEW o2,
         ForOpened(x, n, f, range, e, s2, o2), NEW K1, K1 = Len(scopes) + 1
  PROVE  x \notin HeldIn(s2, K1) /\ K1 \in Nat \ {0} /\ Len(s2) = K1 + 1 /\ Len(o2) = n /\ n \in 1..3 /\ Kept1(o2[n]) = K1
         /\ o2[n] = e
<1> DEFINE K == Len(scopes)
<1>1. K \in Nat \ {0} /\ Len(open) \in Nat
  BY TidyIs
<1>2. /\ Len(o2) = Len(open) + 1 /\ o2[Len(o2)] = e
      /\ Len(s2) = K + Width(e) /\ \A i \in 1..K : s2[i] = scopes[i]
  BY DEF ForOpened, Opens
<1>3. Width(e) = 2
  BY DEF ForOpened, Width
<1>4. K1 \in Nat \ {0} /\ K1 - 1 = K /\ K1 = K + 1 /\ Len(s2) = K1 + 1
  BY <1>1, <1>2, <1>3
<1>5. n = Len(o2) /\ n \in 1..3 /\ Kept1(o2[n]) = K1 /\ o2[n] = e
  BY <1>2 DEF ForOpened
<1>6. ToSet(s2[K1]) \subseteq {ScopeVar(f, TRUE)} /\ x \notin HeldIn(scopes, K) /\ x # f
  BY DEF ForOpened
<1>7. ScopeVar(f, TRUE).name = f
  BY DEF ScopeVar
<1> HIDE DEF K
<1>8. VarsIn(s2, K1) = VarsIn(s2, K) \cup ToSet(s2[K1])
  BY <1>4, VarsNext
<1>9. VarsIn(s2, K) = VarsIn(scopes, K)
  BY <1>2, VarsSame
<1>10. HeldIn(s2, K1) \subseteq HeldIn(scopes, K) \cup {f}
  BY <1>6, <1>7, <1>8, <1>9 DEF HeldIn
<1> QED
  BY <1>4, <1>5, <1>6, <1>10

\* Whatever a `for` walks, when its statements lead to where the range is known the
\* walk goes on.
LEMMA ForWalks ==
  ASSUME Tidy(scopes, open), job \in Jobs, NEW A, NEW D, Drawn(A, D),
         NEW x, x \in Given1 \ Visible, KindOf(x) = "leaf",
         NEW n, NEW f, NEW range, NEW e, NEW s2, NEW o2, ForOpened(x, n, f, range, e, s2, o2),
         NEW ss, NEW t1, NEW t2, NEW t3, NEW t4, ForBegins(t1, t2, t3, t4, n, range, f, x),
         Emit(ss \o <<t1, t2, t3, t4>>), scopes' = s2, open' = o2,
         NEW K1, K1 = Len(scopes) + 1, NEW m, m = n - 1,
         NEW A1, Course(ss, A, D, A1, D), Shape(A1, s2, K1, o2, n),
         NEW Y, Leads(A1, Y), Shape(Y, s2, K1, o2, m),
         NEW y, StandsFor(A1, f, y), Own(A1)[y] \in {"tree", "frame"},
         range = << >> \/ (f \in DOMAIN Twin(A1) /\ range = <<y>> /\ Twin(A1)[f] = <<y>>)
  PROVE  WalksOn
<1> DEFINE v == ScopeVar(x, TRUE)
           O == Own(A1)
           T == Twin(A1)
           P == With(O, x, "leaf")
           E == Entry("loop", A1, Y)
           D2 == With(D, n, E)
           ts == <<t1, t2, t3, t4>>
           K2 == K1 + 1
<1>1. /\ x \notin HeldIn(s2, K1) /\ K1 \in Nat \ {0} /\ Len(s2) = K1 + 1 /\ Len(o2) = n /\ n \in 1..3 /\ Kept1(o2[n]) = K1
      /\ o2[n] = e
  BY ForHeld
<1>2. Shaped(A1, s2, K1, o2, n)
  BY ShapeIs
<1>3. x \in Given1 /\ x \in Names /\ x \notin RangeVars /\ x \notin ToSet(Trees)
  <2>1. Given1 \subseteq Names /\ RangeVars \cap Given1 = {}
    BY NamesApart
  <2>2. x \notin ToSet(Trees)
    BY DEF KindOf
  <2> QED
    BY <2>1, <2>2
<1>4. v.name = x /\ SortOf(v) = "leaf"
  BY <1>3 DEF ScopeVar, SortOf
<1>5. x \notin DOMAIN O /\ x \notin DOMAIN T
  <2>1. DOMAIN O = HeldIn(s2, K1) /\ DOMAIN T = {RangeVar(r) : r \in Ranged(o2, n)}
    BY <1>2 DEF Shaped
  <2>2. \A r \in 1..3 : RangeVar(r) \in RangeVars
    BY NamesApart
  <2>3. \A r \in Ranged(o2, n) : r \in 1..3
    BY <1>1 DEF Ranged
  <2> QED
    BY <1>1, <1>3, <2>1, <2>2, <2>3
<1>6. Left(A1, O, T, << >>)
  BY <1>2 DEF Shaped, Left
<1>7. n \in Nests /\ n \notin DOMAIN D
  <2>1. DOMAIN D = {i \in 1..Len(open) : open[i].kind # "block"}
    BY DrawnIs, FramedIs
  <2>2. n = Len(open) + 1 /\ Len(open) \in Nat
    BY TidyIs DEF ForOpened
  <2>3. n \notin 1..Len(open)
    BY <2>2
  <2> QED
    BY <1>1, <2>1, <2>3 DEF Nests
<1>8. f \in Names
  <2>1. \A r \in 1..3 : RangeVar(r) \in Names
    BY NamesApart
  <2> QED
    BY <1>1, <2>1 DEF ForOpened
<1> HIDE DEF v, O, T, E, D2
<1>9. \E B : Course(<<t1, t2, t3, t4>>, A1, D, B, D2) /\ Left(B, P, T, << >>)
  BY <1>3, <1>5, <1>6, <1>7, <1>8, LoopFor DEF D2, E, O, T
<1>10. PICK B : Course(ts, A1, D, B, D2) /\ Left(B, P, T, << >>)
  BY <1>9
<1> HIDE DEF ts, P
<1>11. Written(code', owners', Also, Start, B, D2)
  <2>1. Course(ss \o ts, A, D, B, D2)
    BY <1>10, CourseThen
  <2>2. Emit(ss \o ts)
    BY DEF ts
  <2> QED
    BY <2>1, <2>2, Extends
<1>12. Shape(B, s2, Len(s2), o2, Len(o2))
  <2>1. K2 = Len(s2) /\ n = Len(o2) /\ K1 \in Nat
    BY <1>1
  <2>2. ToSet(s2[K2]) = {v}
    <3>1. Len(scopes) \in Nat
      BY TidyIs
    <3>2. K2 = Len(scopes) + 2
      BY <3>1
    <3> QED
      BY <3>2 DEF ForOpened, v
  <2>3. P = With(Own(A1), x, "leaf") /\ Left(B, P, Twin(A1), << >>)
    BY <1>10 DEF P, O, T
  <2>4. "leaf" = SortOf(v) /\ x = v.name /\ x \notin HeldIn(s2, K1)
    BY <1>1, <1>4
  <2>5. K2 = K1 + 1
    OBVIOUS
  <2> HIDE DEF K2
  <2> DEFINE t == "leaf"
  <2>6. t = SortOf(v) /\ P = With(Own(A1), x, t)
    BY <2>3, <2>4
  <2> HIDE DEF t
  <2>7. Shape(B, s2, K2, o2, n)
    BY <2>1, <2>2, <2>3, <2>4, <2>5, <2>6, GrownOne
  <2> QED
    BY <2>1, <2>7
<1>13. Way(E) = "loop" /\ Top(E) = A1 /\ Out(E) = Y
  BY EntryIs DEF E
<1>14. e.kind = "for" /\ Opens(scopes, open, s2, o2, e) /\ Tidy(s2, o2)
  BY DEF ForOpened
<1>15. Rests(E, s2, o2, Len(o2))
  BY <1>1, <1>13, <1>14 DEF Rests, Loop
<1>16. D2 = (IF e.kind = "block" THEN D ELSE With(D, Len(o2), E))
  BY <1>1, <1>14 DEF D2
<1>17. Framed(D2, s2, o2)
  <2>1. Framed(D, scopes, open)
    BY DrawnIs
  <2> QED
    BY <1>14, <1>15, <1>16, <2>1, FramedAdd
<1>18. Tidy(scopes', open') /\ DrawnOn(B, D2)
  BY <1>11, <1>12, <1>14, <1>17 DEF DrawnOn
<1> QED
  BY <1>18 DEF WalksOn

-----------------------------------------------------------------------------
\* `for` over a variable, and over a call's result.

LEMMA ForLoopIs ==
  ASSUME Tidy(scopes, open), job \in Jobs, NEW x, x \in Given1 \ Visible, NEW n, n = Len(open) + 1, NEW f, f = RangeVar(n),
         NEW range, NEW held, NEW before, ForLoop(x, held, range, before),
         \/ range = << >> /\ held = <<ScopeVar(f, TRUE)>>
         \/ held = << >> /\ \E w \in Visible : w \in ToSet(Trees) /\ range = <<w>>
  PROVE  \E e, t1, t2, t3, t4 :
           /\ ForOpened(x, n, f, range, e, scopes', open') /\ ForBegins(t1, t2, t3, t4, n, range, f, x)
           /\ Emit(before \o <<t1, t2, t3, t4>>)
<1> DEFINE e == Construct("for", range)
           s2 == scopes \o <<held, <<ScopeVar(x, TRUE)>>>>
           o2 == Append(open, e)
           t1 == Deeper("loop", << >>, << >>)
           t2 == Deeper("test", range, <<RangeVar(n)>>)
           t3 == [Deeper("new", <<x>>, << >>) EXCEPT !.kind = "leaf"]
           t4 == Deeper("copy", <<x>>, <<RangeVar(n), "#">>)
<1>1. Emit(before \o <<t1, t2, t3, t4>>) /\ open' = o2 /\ scopes' = s2 /\ Len(open) + 1 <= job.nest
  BY DEF ForLoop
<1>2. Len(open) < 3
  <2>1. job.nest \in 0..3
    BY JobsAssumption
  <2>2. Len(open) \in 0..3
    BY TidyIs
  <2> DEFINE a == Len(open)
             b == job.nest
  <2>3. a \in 0..3 /\ b \in 0..3 /\ a + 1 <= b
    BY <1>1, <2>1, <2>2
  <2> HIDE DEF a, b
  <2>4. a < 3
    BY <2>3
  <2> QED
    BY <2>4 DEF a
<1>3. /\ Says(t1, "loop", << >>, << >>) /\ t1.nest = n
      /\ Says(t2, "test", range, <<f>>) /\ t2.nest = n
  BY DeeperIs
<1>4. /\ Says(t3, "new", <<x>>, << >>) /\ t3.kind = "leaf"
      /\ Says(t4, "copy", <<x>>, <<f, "#">>) /\ t4.nest = n
  BY DeeperIs, SMTT(30)
<1>5. ForBegins(t1, t2, t3, t4, n, range, f, x)
  <2> HIDE DEF t1, t2, t3, t4
  <2> QED
    BY <1>3, <1>4 DEF ForBegins
<1> HIDE DEF e, s2, o2, t1, t2, t3, t4
<1>6. e = Construct("for", range) /\ s2 = scopes \o <<held, <<ScopeVar(x, TRUE)>>>> /\ o2 = Append(open, e)
  BY DEF e, s2, o2
<1>7. ForOpened(x, n, f, range, e, s2, o2)
  BY <1>2, <1>6, OpenedFor, Zenon
<1>8. ForOpened(x, n, f, range, e, scopes', open')
  BY <1>1, <1>7
<1> QED
  BY <1>1, <1>5, <1>8

\* What was known before the `for` fits the longer scopes, too.
LEMMA ForBefore ==
  ASSUME Tidy(scopes, open), NEW A, Known(A), NEW x, NEW n, NEW f, NEW range, NEW e, NEW s2, NEW o2,
         ForOpened(x, n, f, range, e, s2, o2), NEW m, m = n - 1
  PROVE  Shape(A, s2, Len(scopes), o2, m) /\ m \in Nat /\ m = Len(open)
<1>1. /\ (\A i \in 1..Len(open) : o2[i] = open[i]) /\ \A i \in 1..Len(scopes) : s2[i] = scopes[i]
  BY DEF ForOpened, Opens
<1>2. m = Len(open) /\ m \in Nat
  BY TidyIs DEF ForOpened
<1>3. \A i \in 1..m : open[i].range = o2[i].range
  BY <1>1, <1>2
<1>4. Shape(A, scopes, Len(scopes), open, m)
  BY <1>2 DEF Known
<1>5. \A i \in 1..Len(scopes) : scopes[i] = s2[i]
  BY <1>1
<1>6. Shape(A, s2, Len(scopes), o2, m)
  BY <1>3, <1>4, <1>5, ShapeSame
<1> QED
  BY <1>2, <1>6

\* A `for` over a variable.
LEMMA OpenForWalks ==
  ASSUME Tidy(scopes, open), job \in Jobs, NEW A, NEW D, Drawn(A, D),
         NEW x, x \in Unused("leaf"), NEW w, w \in Visible, KindOf(w) = "tree", OpenFor(x, w)
  PROVE  WalksOn
<1> DEFINE n == Len(open) + 1
           m == n - 1
           f == RangeVar(n)
           range == <<w>>
           s == Move(<<f>>, range)
           ss == <<s>>
           held == << >>
           K == Len(scopes)
           K1 == K + 1
           O == Own(A)
           T == Twin(A)
           V == With(T, f, range)
<1>1. x \in Given1 \ Visible /\ KindOf(x) = "leaf"
  <2> DEFINE k == "leaf"
  <2>1. k \in {"leaf", "tree"} /\ x \in Unused(k)
    OBVIOUS
  <2> HIDE DEF k
  <2>2. x \in Given1 \ Visible /\ KindOf(x) = k
    BY <2>1, UnusedIs
  <2> QED
    BY <2>2 DEF k
<1>2. ForLoop(x, held, range, ss)
  BY DEF OpenFor
<1>3. w \in ToSet(Trees)
  BY DEF KindOf
<1>4. held = << >> /\ \E u \in Visible : u \in ToSet(Trees) /\ range = <<u>>
  BY <1>3
<1>5. range # << >> /\ Len(range) = 1 /\ range[1] = w
  OBVIOUS
<1>6. Says(s, "mov", <<f>>, range)
  BY StmSays DEF Move
<1>7. Known(A) /\ Sighted(A)
  BY DrawnIs, KnownIs
<1>8. n = Len(open) + 1 /\ f = RangeVar(n) /\ m = n - 1 /\ K1 = Len(scopes) + 1 /\ K1 = K + 1 /\ range = <<w>>
  OBVIOUS
<1> HIDE DEF n, m, f, range, held, ss, s, K1
<1>9. \E e, t1, t2, t3, t4 :
           /\ ForOpened(x, n, f, range, e, scopes', open') /\ ForBegins(t1, t2, t3, t4, n, range, f, x)
           /\ Emit(ss \o <<t1, t2, t3, t4>>)
  BY <1>1, <1>2, <1>4, <1>8, ForLoopIs, ZenonT(30)
<1>10. PICK e, t1, t2, t3, t4 :
           /\ ForOpened(x, n, f, range, e, scopes', open') /\ ForBegins(t1, t2, t3, t4, n, range, f, x)
           /\ Emit(ss \o <<t1, t2, t3, t4>>)
  BY <1>9
<1> DEFINE s2 == scopes'
           o2 == open'
<1>11. ForOpened(x, n, f, range, e, s2, o2) /\ scopes' = s2 /\ open' = o2
  BY <1>10
<1> HIDE DEF s2, o2
<1>12. /\ K1 \in Nat \ {0} /\ Len(o2) = n /\ n \in 1..3 /\ o2[n] = e
  BY <1>8, <1>11, ForHeld
<1>13. Shape(A, s2, K, o2, m)
  BY <1>7, <1>8, <1>11, ForBefore
<1>14. ToSet(s2[K1]) = {} /\ e.range = range /\ f \notin HeldIn(scopes, Len(scopes))
  BY <1>5, <1>8, <1>11 DEF ForOpened
<1>15. Shape(A, s2, K1, o2, m)
  <2>1. K \in Nat
    BY TidyIs
  <2> HIDE DEF K
  <2> QED
    BY <1>8, <1>13, <1>14, <2>1, GrownEmpty
<1>16. f \in Names /\ f \notin DOMAIN O /\ f \notin DOMAIN T
  <2>1. DOMAIN O = HeldIn(scopes, Len(scopes))
    BY <1>7 DEF Sighted
  <2>2. Shaped(A, scopes, Len(scopes), open, Len(open))
    BY <1>7, ShapeIs DEF Known
  <2>3. DOMAIN T = {RangeVar(r) : r \in Ranged(open, Len(open))}
    BY <2>2 DEF Shaped
  <2>4. Len(open) = m /\ m \in Nat
    BY <1>7, <1>8, <1>11, ForBefore
  <2>5. \A r \in Ranged(open, Len(open)) : r \in 1..3 /\ r # n
    BY <1>8, <1>12, <2>4 DEF Ranged
  <2>6. \A i, j \in 1..3 : RangeVar(i) = RangeVar(j) => i = j
    BY NamesApart
  <2>7. f \notin DOMAIN T
    BY <1>8, <1>12, <2>3, <2>5, <2>6
  <2>8. \A i \in 1..3 : RangeVar(i) \in Names
    BY NamesApart
  <2> QED
    BY <1>8, <1>12, <1>14, <2>1, <2>7, <2>8
<1>17. w \in DOMAIN O /\ O[w] \in {"tree", "frame"}
  BY <1>7 DEF Sighted, HasRows
<1>18. Left(A, O, T, << >>)
  BY <1>7, KnownLeft
<1> HIDE DEF O, T, V
<1>19. Passing(s, A, D, O, V, << >>)
  <2>1. InO(O, range)
    BY <1>8, <1>17 DEF InO
  <2>2. V = With(T, f, range)
    BY DEF V
  <2> QED
    BY <1>6, <1>16, <1>18, <2>1, <2>2, LeftTwin
<1>20. PICK A1 : Course(<<s>>, A, D, A1, D) /\ Left(A1, O, V, << >>)
  BY <1>19 DEF Passing
<1>21. TwinMade(A, f, range, A1)
  <2>1. DOMAIN V = DOMAIN T \cup {f} /\ V[f] = range /\ \A u \in DOMAIN T : u # f => V[u] = T[u]
    BY DEF V, With
  <2>2. /\ Own(A1) = O /\ DOMAIN Twin(A1) = DOMAIN V /\ (\A u \in DOMAIN V : Twin(A1)[u] = V[u])
        /\ HoleOf(A1) = << >> /\ Fill(A1) = << >> /\ Turns(A1) = {}
    BY <1>20 DEF Left
  <2>3. HoleOf(A) = << >> /\ Fill(A) = << >> /\ Turns(A) = {}
    BY <1>7 DEF Sighted
  <2> QED
    BY <2>1, <2>2, <2>3 DEF TwinMade, O, T
<1>22. Shape(A1, s2, K1, o2, n)
  <2>1. o2[n].range = range
    BY <1>12, <1>14
  <2>2. TwinMade(A, RangeVar(n), o2[n].range, A1)
    BY <1>8, <1>21, <2>1
  <2> QED
    BY <1>5, <1>8, <1>12, <1>15, <2>1, <2>2, GrownRange
<1>23. f \in DOMAIN Twin(A1) /\ Twin(A1)[f] = <<w>> /\ Own(A1) = O
  BY <1>8, <1>21 DEF TwinMade, O
<1>24. StandsFor(A1, f, w) /\ Own(A1)[w] \in {"tree", "frame"}
  BY <1>17, <1>23 DEF StandsFor
<1>25. Leads(A1, A)
  <2>1. HoleOf(A) = << >> /\ Turns(A) = {} /\ HoleOf(A1) = << >>
    BY <1>7, <1>20 DEF Sighted, Left
  <2>2. \A u \in DOMAIN T : u \in DOMAIN Twin(A1) /\ Twin(A1)[u] = T[u]
    BY <1>16, <1>21 DEF TwinMade, T
  <2> QED
    BY <1>23, <2>1, <2>2 DEF Leads, O, T
<1>26. Course(ss, A, D, A1, D)
  BY <1>20 DEF ss
<1> QED
  BY <1>1, <1>8, <1>10, <1>11, <1>15, <1>22, <1>23, <1>24, <1>25, <1>26, ForWalks

\* A `for` over what a call returns.
LEMMA OpenForResultWalks ==
  ASSUME Tidy(scopes, open), job \in Jobs, job.apart, NEW A, NEW D, Drawn(A, D),
         NEW x, x \in Unused("leaf"), NEW as, as \in Args, OpenForResult(x, as)
  PROVE  WalksOn
<1> DEFINE n == Len(open) + 1
           m == n - 1
           f == RangeVar(n)
           k == "tree"
           v == ScopeVar(f, TRUE)
           range == << >>
           ss == CallOf(as, <<f>>, k)
           held == <<v>>
           K == Len(scopes)
           K1 == K + 1
           O == Own(A)
           T == Twin(A)
           P == With(O, f, k)
<1>1. x \in Given1 \ Visible /\ KindOf(x) = "leaf"
  <2> DEFINE h == "leaf"
  <2>1. h \in {"leaf", "tree"} /\ x \in Unused(h)
    OBVIOUS
  <2> HIDE DEF h
  <2>2. x \in Given1 \ Visible /\ KindOf(x) = h
    BY <2>1, UnusedIs
  <2> QED
    BY <2>2 DEF h
<1>2. ForLoop(x, held, range, ss)
  BY DEF OpenForResult
<1>4. range = << >> /\ held = <<ScopeVar(f, TRUE)>>
  OBVIOUS
<1>7. Known(A) /\ Sighted(A)
  BY DrawnIs, KnownIs
<1>8. n = Len(open) + 1 /\ f = RangeVar(n) /\ m = n - 1 /\ K1 = Len(scopes) + 1 /\ K1 = K + 1 /\ v = ScopeVar(f, TRUE)
  OBVIOUS
<1>3. k \in {"leaf", "tree"} /\ k \in {"tree", "frame"} /\ k = "tree"
  OBVIOUS
<1> HIDE DEF n, m, f, range, held, ss, K1, k, v
<1>9. \E e, t1, t2, t3, t4 :
           /\ ForOpened(x, n, f, range, e, scopes', open') /\ ForBegins(t1, t2, t3, t4, n, range, f, x)
           /\ Emit(ss \o <<t1, t2, t3, t4>>)
  BY <1>1, <1>2, <1>4, <1>8, ForLoopIs
<1>10. PICK e, t1, t2, t3, t4 :
           /\ ForOpened(x, n, f, range, e, scopes', open') /\ ForBegins(t1, t2, t3, t4, n, range, f, x)
           /\ Emit(ss \o <<t1, t2, t3, t4>>)
  BY <1>9
<1> DEFINE s2 == scopes'
           o2 == open'
<1>11. ForOpened(x, n, f, range, e, s2, o2) /\ scopes' = s2 /\ open' = o2
  BY <1>10
<1> HIDE DEF s2, o2
<1>12. /\ K1 \in Nat \ {0} /\ Len(o2) = n /\ n \in 1..3 /\ o2[n] = e
  BY <1>8, <1>11, ForHeld
<1>13. Shape(A, s2, K, o2, m)
  BY <1>7, <1>8, <1>11, ForBefore
<1>14. ToSet(s2[K1]) = {v} /\ e.range = << >> /\ f \notin HeldIn(scopes, Len(scopes))
  BY <1>4, <1>8, <1>11 DEF ForOpened
<1>16. f \in Names /\ f \notin DOMAIN O /\ f \notin DOMAIN T /\ f \in RangeVars /\ \A i \in 1..2 : f # Temp(i)
  <2>1. DOMAIN O = HeldIn(scopes, Len(scopes))
    BY <1>7 DEF Sighted
  <2>2. Shaped(A, scopes, Len(scopes), open, Len(open))
    BY <1>7, ShapeIs DEF Known
  <2>3. DOMAIN T = {RangeVar(r) : r \in Ranged(open, Len(open))}
    BY <2>2 DEF Shaped
  <2>4. Len(open) = m /\ m \in Nat
    BY <1>7, <1>8, <1>11, ForBefore
  <2>5. \A r \in Ranged(open, Len(open)) : r \in 1..3 /\ r # n
    BY <1>8, <1>12, <2>4 DEF Ranged
  <2>6. \A i, j \in 1..3 : RangeVar(i) = RangeVar(j) => i = j
    BY NamesApart
  <2>7. f \notin DOMAIN T
    BY <1>8, <1>12, <2>3, <2>5, <2>6
  <2>8. \A i \in 1..3 : RangeVar(i) \in Names /\ RangeVar(i) \in RangeVars
    BY NamesApart
  <2>9. \A i \in 1..3 : Temp(i) \notin RangeVars
    BY NamesApart
  <2>10. \A i \in 1..2 : i \in 1..3
    OBVIOUS
  <2>11. \A i \in 1..2 : Temp(i) \notin RangeVars
    BY <2>9, <2>10
  <2> QED
    BY <1>8, <1>12, <1>14, <2>1, <2>7, <2>8, <2>11
<1>18. Left(A, O, T, << >>)
  BY <1>7, KnownLeft
<1>19. \E N : Ready(O, T, << >>, as, N)
  BY <1>7, ArgsReady
<1> HIDE DEF O, T, P
<1>20. \E A1 : Course(ss, A, D, A1, D) /\ Left(A1, P, T, << >>)
  <2>1. PICK N : Ready(O, T, << >>, as, N)
    BY <1>19
  <2>2. f \notin DOMAIN O \cup DOMAIN T
    BY <1>16
  <2>3. \E B : Course(CallOf(as, <<f>>, k), A, D, B, D) /\ Left(B, With(O, f, k), T, << >>)
    BY <1>3, <1>16, <1>18, <2>1, <2>2, CallNew
  <2> QED
    BY <2>3 DEF ss, P
<1>21. PICK A1 : Course(ss, A, D, A1, D) /\ Left(A1, P, T, << >>)
  BY <1>20
<1>22. Shape(A1, s2, K1, o2, m)
  <2>1. K \in Nat
    BY TidyIs
  <2>2. f = v.name /\ k = SortOf(v)
    <3>1. v.name = f /\ v.owned
      BY <1>8 DEF ScopeVar
    <3> QED
      BY <1>3, <1>16, <3>1 DEF SortOf
  <2>3. f \notin HeldIn(s2, K)
    <3>1. \A i \in 1..K : scopes[i] = s2[i]
      BY <1>11 DEF ForOpened, Opens
    <3>2. HeldIn(scopes, K) = HeldIn(s2, K)
      BY <3>1, VarsSame
    <3> QED
      BY <1>14, <3>2
  <2>4. P = With(Own(A), f, k) /\ Left(A1, P, Twin(A), << >>)
    BY <1>21 DEF P, O, T
  <2> HIDE DEF K
  <2> QED
    BY <1>8, <1>13, <1>14, <2>1, <2>2, <2>3, <2>4, GrownOne
<1>23. Shape(A1, s2, K1, o2, n)
  <2>1. n \in Nat \ {0} /\ m = n - 1 /\ o2[n].range = << >>
    BY <1>8, <1>12, <1>14
  <2> QED
    BY <1>22, <2>1, GrownConstruct
<1>24. f \in DOMAIN Own(A1) /\ Own(A1)[f] = k
  <2>1. Own(A1) = P
    BY <1>21 DEF Left
  <2>2. f \in DOMAIN P /\ P[f] = k
    BY DEF P, With
  <2> QED
    BY <2>1, <2>2
<1>25. StandsFor(A1, f, f) /\ Own(A1)[f] \in {"tree", "frame"}
  BY <1>3, <1>24 DEF StandsFor
<1>26. Leads(A1, A1)
  BY <1>21, Selfleads DEF Left
<1> QED
  BY <1>1, <1>4, <1>8, <1>10, <1>11, <1>21, <1>22, <1>23, <1>25, <1>26, ForWalks

-----------------------------------------------------------------------------
\* The end of a construct.

\* The innermost construct and the scopes around its last.
Innermost(N, e, k) ==
  /\ N \in 1..3 /\ N = Len(open) /\ e = open[N] /\ e \in Constructs /\ e.outer \in Nat \ {0}
  /\ k = Kept1(e) /\ k \in 1..Len(scopes) - 1 /\ Len(scopes) = k + 1
  /\ k = (IF e.kind = "for" THEN e.outer + 1 ELSE e.outer)
  /\ e.range # << >> => e.kind = "for"
  /\ \A r \in 1..N : open[r].outer <= k
  /\ \A r \in 1..N - 1 : open[r].outer <= e.outer

\* The last construct and what there is around it.
LEMMA InnermostHas ==
  ASSUME Tidy(scopes, open), Len(open) # 0, NEW N, N = Len(open), NEW e, e = open[N], NEW k, k = Kept1(e)
  PROVE  Innermost(N, e, k)
<1>1. N \in 1..3 /\ N \in 1..Len(open)
  <2>1. Len(open) \in 0..3
    BY TidyIs
  <2>2. N \in 0..3 /\ N # 0
    BY <2>1
  <2>3. N \in 1..3 /\ N \in 1..N
    BY <2>2
  <2> QED
    BY <2>3
<1>2. e \in Constructs /\ e.outer \in Nat \ {0} /\ e.outer + Width(e) <= Len(scopes) /\ Len(scopes) \in Nat
  BY <1>1, TidyIs
<1>3. k \in 1..Len(scopes) - 1 /\ k = e.outer + (IF e.kind = "for" THEN 1 ELSE 0) /\ \A r \in 1..N : open[r].outer <= k
  BY <1>1, KeptIs
<1>4. k = (IF e.kind = "for" THEN e.outer + 1 ELSE e.outer)
  BY <1>2, <1>3
<1>5. Leveled(scopes, open) /\ RangesHeld(scopes, open)
  BY DEF Tidy
<1>6. Len(scopes) = Level(open, N + 1)
  BY <1>5 DEF Leveled
<1>7. N + 1 # 1 /\ (N + 1) - 1 = N
  BY <1>1
<1>8. Len(scopes) = e.outer + Width(e)
  BY <1>6, <1>7 DEF Level
<1>9. Width(e) = (IF e.kind = "for" THEN 2 ELSE 1)
  BY DEF Width
<1>10. Len(scopes) = k + 1
  BY <1>2, <1>4, <1>8, <1>9
<1>11. e.range # << >> => e.kind = "for"
  BY <1>1, <1>5 DEF RangesHeld
<1>12. \A r \in 1..N - 1 : open[r].outer <= e.outer
  <2> SUFFICES ASSUME NEW r \in 1..N - 1 PROVE open[r].outer <= e.outer
    OBVIOUS
  <2>1. r \in 1..Len(open) /\ r < N
    BY <1>1
  <2>2. open[r].outer + Width(open[r]) <= open[N].outer
    BY <1>1, <1>5, <2>1 DEF Leveled
  <2>3. open[r].outer \in Nat /\ Width(open[r]) \in 1..2
    BY <2>1, TidyIs
  <2> DEFINE a == open[r].outer
             b == Width(open[r])
             d == e.outer
  <2>4. a \in Nat /\ b \in 1..2 /\ d \in Nat /\ a + b <= d
    BY <1>2, <2>2, <2>3
  <2> HIDE DEF a, b, d
  <2>5. a <= d
    BY <2>4
  <2> QED
    BY <2>5 DEF a, d
<1> QED
  BY <1>1, <1>2, <1>3, <1>4, <1>10, <1>11, <1>12 DEF Innermost

\* What its last scope leaves is what may be known after the construct, and in its test or else.
Inner(B, D, N, k) ==
  /\ Shape(B, scopes, k, open, N)
  /\ N \in DOMAIN D => Leads(B, Top(D[N])) /\ Leads(B, Out(D[N]))

\* What its last scope leaves is what may be known after the construct, and in its test
\* or else.
LEMMA InnerLeft ==
  ASSUME Tidy(scopes, open), job \in Jobs, NEW A, NEW D, Drawn(A, D), NEW C,
         NEW N, NEW e, NEW k, Innermost(N, e, k)
  PROVE  \E B : Course(CollectFree(Len(scopes), Len(scopes), None), A, C, B, C) /\ Inner(B, D, N, k)
<1>1. Known(A) /\ Framed(D, scopes, open)
  BY DrawnIs
<1>2. N = Len(open) /\ k = Kept1(open[N]) /\ k \in 1..Len(scopes) - 1 /\ Len(scopes) = k + 1
      /\ \A r \in 1..N : open[r].outer <= k
  BY DEF Innermost
<1>3. CASE N \in DOMAIN D
  <2>1. LeavesFor(N, A, C, D)
    BY <1>1, <1>3, LeavesIt
  <2>2. \E B : /\ Course(CollectFree(k + 1, Len(scopes), None), A, C, B, C)
               /\ Leads(B, Top(D[N])) /\ Leads(B, Out(D[N])) /\ Shape(B, scopes, k, open, N)
    BY <1>2, <2>1 DEF LeavesFor
  <2> QED
    BY <1>2, <2>2 DEF Inner
<1>4. CASE N \notin DOMAIN D
  <2>1. \E B : /\ Course(CollectFree(k + 1, Len(scopes), None), A, C, B, C)
               /\ Shape(B, scopes, k, open, N)
    BY <1>1, <1>2, KeptScopes
  <2> QED
    BY <1>2, <1>4, <2>1 DEF Inner
<1> QED
  BY <1>3, <1>4

\* What the statement says that ends a construct.
LEMMA HereSays == ASSUME NEW op PROVE Says(Here(op), op, << >>, << >>) /\ Here(op).nest = Len(open)
BY StmSays DEF Here

\* The end of a construct leads to the point behind it.
LEMMA EndFlow ==
  ASSUME NEW B, NEW D, NEW N, N \in DOMAIN D, N = Len(open), Way(D[N]) \in {"branch", "loop"}, Leads(B, Out(D[N]))
  PROVE  Flow(Here("end"), B, D, Out(D[N]), Less(D, {N}))
<1> DEFINE s == Here("end")
           Y == Out(D[N])
           D2 == Less(D, {N})
<1>1. Says(s, "end", << >>, << >>) /\ s.nest = N
  BY HereSays
<1>2. Way(D[N]) # "fresh"
  OBVIOUS
<1> HIDE DEF s
<1>3. Ends(s, B, D, Out(D[N]), Less(D, {N}))
  BY <1>1, <1>2 DEF Ends, Bare, Says
<1> QED
  BY <1>3 DEF Flow, s

\* The next turn leads back to the test.
LEMMA AgainFlow ==
  ASSUME NEW B, NEW D, NEW N, N \in DOMAIN D, N = Len(open), Way(D[N]) = "loop", Leads(B, Top(D[N]))
  PROVE  Flow(Here("again"), B, D, B, D)
<1> DEFINE s == Here("again")
<1>1. Says(s, "again", << >>, << >>) /\ s.nest = N
  BY HereSays
<1> HIDE DEF s
<1>2. Repeats(s, B, D, B, D)
  BY <1>1 DEF Repeats, Bare, Says
<1> QED
  BY <1>2 DEF Flow, s

\* The step of a `for` changes nothing that is owned.
LEMMA StepFlow ==
  ASSUME NEW B, NEW D, Len(open) \in Nests, Turns(B) = {}
  PROVE  Flow(Here("step"), B, D, B, D)
<1> DEFINE s == Here("step")
<1>1. Says(s, "step", << >>, << >>) /\ s.nest = Len(open)
  BY HereSays
<1> HIDE DEF s
<1>2. Steps(s, B, D, B, D)
  BY <1>1 DEF Steps, Bare, Says
<1> QED
  BY <1>2 DEF Flow, s

\* What the end makes of what the last scope leaves.
EndsSo(e, N, C, D, ss) ==
  \E B, D2 : /\ Course(ss, C, D, B, D2) /\ Shape(B, scopes, e.outer, open, N - 1)
             /\ D2 = (IF e.kind = "block" THEN D ELSE Less(D, {N}))

\* What is known of the construct.
LEMMA InnerRests ==
  ASSUME Tidy(scopes, open), NEW A, NEW D, Drawn(A, D), NEW N, NEW e, NEW k, Innermost(N, e, k), e.kind # "block"
  PROVE  /\ N \in DOMAIN D /\ Way(D[N]) = (IF Loop(e) THEN "loop" ELSE "branch")
         /\ Shape(Top(D[N]), scopes, k, open, N) /\ Shape(Out(D[N]), scopes, k, open, N - 1)
<1>1. Framed(D, scopes, open)
  BY DrawnIs
<1>2. N \in 1..Len(open) /\ e = open[N] /\ k = Kept1(open[N])
  BY DEF Innermost
<1>3. N \in DOMAIN D
  BY <1>1, <1>2, FramedIs
<1>4. Rests(D[N], scopes, open, N)
  BY <1>1, <1>3, FramedIs
<1> QED
  BY <1>2, <1>3, <1>4 DEF Rests

\* A block ends where it is.
LEMMA EndBlock ==
  ASSUME Tidy(scopes, open), NEW B, NEW D, NEW N, NEW e, NEW k, Innermost(N, e, k), Inner(B, D, N, k), e.kind = "block"
  PROVE  EndsSo(e, N, B, D, << >>)
<1>1. N \in Nat \ {0} /\ e = open[N] /\ e.range = << >> /\ k = e.outer
  BY DEF Innermost
<1>2. Shaped(B, scopes, k, open, N)
  BY ShapeIs DEF Inner
<1> DEFINE M == N - 1
<1>3. Ranged(open, N) = Ranged(open, M)
  <2>1. \A m \in 1..M : open[m] = open[m]
    OBVIOUS
  <2>2. M = N - 1 /\ open[N].range = << >>
    BY <1>1
  <2> HIDE DEF M
  <2> QED
    BY <1>1, <2>1, <2>2, RangedNext
<1>4. Shaped(B, scopes, k, open, M)
  BY <1>2, <1>3 DEF Shaped
<1>5. Shape(B, scopes, e.outer, open, M)
  BY <1>1, <1>4, ShapeBy
<1>6. Course(<< >>, B, D, B, D)
  BY CourseNone
<1> QED
  BY <1>5, <1>6 DEF EndsSo

\* An if ends with what both ways leave, ...
LEMMA EndBranch ==
  ASSUME Tidy(scopes, open), NEW A, NEW D, Drawn(A, D), NEW B, NEW N, NEW e, NEW k, Innermost(N, e, k),
         Inner(B, D, N, k), e.kind \in {"if", "else"}
  PROVE  EndsSo(e, N, B, D, <<Here("end")>>)
<1>1. /\ N \in DOMAIN D /\ Way(D[N]) = (IF Loop(e) THEN "loop" ELSE "branch")
      /\ Shape(Out(D[N]), scopes, k, open, N - 1)
  BY InnerRests
<1>2. N = Len(open) /\ k = e.outer /\ Way(D[N]) \in {"branch", "loop"} /\ Leads(B, Out(D[N]))
  BY <1>1 DEF Innermost, Inner
<1> DEFINE s == Here("end")
           Y == Out(D[N])
           D2 == Less(D, {N})
<1>3. Flow(s, B, D, Y, D2)
  BY <1>1, <1>2, EndFlow
<1>4. D2 = (IF e.kind = "block" THEN D ELSE Less(D, {N}))
  OBVIOUS
<1>5. Shape(Y, scopes, e.outer, open, N - 1)
  BY <1>1, <1>2
<1> HIDE DEF s, Y, D2
<1>6. Course(<<s>>, B, D, Y, D2)
  BY <1>3, CourseOne
<1>7. EndsSo(e, N, B, D, <<s>>)
  BY <1>4, <1>5, <1>6 DEF EndsSo
<1> QED
  BY <1>7 DEF s

\* ... and a while with what its test has left.
LEMMA EndWhile ==
  ASSUME Tidy(scopes, open), NEW A, NEW D, Drawn(A, D), NEW B, NEW N, NEW e, NEW k, Innermost(N, e, k),
         Inner(B, D, N, k), e.kind = "while"
  PROVE  EndsSo(e, N, B, D, <<Here("again"), Here("end")>>)
<1>1. /\ N \in DOMAIN D /\ Way(D[N]) = (IF Loop(e) THEN "loop" ELSE "branch")
      /\ Shape(Out(D[N]), scopes, k, open, N - 1)
  BY InnerRests
<1>2. N = Len(open) /\ k = e.outer /\ Way(D[N]) = "loop" /\ Leads(B, Out(D[N])) /\ Leads(B, Top(D[N]))
  BY <1>1 DEF Innermost, Inner, Loop
<1> DEFINE s == Here("again")
           t == Here("end")
           Y == Out(D[N])
           D2 == Less(D, {N})
<1>3. Flow(s, B, D, B, D)
  BY <1>1, <1>2, AgainFlow
<1>4. Flow(t, B, D, Y, D2)
  BY <1>1, <1>2, EndFlow
<1>5. D2 = (IF e.kind = "block" THEN D ELSE Less(D, {N}))
  OBVIOUS
<1>6. Shape(Y, scopes, e.outer, open, N - 1)
  BY <1>1, <1>2
<1> HIDE DEF s, t, Y, D2
<1>7. Course(<<s, t>>, B, D, Y, D2)
  BY <1>3, <1>4, CourseTwo
<1>8. EndsSo(e, N, B, D, <<s, t>>)
  BY <1>5, <1>6, <1>7 DEF EndsSo
<1> QED
  BY <1>8 DEF s, t

\* After a `for` the scope that holds what it walks is left, too.
LEMMA EndFor ==
  ASSUME Tidy(scopes, open), job \in Jobs, NEW A, NEW D, Drawn(A, D), NEW B, NEW N, NEW e, NEW k, Innermost(N, e, k),
         Inner(B, D, N, k), e.kind = "for", NEW K, K = Len(scopes) - 1
  PROVE  EndsSo(e, N, B, D, <<Here("step"), Here("again"), Here("end")>> \o CollectFree(K, K, None))
<1> DEFINE Y == Out(D[N])
           D2 == Less(D, {N})
           r == Here("step")
           s == Here("again")
           t == Here("end")
           M == N - 1
           o == e.outer
<1>1. /\ N \in DOMAIN D /\ Way(D[N]) = (IF Loop(e) THEN "loop" ELSE "branch")
      /\ Shape(Y, scopes, k, open, M)
  BY InnerRests
<1>2. N = Len(open) /\ N \in Nests /\ Way(D[N]) = "loop" /\ Leads(B, Out(D[N])) /\ Leads(B, Top(D[N]))
  BY <1>1 DEF Innermost, Inner, Loop, Nests
<1>3. k = o + 1 /\ o \in Nat \ {0} /\ K = k /\ k \in 1..Len(scopes) - 1 /\ Len(scopes) \in Nat /\ Len(scopes) = k + 1
      /\ \A i \in 1..M : open[i].outer <= o
  <2>1. /\ k = o + 1 /\ o \in Nat \ {0} /\ k \in 1..Len(scopes) - 1 /\ Len(scopes) = k + 1
        /\ \A i \in 1..M : open[i].outer <= o
    BY DEF Innermost
  <2>2. Len(scopes) \in Nat
    BY TidyIs
  <2> HIDE DEF M, o
  <2>3. K = k
    BY <2>1
  <2> QED
    BY <2>1, <2>2, <2>3
<1>4. Shaped(B, scopes, k, open, N) /\ Shaped(Y, scopes, k, open, M)
  BY <1>1, ShapeIs DEF Inner
<1>5. Flow(r, B, D, B, D)
  BY <1>2, <1>4, StepFlow DEF Shaped
<1>6. Flow(s, B, D, B, D)
  BY <1>1, <1>2, AgainFlow
<1>7. Flow(t, B, D, Y, D2)
  BY <1>1, <1>2, EndFlow
<1> HIDE DEF r, s, t
<1>8. Course(<<r, s, t>>, B, D, Y, D2)
  <2> HIDE DEF Y, D2
  <2>1. Course(<<r, s>>, B, D, B, D)
    BY <1>5, <1>6, CourseTwo
  <2>2. Course(<<r, s>> \o <<t>>, B, D, Y, D2)
    BY <1>7, <2>1, CourseAnd
  <2>3. <<r, s>> \o <<t>> = <<r, s, t>>
    BY Last3
  <2> QED
    BY <2>2, <2>3
<1> HIDE DEF Y, D2, o
<1>9. \E X : /\ Course(CollectFree(K, K, None), Y, D2, X, D2)
             /\ Gone(Y, X, NamesFrom(scopes, K, K, None))
  <2>1. K \in 1..Len(scopes) /\ K <= K
    BY <1>3
  <2>2. /\ HoleOf(Y) = << >> /\ Own(Y) = [x \in DOMAIN Own(Y) |-> Own(Y)[x]]
        /\ DOMAIN Own(Y) = HeldIn(scopes, k) /\ \A v \in VarsIn(scopes, k) : Own(Y)[v.name] = SortOf(v)
    BY <1>4 DEF Shaped
  <2>3. VarsFrom(scopes, K, K) \subseteq VarsIn(scopes, k)
    BY <1>3 DEF VarsFrom, VarsIn
  <2>4. \A v \in VarsFrom(scopes, K, K) : v.name # None => v.name \in DOMAIN Own(Y) /\ Own(Y)[v.name] = SortOf(v)
    BY <2>2, <2>3 DEF HeldIn
  <2> QED
    BY <2>1, <2>2, <2>4, LeavesScopes
<1>10. PICK X : /\ Course(CollectFree(K, K, None), Y, D2, X, D2)
                /\ Gone(Y, X, NamesFrom(scopes, K, K, None))
  BY <1>9
<1>11. Shape(X, scopes, o, open, M)
  <2>1. M \in 0..Len(open) /\ k \in 0..Len(scopes) /\ o \in 0..k
    BY <1>2, <1>3 DEF Nests
  <2> DEFINE o1 == o + 1
  <2>2. Gone(Y, X, NamesFrom(scopes, o + 1, k, None))
    BY <1>3, <1>10
  <2> HIDE DEF M
  <2>3. (\A i \in 1..M : open[i].outer <= o) => Shape(X, scopes, o, open, M)
    BY <1>1, <2>1, <2>2, GoneShape
  <2> QED
    BY <1>3, <2>3
<1> DEFINE ts == <<r, s, t>>
           fs == CollectFree(K, K, None)
<1>12. D2 = (IF e.kind = "block" THEN D ELSE Less(D, {N}))
  BY DEF D2
<1> HIDE DEF ts, fs, M
<1>13. Course(ts \o fs, B, D, X, D2)
  BY <1>8, <1>10, CourseThen DEF ts, fs
<1>14. EndsSo(e, N, B, D, ts \o fs)
  BY <1>11, <1>12, <1>13 DEF EndsSo, o, M
<1> QED
  BY <1>14 DEF ts, fs, r, s, t

-----------------------------------------------------------------------------
\* Ends and elses.

\* What is released and what comes after it, up to the end of the construct.
Ending(kind) ==
  CASE kind = "block" -> << >>
    [] kind \in {"if", "else"} -> <<Here("end")>>
    [] kind = "while" -> <<Here("again"), Here("end")>>
    [] kind = "for" -> <<Here("step"), Here("again"), Here("end")>>
                       \o CollectFree(Len(scopes) - 1, Len(scopes) - 1, None)

\* A construct ends with the releases of its last scope, and with its own end.
LEMMA EndOfIs == ASSUME NEW kind PROVE EndOf(kind) = CollectFree(Len(scopes), Len(scopes), None) \o Ending(kind)
BY DEF EndOf, Ending, None

\* The end of each kind of construct leads to what is known behind it.
LEMMA EndingSo ==
  ASSUME Tidy(scopes, open), job \in Jobs, NEW A, NEW D, Drawn(A, D), NEW B, NEW N, NEW e, NEW k, Innermost(N, e, k),
         Inner(B, D, N, k)
  PROVE  EndsSo(e, N, B, D, Ending(e.kind))
<1>1. e.kind \in {"block", "if", "else", "while", "for"}
  BY DEF Innermost, Constructs
<1>2. CASE e.kind = "block"
  <2>1. Ending(e.kind) = << >>
    BY <1>2 DEF Ending
  <2> QED
    BY <1>2, <2>1, EndBlock
<1>3. CASE e.kind \in {"if", "else"}
  <2>1. Ending(e.kind) = <<Here("end")>>
    BY <1>3 DEF Ending
  <2>2. EndsSo(e, N, B, D, <<Here("end")>>)
    BY <1>3, EndBranch
  <2> QED
    BY <2>1, <2>2
<1>4. CASE e.kind = "while"
  <2>1. Ending(e.kind) = <<Here("again"), Here("end")>>
    BY <1>4 DEF Ending
  <2>2. EndsSo(e, N, B, D, <<Here("again"), Here("end")>>)
    BY <1>4, EndWhile
  <2> QED
    BY <2>1, <2>2
<1>5. CASE e.kind = "for"
  <2> DEFINE K == Len(scopes) - 1
  <2>1. Ending(e.kind) = <<Here("step"), Here("again"), Here("end")>> \o CollectFree(K, K, None)
    BY <1>5 DEF Ending
  <2>2. K = Len(scopes) - 1
    OBVIOUS
  <2> HIDE DEF K
  <2>3. EndsSo(e, N, B, D, <<Here("step"), Here("again"), Here("end")>> \o CollectFree(K, K, None))
    BY <1>5, <2>2, EndFor
  <2> QED
    BY <2>1, <2>3
<1> QED
  BY <1>1, <1>2, <1>3, <1>4, <1>5

\* Sequences cut, grown and changed.

CutTo(t, S, s, n) == t \in Seq(S) /\ Len(t) = n /\ \A i \in 1..n : t[i] = s[i]
GrownBy(t, S, s, n, z) == t \in Seq(S) /\ Len(t) = n + 1 /\ (\A i \in 1..n : t[i] = s[i]) /\ t[n + 1] = z
ChangedAt(t, S, s, n, z) == t \in Seq(S) /\ Len(t) = n /\ (\A i \in 1..n - 1 : t[i] = s[i]) /\ t[n] = z

\* A sequence cut, ...
LEMMA CutIs ==
  ASSUME NEW S, NEW s, s \in Seq(S), NEW n, n \in 0..Len(s)
  PROVE  CutTo(SubSeq(s, 1, n), S, s, n)
BY DEF CutTo

\* ... grown by one ...
LEMMA GrownIs ==
  ASSUME NEW S, NEW s, s \in Seq(S), NEW z, z \in S
  PROVE  GrownBy(Append(s, z), S, s, Len(s), z)
BY DEF GrownBy

\* ... and changed at its end.
LEMMA ChangedIs ==
  ASSUME NEW S, NEW s, s \in Seq(S), Len(s) # 0, NEW z, z \in S
  PROVE  ChangedAt([s EXCEPT ![Len(s)] = z], S, s, Len(s), z)
BY DEF ChangedAt

\* The scopes and constructs that are left.
LEMMA ClosesIs ==
  ASSUME Tidy(scopes, open), NEW N, NEW e, NEW k, Innermost(N, e, k),
         NEW s2, s2 = SubSeq(scopes, 1, e.outer), NEW o2, o2 = Front(open)
  PROVE  Closes(scopes, open, s2, o2) /\ Len(s2) = e.outer /\ Len(o2) = N - 1
<1> DEFINE o == e.outer
           M == N - 1
           K == Len(scopes)
<1>1. scopes \in Seq(Seq(Variables)) /\ open \in Seq(Constructs)
  BY DEF Tidy
<1>2. N \in 1..3 /\ N = Len(open) /\ e = open[N] /\ k \in 1..K - 1 /\ o \in Nat \ {0} /\ (k = o \/ k = o + 1) /\ K \in Nat
  <2>1. K \in Nat
    BY TidyIs
  <2> QED
    BY <2>1 DEF Innermost
<1>3. o \in 1..K /\ M \in 0..N /\ M = Len(open) - 1
  <2> HIDE DEF K, o
  <2> QED
    BY <1>2
<1> HIDE DEF o
<1>4. s2 \in Seq(Seq(Variables)) /\ Len(s2) = o /\ \A i \in 1..o : s2[i] = scopes[i]
  <2> DEFINE S == Seq(Variables)
  <2>1. scopes \in Seq(S) /\ o \in 0..Len(scopes) /\ s2 = SubSeq(scopes, 1, o)
    BY <1>1, <1>2, <1>3 DEF o, K
  <2> HIDE DEF S
  <2>2. s2 \in Seq(S) /\ Len(s2) = o /\ \A i \in 1..o : s2[i] = scopes[i]
    <3>1. CutTo(SubSeq(scopes, 1, o), S, scopes, o)
      BY <2>1, CutIs, Zenon
    <3>2. CutTo(s2, S, scopes, o)
      BY <2>1, <3>1, Zenon
    <3> QED
      BY <3>2, Zenon DEF CutTo
  <2> QED
    BY <2>2 DEF S
<1>5. o2 \in Seq(Constructs) /\ Len(o2) = M /\ \A i \in 1..M : o2[i] = open[i]
  <2>1. o2 = SubSeq(open, 1, M) /\ open \in Seq(Constructs) /\ M \in 0..Len(open)
    BY <1>1, <1>2, <1>3 DEF Front
  <2> HIDE DEF M
  <2> QED
    BY <2>1
<1>6. Len(open) # 0
  BY <1>2
<1> QED
  BY <1>2, <1>3, <1>4, <1>5, <1>6 DEF Closes, o

\* A construct is closed.
LEMMA CloseWalks ==
  ASSUME Tidy(scopes, open), job \in Jobs, NEW A, NEW D, Drawn(A, D), Close
  PROVE  WalksOn
<1> DEFINE N == Len(open)
           e == open[N]
           k == Kept1(e)
           s2 == SubSeq(scopes, 1, e.outer)
           o2 == Front(open)
           fr == CollectFree(Len(scopes), Len(scopes), None)
           ss == fr \o Ending(e.kind)
<1>1. Len(open) # 0
  BY TidyIs DEF Close
<1>2. Emit(ss) /\ scopes' = s2 /\ open' = o2
  BY EndOfIs DEF Close, Inside
<1>3. Innermost(N, e, k)
  BY <1>1, InnermostHas
<1>4. e = open[Len(open)] /\ N = Len(open)
  OBVIOUS
<1> HIDE DEF N, e, k
<1>5. Closes(scopes, open, s2, o2) /\ Len(s2) = e.outer /\ Len(o2) = N - 1
  BY <1>3, ClosesIs
<1> HIDE DEF s2, o2, fr, ss
<1>6. PICK B : Course(fr, A, D, B, D) /\ Inner(B, D, N, k)
  BY <1>3, InnerLeft DEF fr
<1>7. PICK B1, D2 : /\ Course(Ending(e.kind), B, D, B1, D2) /\ Shape(B1, scopes, e.outer, open, N - 1)
                    /\ D2 = (IF e.kind = "block" THEN D ELSE Less(D, {N}))
  BY <1>3, <1>6, EndingSo DEF EndsSo
<1>8. Course(ss, A, D, B1, D2)
  BY <1>6, <1>7, CourseThen DEF ss
<1>9. Written(code', owners', Also, Start, B1, D2)
  BY <1>2, <1>8, Extends
<1>10. Tidy(s2, o2)
  BY <1>5, CloseTidy
<1>11. Framed(D2, s2, o2)
  <2>1. Framed(D, scopes, open)
    BY DrawnIs
  <2>2. D2 = (IF open[Len(open)].kind = "block" THEN D ELSE Less(D, {Len(open)}))
    BY <1>4, <1>7
  <2> QED
    BY <1>5, <2>1, <2>2, FramedDrop
<1>12. Shape(B1, s2, Len(s2), o2, Len(o2))
  <2> DEFINE o == e.outer
             M == N - 1
  <2>1. Shape(B1, scopes, o, open, M) /\ Len(s2) = o /\ Len(o2) = M
    BY <1>5, <1>7
  <2> HIDE DEF o, M
  <2>2. (\A i \in 1..o : scopes[i] = s2[i]) /\ \A i \in 1..M : open[i].range = o2[i].range
    BY <1>5, <2>1 DEF Closes
  <2>3. Shape(B1, s2, o, o2, M)
    BY <2>1, <2>2, ShapeSame
  <2> QED
    BY <2>1, <2>3
<1>13. Tidy(scopes', open') /\ DrawnOn(B1, D2)
  BY <1>2, <1>9, <1>10, <1>11, <1>12 DEF DrawnOn
<1> QED
  BY <1>13 DEF WalksOn

-----------------------------------------------------------------------------

\* The scope of an if is replaced by an empty one.
LEMMA ElseIs ==
  ASSUME Tidy(scopes, open), NEW N, NEW e, NEW k, Innermost(N, e, k), e.kind = "if",
         NEW s2, s2 = Append(Front(scopes), << >>), NEW o2, o2 = [open EXCEPT ![Len(open)].kind = "else"]
  PROVE  Turns2(scopes, open, s2, o2) /\ Len(s2) = k + 1 /\ k \in Nat /\ ToSet(s2[k + 1]) = {}
<1> DEFINE K == Len(scopes)
<1>1. scopes \in Seq(Seq(Variables)) /\ open \in Seq(Constructs)
  BY DEF Tidy
<1>2. N \in 1..3 /\ N = Len(open) /\ e = open[N] /\ k \in 1..K - 1 /\ K = k + 1 /\ K \in Nat /\ e \in Constructs
  <2>1. K \in Nat
    BY TidyIs
  <2> QED
    BY <2>1 DEF Innermost
<1>3. k \in Nat \ {0} /\ k = K - 1 /\ k \in 0..K
  <2> HIDE DEF K
  <2> QED
    BY <1>2
<1> HIDE DEF K
<1>4. Front(scopes) \in Seq(Seq(Variables)) /\ Len(Front(scopes)) = k /\ \A i \in 1..k : Front(scopes)[i] = scopes[i]
  <2> DEFINE S == Seq(Variables)
             fs == Front(scopes)
  <2>1. scopes \in Seq(S) /\ k \in 0..Len(scopes) /\ fs = SubSeq(scopes, 1, k)
    BY <1>1, <1>3 DEF K, Front
  <2> HIDE DEF S, fs
  <2>2. fs \in Seq(S) /\ Len(fs) = k /\ \A i \in 1..k : fs[i] = scopes[i]
    BY <1>3, <2>1, SMTT(30)
  <2> QED
    BY <2>2 DEF S, fs
<1>5. s2 \in Seq(Seq(Variables)) /\ Len(s2) = K /\ (\A i \in 1..k : s2[i] = scopes[i]) /\ s2[K] = << >>
  <2> DEFINE S == Seq(Variables)
             fs == Front(scopes)
             z == << >>
  <2>1. z \in S
    OBVIOUS
  <2>2. fs \in Seq(S) /\ Len(fs) = k /\ (\A i \in 1..k : fs[i] = scopes[i]) /\ s2 = Append(fs, z)
    BY <1>4
  <2> HIDE DEF S, fs, z
  <2>3. s2 \in Seq(S) /\ Len(s2) = k + 1 /\ (\A i \in 1..k : s2[i] = scopes[i]) /\ s2[k + 1] = z
    <3>1. GrownBy(Append(fs, z), S, fs, Len(fs), z)
      BY <2>1, <2>2, GrownIs, Zenon
    <3>2. GrownBy(s2, S, fs, k, z)
      BY <2>2, <3>1, Zenon
    <3>3. s2 \in Seq(S) /\ Len(s2) = k + 1 /\ (\A i \in 1..k : s2[i] = fs[i]) /\ s2[k + 1] = z
      BY <3>2, Zenon DEF GrownBy
    <3> QED
      BY <2>2, <3>3, Zenon
  <2> QED
    BY <1>2, <2>3 DEF S, z
<1>6. /\ o2 \in Seq(Constructs) /\ Len(o2) = N /\ (\A m \in 1..N - 1 : o2[m] = open[m])
      /\ o2[N].kind = "else" /\ o2[N].outer = open[N].outer /\ o2[N].range = open[N].range
  <2> DEFINE w == [e EXCEPT !.kind = "else"]
  <2>1. w \in Constructs /\ w.kind = "else" /\ w.outer = e.outer /\ w.range = e.range
    BY <1>2 DEF Constructs
  <2>2. o2 = [open EXCEPT ![N] = w]
    BY <1>2
  <2> HIDE DEF w
  <2>3. o2 \in Seq(Constructs) /\ Len(o2) = N /\ (\A m \in 1..N - 1 : o2[m] = open[m]) /\ o2[N] = w
    <3>1. N # 0
      BY <1>2
    <3> QED
      <4>1. ChangedAt([open EXCEPT ![Len(open)] = w], Constructs, open, Len(open), w)
        BY <1>1, <1>2, <2>1, <3>1, ChangedIs, Zenon
      <4>2. ChangedAt(o2, Constructs, open, N, w)
        BY <1>2, <2>2, <4>1, Zenon
      <4> QED
        BY <4>2, Zenon DEF ChangedAt
  <2> QED
    BY <1>2, <2>1, <2>3
<1>7. ToSet(<< >>) = {}
  BY DEF ToSet
<1>8. Turns2(scopes, open, s2, o2)
  BY <1>2, <1>3, <1>5, <1>6 DEF Turns2, K
<1> QED
  BY <1>2, <1>3, <1>5, <1>7, <1>8

\* An else is opened.
LEMMA ElseWalks ==
  ASSUME Tidy(scopes, open), job \in Jobs, NEW A, NEW D, Drawn(A, D), OpenElse
  PROVE  WalksOn
<1> DEFINE N == Len(open)
           e == open[N]
           k == Kept1(e)
           k2 == k + 1
           s2 == Append(Front(scopes), << >>)
           o2 == [open EXCEPT ![Len(open)].kind = "else"]
           fr == CollectFree(Len(scopes), Len(scopes), None)
           s == Here("else")
           ss == fr \o <<s>>
           X == Top(D[N])
<1>1. Len(open) # 0
  <2>1. open # << >>
    BY DEF OpenElse
  <2> QED
    BY <2>1, TidyIs
<1>2. Emit(ss) /\ scopes' = s2 /\ open' = o2 /\ e.kind = "if"
  BY DEF OpenElse, Inside, None
<1>3. Innermost(N, e, k)
  BY <1>1, InnermostHas
<1>4. e = open[Len(open)] /\ N = Len(open)
  OBVIOUS
<1> HIDE DEF N, e, k
<1>5. Turns2(scopes, open, s2, o2) /\ Len(s2) = k2 /\ k \in Nat /\ ToSet(s2[k2]) = {}
  BY <1>2, <1>3, ElseIs
<1>6. Says(s, "else", << >>, << >>) /\ s.nest = N
  BY <1>4, HereSays
<1> HIDE DEF s2, o2, fr, ss, s, X
<1>7. PICK B : Course(fr, A, D, B, D) /\ Inner(B, D, N, k)
  BY <1>3, InnerLeft DEF fr
<1>8. /\ N \in DOMAIN D /\ Way(D[N]) = "branch" /\ Shape(X, scopes, k, open, N)
  BY <1>2, <1>3, InnerRests DEF X, Loop
<1>9. Elses(s, B, D, X, D)
  BY <1>6, <1>7, <1>8 DEF Elses, Bare, Says, Inner, X
<1>10. Course(ss, A, D, X, D)
  <2>1. Flow(s, B, D, X, D)
    BY <1>9 DEF Flow
  <2> QED
    BY <1>7, <2>1, CourseAnd DEF ss
<1>11. Written(code', owners', Also, Start, X, D)
  BY <1>2, <1>10, Extends
<1>12. Tidy(s2, o2)
  BY <1>5, ElseTidy
<1>13. Shape(X, s2, Len(s2), o2, Len(o2))
  <2>1. N = Len(open) /\ N \in 1..3 /\ Len(scopes) = k + 1
    BY <1>3 DEF Innermost
  <2>2. Len(o2) = N /\ (\A m \in 1..N - 1 : o2[m] = open[m]) /\ o2[N].range = open[N].range
        /\ (\A i \in 1..Len(scopes) - 1 : s2[i] = scopes[i])
    BY <1>5, <2>1 DEF Turns2
  <2>3. \A i \in 1..k : scopes[i] = s2[i]
    BY <1>5, <2>1, <2>2
  <2>4. \A m \in 1..N : open[m].range = o2[m].range
    <3>1. \A m \in 1..N : m \in 1..N - 1 \/ m = N
      BY <2>1
    <3> QED
      BY <2>2, <3>1
  <2>5. Shape(X, s2, k, o2, N)
    BY <1>8, <2>3, <2>4, ShapeSame
  <2>6. k2 = k + 1
    OBVIOUS
  <2> HIDE DEF k2
  <2>7. Shape(X, s2, k2, o2, N)
    BY <1>5, <2>5, <2>6, GrownEmpty
  <2> QED
    BY <1>5, <2>2, <2>7
<1>14. Framed(D, s2, o2)
  <2>1. Framed(D, scopes, open)
    BY DrawnIs
  <2>2. N = Len(open) /\ N \in 1..3 /\ open[N] = e
    BY <1>3 DEF Innermost
  <2>3. Len(o2) = N /\ (\A m \in 1..N - 1 : o2[m] = open[m])
        /\ o2[N].range = open[N].range /\ o2[N].outer = open[N].outer /\ o2[N].kind = "else"
        /\ (\A i \in 1..Len(scopes) - 1 : scopes[i] = s2[i])
    BY <1>5, <2>2 DEF Turns2
  <2>4. Kept1(o2[N]) = Kept1(open[N])
    BY <1>2, <2>2, <2>3 DEF Kept1, Width
  <2>5. \A m \in 1..N : /\ open[m].range = o2[m].range /\ Kept1(o2[m]) = Kept1(open[m])
                        /\ (Loop(open[m]) <=> Loop(o2[m])) /\ (open[m].kind = "block" <=> o2[m].kind = "block")
    <3>1. \A m \in 1..N : m \in 1..N - 1 \/ m = N
      BY <2>2
    <3>2. (Loop(open[N]) <=> Loop(o2[N])) /\ (open[N].kind = "block" <=> o2[N].kind = "block")
      BY <1>2, <2>2, <2>3 DEF Loop
    <3> QED
      BY <2>3, <2>4, <3>1, <3>2
  <2> QED
    BY <2>1, <2>2, <2>3, <2>5, FramedSame
<1>15. Tidy(scopes', open') /\ DrawnOn(X, D)
  BY <1>2, <1>11, <1>12, <1>13, <1>14 DEF DrawnOn
<1> QED
  BY <1>15 DEF WalksOn

-----------------------------------------------------------------------------
\* The end of the function.

Stops(cd) == cd # << >> /\ cd[Len(cd)].op \in {"break", "continue", "return"}
Complete(cd, ms, also, A) ==
  /\ Stops(cd)
  /\ \E p, q : Noted(cd, ms, also, A, p, q) /\ q[Len(cd) + 1] = Nothing

\* Where no construct is open none is around.
LEMMA NoneAround ==
  ASSUME NEW D, NEW ss, NEW os, os = << >>, Framed(D, ss, os)
  PROVE  D = Nothing
<1>1. DOMAIN D = {n \in 1..Len(os) : os[n].kind # "block"}
  BY DEF Framed
<1>2. 1..Len(os) = {}
  OBVIOUS
<1>3. DOMAIN D = {}
  BY <1>1, <1>2
<1>4. D = [n \in DOMAIN D |-> D[n]]
  BY DEF Framed
<1> QED
  BY <1>3, <1>4 DEF Nothing

\* Code that stops still does with nothing behind it.
LEMMA StopsStill ==
  ASSUME NEW cd, IsSeq(cd), Stops(cd), NEW ss, ss = << >>
  PROVE  Stops(cd \o ss)
<1>1. IsSeq(ss) /\ Len(ss) = 0
  BY DEF IsSeq
<1> DEFINE t == cd \o ss
<1>2. IsSeq(t) /\ Len(t) = Len(cd) + 0 /\ \A i \in 1..Len(cd) : t[i] = cd[i]
  BY <1>1, SeqsJoined
<1>3. Len(cd) \in Nat /\ cd = [i \in 1..Len(cd) |-> cd[i]]
  BY DEF IsSeq
<1>4. Len(cd) # 0
  <2>1. CASE Len(cd) = 0
    <3>1. 1..0 = {} /\ cd = [i \in 1..0 |-> cd[i]]
      BY <1>3, <2>1
    <3>2. cd = << >>
      BY <3>1
    <3> QED
      BY <3>2 DEF Stops
  <2> QED
    BY <2>1
<1> HIDE DEF t
<1>5. Len(t) = Len(cd) /\ t[Len(cd)] = cd[Len(cd)]
  BY <1>2, <1>3, <1>4
<1>6. t # << >>
  BY <1>3, <1>4, <1>5
<1>7. Stops(t)
  BY <1>5, <1>6 DEF Stops
<1> QED
  BY <1>7 DEF t

LastOf(u, s, n, z) == IsSeq(u) /\ Len(u) = Len(s) + n /\ u[Len(s) + n] = z /\ Len(s) \in Nat /\ n \in Nat
\* The last statement is that of the last part.
LEMMA LastJoined ==
  ASSUME NEW s, NEW t, IsSeq(s), IsSeq(t), NEW n, n = Len(t), n # 0
  PROVE  LastOf(s \o t, s, n, t[n])
<1>1. Len(s) \in Nat /\ n \in Nat
  BY DEF IsSeq
<1>2. n \in 1..Len(t)
  BY <1>1
<1>3. IsSeq(s \o t) /\ Len(s \o t) = Len(s) + Len(t) /\ \A i \in 1..Len(t) : (s \o t)[Len(s) + i] = t[i]
  BY SeqsJoined
<1> QED
  BY <1>1, <1>2, <1>3 DEF LastOf

\* Code with a return behind it stops.
LEMMA StopsThere ==
  ASSUME NEW cd, IsSeq(cd), NEW ss, IsSeq(ss), NEW r, IsSeq(r), Len(r) = 1, r[1].op = "return"
  PROVE  Stops(cd \o (ss \o r))
<1> DEFINE u == ss \o r
           t == cd \o u
           i == 1
           j == Len(u)
<1>1. i = Len(r) /\ i # 0
  OBVIOUS
<1> HIDE DEF i
<1>12. LastOf(ss \o r, ss, i, r[i])
  BY <1>1, LastJoined, Zenon
<1>2. IsSeq(u) /\ Len(u) = Len(ss) + i /\ u[Len(ss) + i] = r[i] /\ Len(ss) \in Nat /\ i \in Nat
  BY <1>12 DEF LastOf
<1> HIDE DEF u
<1>3. j # 0 /\ j = Len(u)
  BY <1>1, <1>2
<1> HIDE DEF j
<1>14. LastOf(cd \o u, cd, j, u[j])
  BY <1>2, <1>3, LastJoined, Zenon
<1>4. IsSeq(t) /\ Len(t) = Len(cd) + j /\ t[Len(cd) + j] = u[j] /\ Len(cd) \in Nat /\ j \in Nat
  BY <1>14 DEF LastOf
<1> HIDE DEF t
<1>5. t[Len(t)] = r[1] /\ Len(t) # 0
  BY <1>2, <1>3, <1>4 DEF i
<1>6. t # << >>
  BY <1>5
<1>7. t[Len(t)].op = "return"
  BY <1>5
<1>8. Stops(t)
  BY <1>6, <1>7 DEF Stops
<1> QED
  BY <1>8 DEF t, u

\* What has been emitted is noted up to where the walk is.
LEMMA WrittenIs ==
  ASSUME NEW A, NEW D, Drawn(A, D)
  PROVE  Written(code, owners, Also, Start, A, D) /\ IsSeq(code) /\ Framed(D, scopes, open)
<1>1. Written(code, owners, Also, Start, A, D) /\ Framed(D, scopes, open)
  BY DEF Drawn
<1>2. IsSeq(code)
  BY <1>1 DEF Written, Noted
<1> QED
  BY <1>1, <1>2

\* At the end of the walk the code is complete.
LEMMA FinishGoes ==
  ASSUME Tidy(scopes, open), job \in Jobs, NEW A, NEW D, Drawn(A, D), Finish
  PROVE  Complete(code', owners', Also, Start)
<1> DEFINE l == IF job.named = "" THEN << >> ELSE <<job.named>>
           r == Stm("return", << >>, l)
           fr == AllFrees("")
<1>1. open = << >> /\ Emit(IF Ended THEN << >> ELSE fr \o <<r>>)
  BY DEF Finish
<1>2. IsSeq(code) /\ Framed(D, scopes, open)
  BY WrittenIs
<1>3. D = Nothing
  BY <1>1, <1>2, NoneAround
<1>4. Written(code', owners', Also, Start, A, D) => \E p, q : Noted(code', owners', Also, Start, p, q) /\ q[Len(code') + 1] = Nothing
  BY <1>3 DEF Written
<1>5. CASE Ended
  <2> DEFINE ss == << >>
  <2>1. Emit(ss)
    BY <1>1, <1>5
  <2>2. code' = code \o ss
    BY <2>1 DEF Emit
  <2>3. Stops(code)
    BY <1>5 DEF Ended, Stops, Last
  <2>4. Stops(code \o ss)
    BY <1>2, <2>3, StopsStill
  <2>5. Course(ss, A, D, A, D)
    BY CourseNone
  <2> HIDE DEF ss
  <2>6. Written(code', owners', Also, Start, A, D)
    BY <2>1, <2>5, Extends
  <2> QED
    BY <1>4, <2>2, <2>4, <2>6 DEF Complete
<1>6. CASE ~Ended
  <2> DEFINE ss == fr \o <<r>>
  <2>1. Emit(ss)
    BY <1>1, <1>6
  <2>2. code' = code \o ss
    BY <2>1 DEF Emit
  <2>3. Course(ss, A, D, A, D)
    BY BareCourse
  <2>4. IsSeq(fr)
    <3>1. Known(A)
      BY DrawnIs
    <3>2. /\ \A v \in VarsIn(scopes, Len(scopes)) : v.name \in DOMAIN Own(A) /\ Own(A)[v.name] = SortOf(v)
          /\ Own(A) = [x \in DOMAIN Own(A) |-> Own(A)[x]] /\ HoleOf(A) = << >>
      BY <3>1, DeclaredIs
    <3>3. Clears(None, A, D)
      BY <3>2, AllLeft
    <3>4. \E B : Course(AllFrees(""), A, D, B, D)
      BY <3>3 DEF Clears, None
    <3> QED
      BY <3>4 DEF Course
  <2>5. IsSeq(<<r>>) /\ Len(<<r>>) = 1 /\ <<r>>[1].op = "return"
    <3>1. r.op = "return"
      BY DEF Stm
    <3> HIDE DEF r
    <3> QED
      BY <3>1 DEF IsSeq
  <2>6. Stops(code \o (fr \o <<r>>))
    <3> DEFINE rr == <<r>>
    <3>1. IsSeq(rr) /\ Len(rr) = 1 /\ rr[1].op = "return"
      BY <2>5
    <3> HIDE DEF rr, fr
    <3>2. Stops(code \o (fr \o rr))
      BY <1>2, <2>4, <3>1, StopsThere
    <3> QED
      BY <3>2 DEF rr
  <2> HIDE DEF r, fr
  <2>7. Stops(code')
    BY <2>2, <2>6
  <2> HIDE DEF ss
  <2>8. Written(code', owners', Also, Start, A, D)
    BY <2>1, <2>3, Extends
  <2> QED
    BY <1>4, <2>7, <2>8 DEF Complete
<1> QED
  BY <1>5, <1>6

-----------------------------------------------------------------------------
\* The function before its first statement.

LEMMA EmptySetSeq == ASSUME NEW s, s = << >> PROVE 1..Len(s) = {} /\ IsSeq(s) /\ ToSet(s) = {} /\ Len(s) = 0
BY DEF IsSeq, ToSet

\* The first scope holds the parameters.
LEMMA InitScope ==
  ASSUME job \in Jobs, Init
  PROVE  /\ scopes \in Seq(Seq(Variables)) /\ Len(scopes) = 1
         /\ Len(scopes[1]) = Len(job.params)
         /\ \A i \in 1..Len(job.params) : scopes[1][i] = ScopeVar(Param(i), TRUE)
         /\ \A v : v \in ToSet(scopes[1]) <=> \E x \in Params(Len(job.params)) : v = ScopeVar(x, TRUE)
<1> DEFINE P == Len(job.params)
           s == [i \in 1..P |-> ScopeVar(Param(i), TRUE)]
<1>1. /\ P \in Nat /\ DOMAIN job.params = 1..P
      /\ \A i \in 1..P : Param(i) \in ToSet(Leaves) \cup ToSet(Trees)
  BY ParamsAre
<1>2. scopes = <<[i \in DOMAIN job.params |-> ScopeVar(job.params[i], TRUE)]>>
  BY DEF Init
<1>3. scopes = <<s>>
  BY <1>1, <1>2 DEF Param
<1>4. ASSUME NEW i \in 1..P PROVE ScopeVar(Param(i), TRUE) \in Variables
  <2>1. Param(i) \in Names
    BY <1>1 DEF Names
  <2> QED
    BY <2>1 DEF ScopeVar, Variables
<1>5. \A i \in 1..P : s[i] = ScopeVar(Param(i), TRUE)
  OBVIOUS
<1>6. s \in Seq(Variables) /\ Len(s) = P
  <2> DEFINE g(i) == ScopeVar(Param(i), TRUE)
  <2> HIDE DEF P
  <2>1. \A i \in 1..P : g(i) \in Variables
    BY <1>4
  <2> HIDE DEF g
  <2>2. [i \in 1..P |-> g(i)] \in Seq(Variables) /\ Len([i \in 1..P |-> g(i)]) = P
    BY <1>1, <2>1
  <2> QED
    BY <2>2 DEF g
<1> HIDE DEF s
<1>7. scopes \in Seq(Seq(Variables)) /\ Len(scopes) = 1 /\ scopes[1] = s
  BY <1>3, <1>6
<1>8. \A v : v \in ToSet(s) <=> \E i \in 1..P : v = s[i]
  BY <1>6, ToSetIs
<1>9. \A v : v \in ToSet(s) <=> \E x \in Params(P) : v = ScopeVar(x, TRUE)
  BY <1>5, <1>8 DEF Params
<1> QED
  BY <1>5, <1>6, <1>7, <1>9

\* The walk starts tidy.
LEMMA InitTidy ==
  ASSUME job \in Jobs, Init
  PROVE  Tidy(scopes, open)
<1> DEFINE P == Len(job.params)
<1>1. /\ scopes \in Seq(Seq(Variables)) /\ Len(scopes) = 1 /\ Len(scopes[1]) = P
      /\ \A i \in 1..P : scopes[1][i] = ScopeVar(Param(i), TRUE)
      /\ \A v : v \in ToSet(scopes[1]) <=> \E x \in Params(P) : v = ScopeVar(x, TRUE)
  BY InitScope
<1>2. open = << >>
  BY DEF Init
<1>3. /\ P \in Nat /\ ToSet(job.params) = Params(P)
      /\ \A i \in 1..P : Param(i) \in ToSet(Leaves) \cup ToSet(Trees)
      /\ \A i, j \in 1..P : Param(i) = Param(j) => i = j
  BY ParamsAre
<1>4. 1..Len(open) = {} /\ Len(open) = 0 /\ open \in Seq(Constructs)
  BY <1>2
<1>5. 1..Len(scopes) = {1}
  BY <1>1
<1>6. DOMAIN scopes[1] = 1..P
  <2>1. scopes[1] \in Seq(Variables)
    BY <1>1, <1>5
  <2> QED
    BY <1>1, <2>1
<1>7. ASSUME NEW x \in Params(P) PROVE x \in Given1 /\ x \notin Also
  <2>1. x \in Given1
    BY <1>3 DEF Params, Given1
  <2>2. job.named \notin ToSet(job.params)
    BY JobsAssumption
  <2>3. x \notin Also
    BY <1>3, <2>2 DEF Also
  <2> QED
    BY <2>1, <2>3
<1>8. OnePlace(scopes)
  <2>1. ASSUME NEW i \in 1..P, NEW j \in 1..P, scopes[1][i].name = scopes[1][j].name PROVE i = j
    <3>0. \A x : ScopeVar(x, TRUE).name = x
      BY DEF ScopeVar
    <3> HIDE DEF P
    <3>1. scopes[1][i].name = Param(i) /\ scopes[1][j].name = Param(j)
      <4>1. scopes[1][i] = ScopeVar(Param(i), TRUE) /\ scopes[1][j] = ScopeVar(Param(j), TRUE)
        BY <1>1
      <4> QED
        BY <3>0, <4>1
    <3>2. Param(i) = Param(j)
      BY <2>1, <3>1
    <3> QED
      BY <1>3, <3>2
  <2> QED
    BY <1>5, <1>6, <2>1 DEF OnePlace
<1>9. ASSUME NEW v \in ToSet(scopes[1]) PROVE Named(v) /\ v.name \notin RangeVars
  <2>1. PICK x \in Params(P) : v = ScopeVar(x, TRUE)
    BY <1>1
  <2>2. v.name = x /\ v.owned
    BY <2>1 DEF ScopeVar
  <2>3. x \in Given1 /\ x \notin Also
    BY <1>7
  <2>4. RangeVars \cap Given1 = {}
    BY NamesApart
  <2>5. Named(v)
    BY <2>2, <2>3 DEF Named, Given1
  <2> QED
    BY <2>2, <2>3, <2>4, <2>5
<1>10. HeldByFor(scopes, open)
  <2>1. \A n \in 1..3 : RangeVar(n) \in RangeVars
    BY NamesApart
  <2> QED
    BY <1>5, <1>9, <2>1 DEF HeldByFor
<1>11. Leveled(scopes, open)
  <2>1. Level(open, 1) = 1
    BY DEF Level
  <2>2. Len(open) + 1 = 1
    BY <1>4
  <2> QED
    BY <1>1, <1>4, <2>1, <2>2 DEF Leveled
<1>12. RangesHeld(scopes, open)
  BY <1>4 DEF RangesHeld
<1>13. Len(scopes) = 1 + Len(open) + Cardinality({n \in 1..Len(open) : open[n].kind = "for"})
  <2>1. {n \in 1..Len(open) : open[n].kind = "for"} = {}
    BY <1>4
  <2>2. Cardinality({}) = 0
    BY FS_EmptySet
  <2> QED
    BY <1>1, <1>4, <2>1, <2>2
<1>14. \A i \in 1..Len(scopes) : \A v \in ToSet(scopes[i]) : Named(v)
  BY <1>5, <1>9
<1> QED
  BY <1>1, <1>4, <1>8, <1>10, <1>11, <1>12, <1>13, <1>14 DEF Tidy

\* What a function owns before its first statement: its parameters and its named return.
InitOwns == [x \in Params(Len(job.params)) \cup Also |-> KindOf(x)]

\* What a function owns before its first statement: its parameters and its named
\* return.
LEMMA InitShape ==
  ASSUME job \in Jobs, Init, NEW B, Left(B, InitOwns, Nothing, << >>)
  PROVE  Shape(B, scopes, Len(scopes), open, Len(open))
<1> DEFINE P == Len(job.params)
<1>1. /\ Len(scopes) = 1
      /\ \A v : v \in ToSet(scopes[1]) <=> \E x \in Params(P) : v = ScopeVar(x, TRUE)
  BY InitScope
<1>2. open = << >> /\ Len(open) = 0 /\ 1..Len(open) = {} /\ 1..0 = {}
  <2>1. open = << >>
    BY DEF Init
  <2> QED
    BY <2>1
<1>3. VarsIn(scopes, 1) = ToSet(scopes[1])
  <2>1. 1..1 = {1}
    OBVIOUS
  <2> QED
    BY <2>1 DEF VarsIn
<1>4. Own(B) = InitOwns /\ DOMAIN Twin(B) = {} /\ HoleOf(B) = << >> /\ Fill(B) = << >> /\ Turns(B) = {}
  BY DEF Left, Nothing
<1>5. \A v : v \in VarsIn(scopes, 1) <=> \E x \in Params(P) : v = ScopeVar(x, TRUE)
  BY <1>1, <1>3
<1>6. {v.name : v \in VarsIn(scopes, 1)} = Params(P)
  <2>1. \A x : ScopeVar(x, TRUE).name = x
    BY DEF ScopeVar
  <2>2. \A v \in VarsIn(scopes, 1) : v.name \in Params(P)
    BY <1>5, <2>1
  <2>3. \A x \in Params(P) : \E v \in VarsIn(scopes, 1) : v.name = x
    BY <1>5, <2>1
  <2> QED
    BY <2>2, <2>3
<1>7. HeldIn(scopes, 1) = Params(P) \cup Also
  BY <1>6 DEF HeldIn
<1>8. DOMAIN InitOwns = Params(P) \cup Also /\ \A x \in Params(P) \cup Also : InitOwns[x] = KindOf(x)
  BY DEF InitOwns
<1>9. ASSUME NEW v \in VarsIn(scopes, 1) PROVE InitOwns[v.name] = SortOf(v)
  <2>1. PICK x \in Params(P) : v = ScopeVar(x, TRUE)
    BY <1>5
  <2>2. v.name = x /\ v.owned
    BY <2>1 DEF ScopeVar
  <2>3. x \notin RangeVars
    <3>1. x \in Given1
      BY ParamsAre DEF Params, Given1
    <3>2. RangeVars \cap Given1 = {}
      BY NamesApart
    <3> QED
      BY <3>1, <3>2
  <2>4. SortOf(v) = KindOf(x)
    BY <2>2, <2>3 DEF SortOf, KindOf
  <2> QED
    BY <1>8, <2>2, <2>4
<1>10. Ranged(open, 0) = {}
  BY <1>2 DEF Ranged
<1>11. InitOwns = [x \in DOMAIN InitOwns |-> InitOwns[x]]
  BY <1>8 DEF InitOwns
<1>12. {RangeVar(m) : m \in {}} = {}
  OBVIOUS
<1> HIDE DEF P
<1>13. Shaped(B, scopes, 1, open, 0)
  BY <1>4, <1>7, <1>8, <1>9, <1>10, <1>11, <1>12 DEF Shaped
<1>14. Shape(B, scopes, 1, open, 0)
  BY <1>13, ShapeBy
<1> QED
  BY <1>1, <1>2, <1>14

\* No construct is open.
LEMMA InitFramed == ASSUME Init PROVE Framed(Nothing, scopes, open)
<1>1. open = << >> /\ 1..Len(open) = {}
  <2>1. open = << >>
    BY DEF Init
  <2> QED
    BY <2>1
<1>2. DOMAIN Nothing = {} /\ Nothing = [n \in DOMAIN Nothing |-> Nothing[n]]
  BY DEF Nothing
<1> HIDE DEF Nothing
<1> QED
  BY <1>1, <1>2 DEF Framed

\* The code before the first statement of the source builds the named return.
LEMMA InitCode ==
  ASSUME job \in Jobs, Init
  PROVE  \E B : Course(code, Start, Nothing, B, Nothing) /\ Left(B, InitOwns, Nothing, << >>)
<1> DEFINE P == Len(job.params)
           O == [x \in Params(P) |-> KindOf(x)]
<1>1. Left(Start, O, Nothing, << >>)
  BY DEF Left, Start, AtParam, Point, Own, Twin, HoleOf, Fill, Turns
<1>2. code = IF job.named = "" THEN << >> ELSE <<Build("new", <<job.named>>, KindOf(job.named))>>
  BY DEF Init
<1>3. Also \subseteq Given1 /\ (Also = {} \/ Also = {job.named}) /\ (job.named = "" <=> Also = {})
  BY AlsoIs
<1>4. CASE job.named = ""
  <2>1. Also = {} /\ code = << >>
    BY <1>2, <1>3, <1>4
  <2>2. InitOwns = O
    BY <2>1 DEF InitOwns
  <2>3. Course(<< >>, Start, Nothing, Start, Nothing)
    BY CourseNone
  <2> HIDE DEF O
  <2> QED
    BY <1>1, <2>1, <2>2, <2>3
<1>5. CASE job.named # ""
  <2> DEFINE x == job.named
             k == KindOf(x)
             op == "new"
             s == Build(op, <<x>>, k)
             Q == With(O, x, k)
  <2>1. Also = {x} /\ code = <<s>> /\ x \in Names
    <3>1. Given1 \subseteq Names
      BY NamesApart
    <3> QED
      BY <1>2, <1>3, <1>5, <3>1
  <2>2. DOMAIN O = Params(P)
    OBVIOUS
  <2>3. x \notin DOMAIN O
    <3>1. job.named \notin ToSet(job.params)
      BY JobsAssumption
    <3>2. ToSet(job.params) = Params(P)
      BY ParamsAre
    <3> QED
      BY <2>2, <3>1, <3>2
  <2>4. k \in {"leaf", "tree"}
    BY KindsOf
  <2>5. Says(s, op, <<x>>, << >>) /\ s.kind = k
    BY DEF Says, Build, Stm
  <2>6. InitOwns = Q
    <3>1. DOMAIN Q = Params(P) \cup {x} /\ Q[x] = k /\ \A y \in Params(P) : y # x => Q[y] = O[y]
      BY <2>2 DEF With
    <3>2. Q = [y \in Params(P) \cup {x} |-> Q[y]]
      BY <2>2 DEF With
    <3>3. \A y \in Params(P) : O[y] = KindOf(y)
      OBVIOUS
    <3> HIDE DEF Q, O
    <3>4. \A y \in Params(P) \cup {x} : Q[y] = KindOf(y)
      BY <3>1, <3>3
    <3>5. InitOwns = [y \in Params(P) \cup {x} |-> KindOf(y)]
      BY <2>1 DEF InitOwns
    <3> QED
      BY <3>2, <3>4, <3>5
  <2>7. x \notin DOMAIN Nothing
    BY DEF Nothing
  <2>8. op \in {"new", "frame"} /\ op # "frame" /\ (IF op = "frame" THEN "frame" ELSE k) = k
    OBVIOUS
  <2> HIDE DEF O, s, k, x, op
  <2>9. Q = With(O, x, IF op = "frame" THEN "frame" ELSE k)
    BY <2>8
  <2> HIDE DEF Q
  <2>10. Passing(s, Start, Nothing, Q, Nothing, << >>)
    BY <1>1, <2>1, <2>3, <2>4, <2>5, <2>7, <2>8, <2>9, LeftCreate
  <2> QED
    BY <2>1, <2>6, <2>10 DEF Passing
<1> QED
  BY <1>4, <1>5

\* The walk starts where the code that builds the named return ends.
LEMMA InitGoes ==
  ASSUME job \in Jobs, Init
  PROVE  Tidy(scopes, open) /\ \E B, D : Drawn(B, D)
<1>1. Tidy(scopes, open)
  BY InitTidy
<1>2. PICK B : Course(code, Start, Nothing, B, Nothing) /\ Left(B, InitOwns, Nothing, << >>)
  BY InitCode
<1>3. Shape(B, scopes, Len(scopes), open, Len(open))
  BY <1>2, InitShape
<1>4. Framed(Nothing, scopes, open)
  BY InitFramed
<1>5. IsSeq(owners) /\ ToSet(owners) = {}
  <2>1. owners = << >>
    BY DEF Init
  <2> QED
    BY <2>1, EmptySetSeq
<1>6. IsSeq(code)
  BY <1>2 DEF Course
<1>7. Written(code, owners, Also, Start, B, Nothing)
  BY <1>2, <1>5, <1>6 DEF Course, Written, Noted
<1>8. Drawn(B, Nothing)
  BY <1>3, <1>4, <1>7 DEF Drawn
<1> QED
  BY <1>1, <1>8

-----------------------------------------------------------------------------
\* Every step of the walk goes on from what is known, or ends the walk.

Walking(s) == s /\ UNCHANGED <<job, phase>> /\ phase = "walk"

\* Every step of the walk goes on from what is known, or ends the walk.
LEMMA WalkGoes ==
  ASSUME Tidy(scopes, open), job \in Jobs, job.apart, ~job.reuse, NEW A, NEW D, Drawn(A, D), Walk
  PROVE  Walking(WalksOn) \/ Finish
<1> SUFFICES ASSUME ~Finish PROVE Walking(WalksOn)
  OBVIOUS
<1>1. ASSUME NEW k \in {"leaf", "tree"}, NEW x, x \in Unused(k), Declare(k, x) PROVE Walking(WalksOn)
  <2>1. WalksOn
    BY <1>1, DeclareWalks
  <2> QED
    BY <1>1, <2>1 DEF Walking, Declare, Goes
<1>2. ASSUME NEW k \in {"leaf", "tree"}, NEW x, x \in Unused(k), NEW l, l \in Givers, KindAt(l) = k, TakeOver(x, l)
      PROVE  Walking(WalksOn)
  <2>1. WalksOn
    BY <1>2, TakeWalks
  <2> QED
    BY <1>2, <2>1 DEF Walking, TakeOver, Goes
<1>3. ASSUME NEW k \in {"leaf", "tree"}, NEW x, x \in Unused(k), NEW as, as \in Args, TakeResult(x, k, as)
      PROVE  Walking(WalksOn)
  <2>1. WalksOn
    BY <1>3, ResultWalks
  <2> QED
    BY <1>3, <2>1 DEF Walking, TakeResult, Goes
<1>4. ASSUME NEW x, x \in Unused("tree"), DeclareInFrame(x) PROVE Walking(WalksOn)
  <2>1. WalksOn
    BY <1>4, FrameWalks
  <2> QED
    BY <1>4, <2>1 DEF Walking, DeclareInFrame, Goes
<1>5. ASSUME NEW to, to \in Givers, NEW l, l \in Givers, KindAt(l) = KindAt(to), Transfer(l, to) PROVE Walking(WalksOn)
  <2>1. WalksOn
    BY <1>5, TransferWalks
  <2> QED
    BY <1>5, <2>1 DEF Walking, Transfer, Goes, Kept
<1>6. ASSUME NEW to, to \in Givers, NEW as, as \in Args, TransferResult(as, to) PROVE Walking(WalksOn)
  <2>1. WalksOn
    BY <1>6, ReplaceWalks
  <2> QED
    BY <1>6, <2>1 DEF Walking, TransferResult, Goes, Kept
<1>7. ASSUME NEW as, as \in Args, Call(as) PROVE Walking(WalksOn)
  <2>1. WalksOn
    BY <1>7, CallWalks
  <2> QED
    BY <1>7, <2>1 DEF Walking, Call, Goes, Kept
<1>8. ASSUME NEW as, as \in Args, NEW k \in {"leaf", "tree"}, CallAndDiscard(as, k) PROVE Walking(WalksOn)
  <2>1. WalksOn
    BY <1>8, DiscardWalks
  <2> QED
    BY <1>8, <2>1 DEF Walking, CallAndDiscard, Goes, Kept
<1>9. ASSUME NEW as, as \in Args, ReturnResult(as) PROVE Walking(WalksOn)
  <2>1. WalksOn
    BY <1>9, ReturnResultWalks
  <2> QED
    BY <1>9, <2>1 DEF Walking, ReturnResult, Goes, Kept
<1>10. ASSUME NEW as, as \in Args, NEW x, x \in Unused("leaf"), OpenForResult(x, as) PROVE Walking(WalksOn)
  <2>1. WalksOn
    BY <1>10, OpenForResultWalks
  <2> QED
    BY <1>10, <2>1 DEF Walking, OpenForResult, ForLoop, Goes
<1>11. ASSUME NEW x, x \in Owned \cap Visible, ReturnOwned(x) PROVE Walking(WalksOn)
  <2>1. WalksOn
    BY <1>11, ReturnOwnedWalks
  <2> QED
    BY <1>11, <2>1 DEF Walking, ReturnOwned, Goes, Kept
<1>12. ASSUME NEW l, l \in Rows \cup {<<x>> : x \in Visible \ Owned}, ReturnCopy(l) PROVE Walking(WalksOn)
  <2>1. WalksOn
    BY <1>12, ReturnCopyWalks
  <2> QED
    BY <1>12, <2>1 DEF Walking, ReturnCopy, Goes, Kept
<1>13. ASSUME BareReturn PROVE Walking(WalksOn)
  <2>1. WalksOn
    BY <1>13, BareReturnWalks
  <2> QED
    BY <1>13, <2>1 DEF Walking, BareReturn, Goes, Kept
<1>14. ASSUME Break PROVE Walking(WalksOn)
  <2>1. WalksOn
    BY <1>14, BreakWalks
  <2> QED
    BY <1>14, <2>1 DEF Walking, Break, Goes, Kept
<1>15. ASSUME Continue PROVE Walking(WalksOn)
  <2>1. WalksOn
    BY <1>15, ContinueWalks
  <2> QED
    BY <1>15, <2>1 DEF Walking, Continue, Goes, Kept
<1>16. ASSUME NEW kind \in {"block", "if", "while"}, Open(kind) PROVE Walking(WalksOn)
  <2>1. WalksOn
    BY <1>16, OpenWalks
  <2> QED
    BY <1>16, <2>1 DEF Walking, Open, Goes
<1>17. ASSUME NEW x, x \in Unused("leaf"), NEW w, w \in Visible, KindOf(w) = "tree", OpenFor(x, w)
       PROVE  Walking(WalksOn)
  <2>1. WalksOn
    BY <1>17, OpenForWalks
  <2> QED
    BY <1>17, <2>1 DEF Walking, OpenFor, ForLoop, Goes
<1>18. ASSUME Close PROVE Walking(WalksOn)
  <2>1. WalksOn
    BY <1>18, CloseWalks
  <2> QED
    BY <1>18, <2>1 DEF Walking, Close
<1>19. ASSUME OpenElse PROVE Walking(WalksOn)
  <2>1. WalksOn
    BY <1>19, ElseWalks
  <2> QED
    BY <1>19, <2>1 DEF Walking, OpenElse
<1> QED
  BY <1>1, <1>2, <1>3, <1>4, <1>5, <1>6, <1>7, <1>8, <1>9, <1>10, <1>11, <1>12, <1>13, <1>14, <1>15, <1>16, <1>17,
     <1>18, <1>19, Zenon DEF Walk

-----------------------------------------------------------------------------
\* The inductive invariant.

\* What the walk has emitted can be accounted for, statement by statement, from
\* the function's entry to where it has come to; so can the finished code, and a
\* run is where what is noted holds of its variables and its heap.
Accounted ==
  /\ phase = "walk" => \E B, D : Drawn(B, D)
  /\ phase = "entry" => Complete(code, owners, Also, Start)
  /\ phase = "run" => \E p, q : Whole(p, q, Also, Start) /\ Here2(p)
Phases == {"walk", "entry", "run", "returned", "crashed"}
IInv ==
  /\ job \in Jobs /\ phase \in Phases
  /\ Tidy(scopes, open)
  /\ Typed(mem, heap, turn, index) /\ final \in 0..Len(heap) /\ (phase # "returned" => final = 0)
  /\ Accounted
  /\ NothingLeaks

\* The invariant holds before the first statement, ...
LEMMA InitInv == ASSUME RInit PROVE IInv
<1>1. Init /\ job \in Jobs /\ phase = "walk"
  BY DEF RInit, Init
<1>2. Tidy(scopes, open) /\ \E B, D : Drawn(B, D)
  BY <1>1, InitGoes
<1>3. mem = [x \in Names |-> 0] /\ heap = << >> /\ turn = [n \in 1..3 |-> 0] /\ index = [k \in Keys |-> 1] /\ final = 0
  BY DEF RInit
<1>4. Typed(mem, heap, turn, index)
  <2>1. heap \in Seq(BlocksIn(Len(heap))) /\ Len(heap) = 0
    BY <1>3
  <2>2. mem \in [Names -> 0..Len(heap)]
    BY <1>3, <2>1
  <2>3. turn \in [Nests -> Nat]
    BY <1>3 DEF Nests
  <2>4. index \in [Keys -> Slots]
    <3>1. 1 \in Slots
      <4>1. Cardinality(Slots) \in Nat /\ Slots # {} /\ Slots = 1..Cardinality(Slots)
        BY SlotsAssumption, FS_CardinalityType
      <4> DEFINE n == Cardinality(Slots)
      <4> HIDE DEF n
      <4>2. n \in Nat /\ Slots # {} /\ Slots = 1..n
        BY <4>1 DEF n
      <4> QED
        BY <4>2
    <3> QED
      BY <1>3, <3>1
  <2> QED
    BY <2>1, <2>2, <2>3, <2>4 DEF Typed
<1>5. final \in 0..Len(heap) /\ final = 0
  BY <1>3
<1>6. Accounted
  BY <1>1, <1>2 DEF Accounted
<1>7. NothingLeaks
  BY <1>1 DEF NothingLeaks
<1> QED
  BY <1>1, <1>2, <1>4, <1>5, <1>6, <1>7 DEF IInv, Phases

\* What a function is given and returns does not change.
LEMMA StartStays ==
  ASSUME job' = job
  PROVE  Also' = Also /\ Start' = Start
<1>1. Also' = Also
  BY DEF Also
<1>2. Start' = Start
  BY DEF Start, AtParam, Params, Param
<1> QED
  BY <1>1, <1>2

\* Scopes and constructs stay tidy while they stay the same.
LEMMA TidyOn == ASSUME job' = job, Tidy(scopes', open') PROVE Tidy(scopes, open)'
<1>1. Also' = Also
  BY StartStays
<1> QED
  BY <1>1 DEF Tidy, HeldByFor, RangesHeld, Named, HeldIn, VarsIn

\* What has been noted stays noted while job, scopes and constructs stay.
LEMMA DrawsOn == ASSUME job' = job, NEW B, NEW D, DrawnOn(B, D) PROVE Drawn(B, D)'
<1>1. Also' = Also /\ Start' = Start
  BY StartStays
<1>2. Written(code, owners, Also, Start, B, D)'
  BY <1>1 DEF DrawnOn
<1>3. Shape(B, scopes, Len(scopes), open, Len(open))'
  BY <1>1 DEF DrawnOn, Shape, OwnsScopes, HeldIn
<1>4. Framed(D, scopes, open)'
  BY <1>1 DEF DrawnOn, Framed, Shape, OwnsScopes, HeldIn
<1> QED
  BY <1>2, <1>3, <1>4 DEF Drawn

\* ... every step of the walk keeps it, ...
LEMMA WalkStep ==
  ASSUME IInv, \A j \in Jobs : j.apart /\ ~j.reuse, Walk, UNCHANGED rvars
  PROVE  IInv'
<1>0. job \in Jobs /\ job.apart /\ ~job.reuse
  BY DEF IInv
<1>1. phase = "walk"
  BY DEF Walk, Declare, TakeOver, TakeResult, DeclareInFrame, Transfer, TransferResult, Call, CallAndDiscard,
         ReturnResult, OpenForResult, ReturnOwned, ReturnCopy, BareReturn, Break, Continue, Open, OpenFor, Goes,
         Close, OpenElse, Finish
<1>2. Tidy(scopes, open) /\ \E B, D : Drawn(B, D)
  BY <1>1 DEF IInv, Accounted
<1>3. PICK A, D : Drawn(A, D)
  BY <1>2
<1>4. Walking(WalksOn) \/ Finish
  BY <1>0, <1>2, <1>3, WalkGoes
<1>5. mem' = mem /\ heap' = heap /\ turn' = turn /\ index' = index /\ final' = final
  BY DEF rvars
<1>6. Typed(mem, heap, turn, index)' /\ (final \in 0..Len(heap))' /\ final' = 0
  BY <1>1, <1>5 DEF IInv
<1>7. CASE Walking(WalksOn)
  <2>1. job' = job /\ phase' = "walk" /\ WalksOn
    BY <1>1, <1>7 DEF Walking
  <2>2. Tidy(scopes, open)'
    BY <2>1, TidyOn DEF WalksOn
  <2>3. PICK B, C : DrawnOn(B, C)
    BY <2>1 DEF WalksOn
  <2>4. Drawn(B, C)'
    BY <2>1, <2>3, DrawsOn
  <2>5. (\E B1, D1 : Drawn(B1, D1))'
    BY <2>4
  <2>6. Accounted'
    BY <2>1, <2>5 DEF Accounted
  <2>7. NothingLeaks'
    BY <2>1 DEF NothingLeaks
  <2> QED
    BY <1>0, <1>6, <2>1, <2>2, <2>6, <2>7 DEF IInv, Phases
<1>8. CASE Finish
  <2>1. job' = job /\ phase' = "entry" /\ scopes' = scopes /\ open' = open
    BY <1>8 DEF Finish
  <2>2. Tidy(scopes, open)'
    BY <1>2, <2>1, TidyOn
  <2>3. Complete(code', owners', Also, Start)
    BY <1>0, <1>2, <1>3, <1>8, FinishGoes
  <2>4. Complete(code, owners, Also, Start)'
    BY <2>1, <2>3, StartStays
  <2>5. Accounted'
    BY <2>1, <2>4 DEF Accounted
  <2>6. NothingLeaks'
    BY <2>1 DEF NothingLeaks
  <2> QED
    BY <1>0, <1>6, <2>1, <2>2, <2>5, <2>6 DEF IInv, Phases
<1> QED
  BY <1>4, <1>7, <1>8

\* ... the call of the function does, ...
LEMMA EnterStep ==
  ASSUME IInv, Enter
  PROVE  IInv'
<1>1. /\ phase = "entry" /\ phase' = "run" /\ pc' = 1 /\ final' = final /\ turn' = turn
      /\ job' = job /\ scopes' = scopes /\ open' = open /\ code' = code /\ owners' = owners
  BY DEF Enter, svars
<1>2. job \in Jobs /\ Tidy(scopes, open) /\ turn \in [Nests -> Nat] /\ Complete(code, owners, Also, Start)
      /\ final = 0
  BY <1>1 DEF IInv, Accounted, Typed
<1>3. Sound(Start, mem', heap', turn', index')
  BY <1>2, EnterGoes
<1>4. Typed(mem, heap, turn, index)'
  BY <1>3 DEF Sound
<1>5. Also' = Also /\ Start' = Start
  BY <1>1, StartStays
<1>6. PICK p, q : Whole(p, q, Also, Start)
  BY <1>2 DEF Complete, Stops, Whole
<1>7. Whole(p, q, Also, Start)'
  BY <1>1, <1>5, <1>6 DEF Whole
<1>8. Here2(p)'
  <2>1. p[1] = Start
    BY <1>6 DEF Whole, Noted
  <2>2. Len(code) \in Nat /\ DOMAIN code = 1..Len(code) /\ code # << >>
    BY <1>6, WholeIs DEF Whole
  <2>3. 1 \in DOMAIN code
    <3>1. code = [i \in 1..Len(code) |-> code[i]]
      BY <1>6 DEF Whole, Noted, IsSeq
    <3>2. CASE Len(code) = 0
      <4>1. code = [i \in 1..0 |-> code[i]] /\ 1..0 = {}
        BY <3>1, <3>2
      <4> QED
        BY <2>2, <4>1
    <3> QED
      BY <2>2, <3>2
  <2> QED
    BY <1>1, <1>3, <2>1, <2>3 DEF Here2, Now
<1>9. Accounted'
  BY <1>1, <1>7, <1>8 DEF Accounted
<1>10. final' = 0 /\ (final \in 0..Len(heap))'
  <2>1. Len(heap') \in Nat
    BY <1>4 DEF Typed
  <2> QED
    BY <1>1, <1>2, <2>1
<1>11. Tidy(scopes, open)'
  BY <1>1, <1>2, TidyOn
<1>12. NothingLeaks'
  BY <1>1 DEF NothingLeaks
<1> QED
  BY <1>1, <1>2, <1>4, <1>9, <1>10, <1>11, <1>12 DEF IInv, Phases

\* A statement that leads to where what is noted holds, too.
LEMMA GoesOn ==
  ASSUME IInv, phase = "run", NEW p, NEW q, Whole(p, q, Also, Start), There(p), UNCHANGED <<svars, phase, final>>
  PROVE  IInv'
<1>1. /\ job' = job /\ scopes' = scopes /\ open' = open /\ code' = code /\ owners' = owners
      /\ phase' = "run" /\ final' = final
  BY DEF svars
<1>2. job \in Jobs /\ Tidy(scopes, open) /\ final = 0
  BY DEF IInv
<1>3. pc' \in DOMAIN code /\ Sound(p[pc'], mem', heap', turn', index')
  BY DEF There
<1>4. Typed(mem, heap, turn, index)'
  BY <1>3 DEF Sound
<1>5. Also' = Also /\ Start' = Start
  BY <1>1, StartStays
<1>6. Whole(p, q, Also, Start)'
  BY <1>1, <1>5 DEF Whole
<1>7. Here2(p)'
  BY <1>1, <1>3 DEF Here2, Now
<1>8. Accounted'
  BY <1>1, <1>6, <1>7 DEF Accounted
<1>9. final' = 0 /\ (final \in 0..Len(heap))'
  <2>1. Len(heap') \in Nat
    BY <1>4 DEF Typed
  <2> QED
    BY <1>1, <1>2, <2>1
<1>10. Tidy(scopes, open)'
  BY <1>1, <1>2, TidyOn
<1>11. NothingLeaks'
  BY <1>1 DEF NothingLeaks
<1> QED
  BY <1>1, <1>2, <1>4, <1>8, <1>9, <1>10, <1>11 DEF IInv, Phases

\* ... and its return, ...
LEMMA ReturnStep ==
  ASSUME IInv, Returns, NEW p, NEW q, Whole(p, q, Also, Start), Here2(p)
  PROVE  IInv'
<1>1. NothingLeaks' /\ final' \in 0..Len(heap) /\ phase' = "returned" /\ UNCHANGED <<svars, pc, mem, heap, turn, index>>
  BY ReturnGoes
<1>2. /\ job' = job /\ scopes' = scopes /\ open' = open
      /\ mem' = mem /\ heap' = heap /\ turn' = turn /\ index' = index
  BY <1>1 DEF svars
<1>3. Typed(mem, heap, turn, index)' /\ (final \in 0..Len(heap))'
  BY <1>1, <1>2 DEF IInv
<1>4. Tidy(scopes, open)'
  BY <1>2, TidyOn DEF IInv
<1>5. Accounted'
  BY <1>1 DEF Accounted
<1>6. (job \in Jobs)'
  BY <1>2 DEF IInv
<1> QED
  BY <1>1, <1>3, <1>4, <1>5, <1>6 DEF IInv, Phases

\* ... and a null pointer followed, which ends the run, ...
LEMMA CrashStep ==
  ASSUME IInv, Crash
  PROVE  IInv'
<1>1. /\ phase = "run" /\ phase' = "crashed" /\ job' = job /\ scopes' = scopes /\ open' = open
      /\ mem' = mem /\ heap' = heap /\ turn' = turn /\ index' = index /\ final' = final
  BY DEF Crash, svars, rvars
<1>2. Typed(mem, heap, turn, index)' /\ (final \in 0..Len(heap))' /\ final' = 0
  BY <1>1 DEF IInv
<1>3. Tidy(scopes, open)'
  BY <1>1, TidyOn DEF IInv
<1>4. Accounted' /\ NothingLeaks'
  BY <1>1 DEF Accounted, NothingLeaks
<1>5. (job \in Jobs)'
  BY <1>1 DEF IInv
<1> QED
  BY <1>1, <1>2, <1>3, <1>4, <1>5 DEF IInv, Phases

\* ... and a step that changes nothing.
LEMMA StillStep ==
  ASSUME IInv, UNCHANGED vars
  PROVE  IInv'
<1>1. /\ job' = job /\ scopes' = scopes /\ open' = open /\ code' = code /\ owners' = owners /\ phase' = phase
      /\ pc' = pc /\ mem' = mem /\ heap' = heap /\ turn' = turn /\ index' = index /\ final' = final
  BY DEF vars
<1>2. Typed(mem, heap, turn, index)' /\ (final \in 0..Len(heap))' /\ (phase # "returned" => final = 0)'
  BY <1>1 DEF IInv
<1>3. Tidy(scopes, open)'
  BY <1>1, TidyOn DEF IInv
<1>4. Also' = Also /\ Start' = Start
  BY <1>1, StartStays
<1>5. ASSUME phase = "walk" PROVE (\E B, D : Drawn(B, D))'
  <2>1. PICK B, D : Drawn(B, D)
    BY <1>5 DEF IInv, Accounted
  <2>2. DrawnOn(B, D)
    BY <1>1, <2>1 DEF Drawn, DrawnOn
  <2>3. Drawn(B, D)'
    BY <1>1, <2>2, DrawsOn
  <2> QED
    BY <2>3
<1>6. ASSUME phase = "entry" PROVE Complete(code, owners, Also, Start)'
  BY <1>1, <1>4, <1>6 DEF IInv, Accounted
<1>7. ASSUME phase = "run" PROVE (\E p, q : Whole(p, q, Also, Start) /\ Here2(p))'
  <2>1. PICK p, q : Whole(p, q, Also, Start) /\ Here2(p)
    BY <1>7 DEF IInv, Accounted
  <2>2. (Whole(p, q, Also, Start) /\ Here2(p))'
    BY <1>1, <1>4, <2>1 DEF Whole, Here2, Now
  <2> QED
    BY <2>2
<1>8. Accounted'
  BY <1>1, <1>5, <1>6, <1>7 DEF Accounted
<1>9. NothingLeaks'
  BY <1>1 DEF IInv, NothingLeaks, WithRows
<1> QED
  BY <1>1, <1>2, <1>3, <1>8, <1>9 DEF IInv

\* Every step keeps the invariant.
LEMMA StepInv ==
  ASSUME IInv, \A j \in Jobs : j.apart /\ ~j.reuse, [Next]_vars
  PROVE  IInv'
<1>1. CASE phase = "walk" /\ Walk /\ UNCHANGED rvars
  BY <1>1, WalkStep
<1>2. CASE Enter
  BY <1>2, EnterStep
<1>3. ASSUME Create \/ Store \/ FreeOrCopy \/ Calls \/ Branch \/ EnterLoop \/ Test \/ Jumps \/ Advance \/ Returns
      PROVE  IInv'
  <2>1. phase = "run"
    BY <1>3 DEF Create, Store, FreeOrCopy, Calls, Branch, EnterLoop, Test, Jumps, Advance, Returns, Runs
  <2>2. PICK p, q : Whole(p, q, Also, Start) /\ Here2(p)
    BY <2>1 DEF IInv, Accounted
  <2>3. CASE Returns
    BY <2>2, <2>3, ReturnStep
  <2>4. CASE ~Returns
    <3>1. UNCHANGED <<svars, phase, final>>
      BY <1>3, <2>4 DEF Create, Store, FreeOrCopy, Calls, Branch, EnterLoop, Test, Jumps, Advance, Go
    <3>2. CASE Create \/ Store \/ FreeOrCopy \/ Calls
      <4>1. There(p)
        BY <2>2, <3>2, EffectGoes
      <4> QED
        BY <2>1, <2>2, <3>1, <4>1, GoesOn
    <3>3. CASE Branch
      <4>1. There(p)
        BY <2>2, <3>3, BranchGoes
      <4> QED
        BY <2>1, <2>2, <3>1, <4>1, GoesOn
    <3>4. CASE EnterLoop
      <4>1. There(p)
        BY <2>2, <3>4, LoopGoes
      <4> QED
        BY <2>1, <2>2, <3>1, <4>1, GoesOn
    <3>5. CASE Test
      <4>1. There(p)
        BY <2>2, <3>5, TestGoes
      <4> QED
        BY <2>1, <2>2, <3>1, <4>1, GoesOn
    <3>6. CASE Jumps
      <4>1. There(p)
        BY <2>2, <3>6, JumpGoes
      <4> QED
        BY <2>1, <2>2, <3>1, <4>1, GoesOn
    <3>7. CASE Advance
      <4>1. There(p)
        BY <2>2, <3>7, AdvanceGoes
      <4> QED
        BY <2>1, <2>2, <3>1, <4>1, GoesOn
    <3> QED
      BY <1>3, <2>4, <3>2, <3>3, <3>4, <3>5, <3>6, <3>7
  <2> QED
    BY <2>3, <2>4
<1>4. CASE Crash
  BY <1>4, CrashStep
<1>5. CASE UNCHANGED vars
  BY <1>5, StillStep
<1> QED
  BY <1>1, <1>2, <1>3, <1>4, <1>5 DEF Next, Run

-----------------------------------------------------------------------------
\* What the inductive invariant says.

LEMMA Names1 == ASSUME NEW v, v \in Variables PROVE v \in [name : Names, owned : BOOLEAN]
BY DEF Variables

\* It gives the types, ...
LEMMA InvTypes == ASSUME IInv PROVE TypeOK
<1>1. job \in Jobs /\ phase \in {"walk", "entry", "run", "returned", "crashed"} /\ Tidy(scopes, open)
  BY DEF IInv, Phases
<1>2. Len(scopes) = 1 + Len(open) + Cardinality({n \in DOMAIN open : open[n].kind = "for"})
  <2>1. DOMAIN open = 1..Len(open)
    BY <1>1, TidyIs
  <2>2. Len(scopes) = 1 + Len(open) + Cardinality({n \in 1..Len(open) : open[n].kind = "for"})
    BY <1>1 DEF Tidy
  <2> QED
    BY <2>1, <2>2
<1>3. \A v \in ScopeVars : v \in [name : Names, owned : BOOLEAN]
  <2>1. scopes \in Seq(Seq(Variables)) /\ Len(scopes) \in Nat
    BY <1>1, TidyIs DEF Tidy
  <2>2. ScopeVars = VarsIn(scopes, Len(scopes))
    BY <2>1, ScopeVarsAre
  <2>3. \A v \in VarsIn(scopes, Len(scopes)) : v \in Variables
    BY <1>1, <2>1, HeldAre
  <2> QED
    BY <2>2, <2>3, Names1
<1>4. /\ heap \in Seq(BlocksIn(Len(heap))) /\ mem \in [Names -> 0..Len(heap)]
      /\ turn \in [Nests -> Nat] /\ index \in [Keys -> Slots] /\ final \in 0..Len(heap)
  BY DEF IInv, Typed
<1>5. \A b \in DOMAIN heap : heap[b].rows \in {<< >>} \cup [Slots -> Pointers]
  <2>1. \A b \in DOMAIN heap : heap[b] \in BlocksIn(Len(heap))
    BY <1>4
  <2>2. \A x \in BlocksIn(Len(heap)) : x.rows \in {<< >>} \cup [Slots -> 0..Len(heap)]
    BY DEF BlocksIn
  <2> QED
    BY <2>1, <2>2 DEF Pointers
<1>6. phase = "run" => pc \in DOMAIN code
  BY DEF IInv, Accounted, Here2
<1> QED
  BY <1>1, <1>2, <1>3, <1>4, <1>5, <1>6 DEF TypeOK, Pointers, Nests

\* ... the safety of the statement to come ...
LEMMA InvSafe == ASSUME IInv PROVE TouchesAlive /\ ReleasesOnce
<1> SUFFICES ASSUME Executes PROVE Safe
  BY DEF TouchesAlive, ReleasesOnce, Safe
<1>1. phase = "run" /\ ~FollowsNull
  BY DEF Executes
<1>2. PICK p, q : Whole(p, q, Also, Start) /\ Here2(p)
  BY <1>1 DEF IInv, Accounted
<1> QED
  BY <1>1, <1>2, SafeHere

\* ... and one owner for each block.
LEMMA InvOwner == ASSUME IInv PROVE OneOwner /\ RangeStays
<1>1. CASE phase = "run"
  <2>1. PICK p, q : Whole(p, q, Also, Start) /\ Here2(p)
    BY <1>1 DEF IInv, Accounted
  <2> QED
    BY <2>1, OwnerHere, RangeHere
<1>2. CASE phase # "run"
  BY <1>2 DEF OneOwner, RangeStays
<1> QED
  BY <1>1, <1>2

-----------------------------------------------------------------------------
\* What is proved of every function that gives no two rows of one array in one
\* call, and whose calls do not replace what their arguments read.

Apart == \A j \in Jobs : j.apart /\ ~j.reuse

\* What is noted of the emitted code, point by point, stays true of every run of it.
THEOREM Inductive == ASSUME Apart PROVE RSpec => []IInv
<1>1. RInit => IInv
  BY InitInv
<1>2. IInv /\ [Next]_vars => IInv'
  BY StepInv DEF Apart
<1> QED
  BY <1>1, <1>2, PTL DEF RSpec

\* The walk's scopes and constructs belong together, pointers point to blocks,
\* and a run is always at a statement: every jump and branch has a target.
THEOREM TypesKept == ASSUME Apart PROVE RSpec => []TypeOK
<1>1. IInv => TypeOK
  BY InvTypes
<1> QED
  BY <1>1, Inductive, PTL

\* The statements palan-sa emits never read, write or release a released block.
THEOREM NoUseAfterFree == ASSUME Apart PROVE RSpec => []TouchesAlive
<1>1. IInv => TouchesAlive
  BY InvSafe
<1> QED
  BY <1>1, Inductive, PTL

\* No statement, a call with all it is given included, releases a block twice, or a frame
\* array as if it were on the heap.
THEOREM NoDoubleFree == ASSUME Apart PROVE RSpec => []ReleasesOnce
<1>1. IInv => ReleasesOnce
  BY InvSafe
<1> QED
  BY <1>1, Inductive, PTL

\* Whatever way a function is left, all that is not returned has been released.
THEOREM NoLeak == ASSUME Apart PROVE RSpec => []NothingLeaks
<1>1. IInv => NothingLeaks
  BY DEF IInv
<1> QED
  BY <1>1, Inductive, PTL

\* Between statements of the source each block has one owner, and no owner a released block.
THEOREM OwnedOnce == ASSUME Apart PROVE RSpec => []OneOwner
<1>1. IInv => OneOwner
  BY InvOwner
<1> QED
  BY <1>1, Inductive, PTL

\* The array that a `for` walks is neither moved nor released before the last turn.
THEOREM RangeKept == ASSUME Apart PROVE RSpec => []RangeStays
<1>1. IInv => RangeStays
  BY InvOwner
<1> QED
  BY <1>1, Inductive, PTL
=============================================================================
