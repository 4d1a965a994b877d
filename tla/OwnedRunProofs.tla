--------------------------- MODULE OwnedRunProofs ----------------------------
(***************************************************************************)
(* Facts about running a function's code, for every job, every name and    *)
(* every bound: what a statement of OwnedRun does to the blocks, the       *)
(* variables and the loops' turns, told by the point of the function it    *)
(* stands at.  A point (Point) says which variables own a block and of     *)
(* which kind, which range is read, which place is left to be filled and   *)
(* which loop still has turns.  Sound ties a point to the memory: every    *)
(* owner holds a block of its own, alive and of the kind it says, and all  *)
(* other blocks are released.  Effect says how one statement takes a       *)
(* point to the next one, Flow adds the branches and the loops, and Noted  *)
(* puts a point before and behind every statement of the code.             *)
(***************************************************************************)
EXTENDS OwnedRun, LeastNats, FiniteSetTheorems, TLAPS

-----------------------------------------------------------------------------
\* What is known at a point of the emitted code.

Nothing == [x \in {} |-> x]
With(f, x, k) == [y \in DOMAIN f \cup {x} |-> IF y = x THEN k ELSE f[y]]
Less(f, S) == [y \in DOMAIN f \ S |-> f[y]]

(***************************************************************************)
(* own: the names that own what they point to, and what that is; twin: the *)
(* names that point to what another location holds; hole: a row that has   *)
(* been released and waits for its next block, << >> for none; fill: what  *)
(* has been stored there already; turns: the loops whose counter is a row. *)
(***************************************************************************)
Point(own, twin, hole, fill, turns) ==
  [own |-> own, twin |-> twin, hole |-> hole, fill |-> fill, turns |-> turns]

Own(A) == A.own
Twin(A) == A.twin
HoleOf(A) == A.hole
Fill(A) == A.fill
Turns(A) == A.turns

Nests == 1..3
Sorts == {"leaf", "tree", "frame"}
IsFree(A, x) == x \in Names /\ x \notin DOMAIN Own(A) /\ x \notin DOMAIN Twin(A)
HasRows(A, x) == Own(A)[x] \in {"tree", "frame"}
SortAt(A, l) == IF Len(l) = 2 THEN "leaf" ELSE Own(A)[l[1]]

\* An owner, or a row of one.
Located(A, l) ==
  \/ \E x \in DOMAIN Own(A) : l = <<x>>
  \/ \E x \in DOMAIN Own(A), k \in Keys : l = <<x, k>> /\ HasRows(A, x)
OutsideHole(A, l) == HoleOf(A) = << >> \/ HoleOf(A)[1] # l[1]

\* The owner that a name stands for.
StandsFor(A, x, y) ==
  y \in DOMAIN Own(A) /\ (x = y \/ (x \in DOMAIN Twin(A) /\ Twin(A)[x] = <<y>>))

\* No twin but t is of a row, as long as it is l's or l's owner is emptied with it.
Undisturbed(A, l, t) ==
  \A u \in DOMAIN Twin(A) : u # t => Twin(A)[u][1] # l[1] \/ (Len(Twin(A)[u]) = 1 /\ Len(l) = 2)
OfOwners(A) == \A u \in DOMAIN Twin(A) : Len(Twin(A)[u]) = 1
Without(A, S) ==
  Point(Less(Own(A), S), [u \in {u \in DOMAIN Twin(A) : Twin(A)[u][1] \notin S} |-> Twin(A)[u]],
        HoleOf(A), Fill(A), Turns(A))
Owns(A, x, k) == Point(With(Own(A), x, k), Twin(A), HoleOf(A), Fill(A), Turns(A))
Twins(A, x, l) == Point(Own(A), With(Twin(A), x, l), HoleOf(A), Fill(A), Turns(A))
Hole(A, l, f) == Point(Own(A), Twin(A), l, f, Turns(A))

-----------------------------------------------------------------------------
\* What a statement c makes of what is known before it.

Creates(c1, A, B) ==
  /\ c1.op \in {"new", "frame"} /\ c1.from = << >> /\ c1.args = << >>
  /\ \E x \in Names :
       /\ c1.to = <<x>> /\ IsFree(A, x)
       /\ c1.kind \in {"leaf", "tree"} /\ (c1.op = "frame" => c1.kind = "tree")
       /\ B = Owns(A, x, IF c1.op = "frame" THEN "frame" ELSE c1.kind)

Copies(c1, A, B) ==
  /\ c1.op = "copy" /\ c1.args = << >>
  /\ OutsideHole(A, c1.to) /\ \E x \in DOMAIN Own(A) : c1.to = <<x>>
  /\ \/ Located(A, c1.from) /\ OutsideHole(A, c1.from)
     \/ \E x \in Names, y \in DOMAIN Own(A) :
          /\ StandsFor(A, x, y) /\ HasRows(A, y) /\ HoleOf(A) = << >>
          /\ c1.from = <<x, "#">> /\ c1.nest \in Turns(A)
  /\ B = Point(Own(A), Twin(A), HoleOf(A), Fill(A), {})

MakesTwin(c1, A, B) ==
  /\ c1.op = "mov" /\ c1.args = << >>
  /\ Located(A, c1.from) /\ OutsideHole(A, c1.from)
  /\ \E x \in Names : c1.to = <<x>> /\ IsFree(A, x) /\ B = Twins(A, x, c1.from)

HandsOver(c1, A, B) ==
  /\ c1.op = "mov" /\ c1.args = << >> /\ HoleOf(A) = << >>
  /\ \E x \in Names, y \in DOMAIN Own(A) :
       /\ c1.to = <<x>> /\ IsFree(A, x) /\ c1.from = <<y>>
       /\ B = Owns(Without(A, {y}), x, Own(A)[y])

FillsHole(c1, A, B) ==
  /\ c1.op = "mov" /\ c1.args = << >>
  /\ HoleOf(A) # << >> /\ c1.to = HoleOf(A) /\ Fill(A) = << >>
  /\ Located(A, c1.from) /\ SortAt(A, c1.from) = "leaf"
  /\ B = Hole(A, HoleOf(A), c1.from)

EmptiesTwin(c1, A, B) ==
  /\ c1.op = "null" /\ c1.from = << >> /\ c1.args = << >>
  /\ Located(A, c1.to) /\ OutsideHole(A, c1.to) /\ SortAt(A, c1.to) # "frame" /\ Fill(A) = << >>
  /\ \E t \in DOMAIN Twin(A) :
       /\ Twin(A)[t] = c1.to /\ Undisturbed(A, c1.to, t)
       /\ B = Owns(Point(Own(A), Less(Twin(A), {t}), HoleOf(A), Fill(A), Turns(A)), t, SortAt(A, c1.to))

EmptiesFill(c1, A, B) ==
  /\ c1.op = "null" /\ c1.from = << >> /\ c1.args = << >>
  /\ HoleOf(A) # << >> /\ Fill(A) = c1.to /\ Located(A, c1.to) /\ OfOwners(A)
  /\ \A u \in DOMAIN Twin(A) : Twin(A)[u] # c1.to
  /\ B = Hole(A, << >>, << >>)

FreesOwner(c1, A, B) ==
  /\ c1.op \in {"free", "fini"} /\ c1.from = << >> /\ c1.args = << >> /\ HoleOf(A) = << >>
  /\ \E x \in DOMAIN Own(A) :
       /\ c1.to = <<x>> /\ (c1.op = "free" => Own(A)[x] # "frame")
       /\ B = Without(A, {x})

FreesRow(c1, A, B) ==
  /\ c1.op = "free" /\ c1.from = << >> /\ c1.args = << >> /\ HoleOf(A) = << >> /\ OfOwners(A)
  /\ Located(A, c1.to) /\ Len(c1.to) = 2
  /\ B = Hole(A, c1.to, << >>)

Passed(c1) == {c1.args[i][1] : i \in DOMAIN c1.args}
Passes(c1, A) ==
  /\ c1.from = << >>
  /\ \E n \in 0..2 : c1.args \in [1..n -> {<<x>> : x \in DOMAIN Own(A)}]
  /\ \A i \in DOMAIN c1.args : Own(A)[c1.args[i][1]] # "frame"
  /\ \A i, j \in DOMAIN c1.args : c1.args[i] = c1.args[j] => i = j
  /\ HoleOf(A) # << >> => HoleOf(A)[1] \notin Passed(c1) /\ Fill(A) = << >>
CallsFor(c1, A, B) ==
  /\ c1.op = "call" /\ Passes(c1, A)
  /\ \/ c1.to = << >> /\ B = Without(A, Passed(c1))
     \/ /\ c1.kind \in {"leaf", "tree"}
        /\ \E x \in Names : c1.to = <<x>> /\ IsFree(A, x) /\ B = Owns(Without(A, Passed(c1)), x, c1.kind)
     \/ /\ HoleOf(A) # << >> /\ c1.to = HoleOf(A) /\ Fill(A) = << >> /\ c1.kind = "leaf" /\ OfOwners(A)
        /\ B = Hole(Without(A, Passed(c1)), << >>, << >>)

Effect(c1, A, B) ==
  \/ Creates(c1, A, B) \/ Copies(c1, A, B)
  \/ MakesTwin(c1, A, B) \/ HandsOver(c1, A, B) \/ FillsHole(c1, A, B)
  \/ EmptiesTwin(c1, A, B) \/ EmptiesFill(c1, A, B)
  \/ FreesOwner(c1, A, B) \/ FreesRow(c1, A, B) \/ CallsFor(c1, A, B)

-----------------------------------------------------------------------------
\* Branches, loops and jumps. Around a point are constructs, by nest: what is
\* known at the test of the loop, or in an else, and after the construct.

Entry(way, top, out) == [way |-> way, top |-> top, out |-> out]
Way(e) == e.way
Top(e) == e.top
Out(e) == e.out

\* What is known at A is what X says, and more.
Leads(A, X) ==
  /\ Own(X) = Own(A) /\ HoleOf(A) = << >> /\ HoleOf(X) = << >> /\ Turns(X) = {}
  /\ DOMAIN Twin(X) \subseteq DOMAIN Twin(A)
  /\ \A t \in DOMAIN Twin(X) : Twin(X)[t] = Twin(A)[t]

Bare(c1) == c1.to = << >> /\ c1.from = << >> /\ c1.args = << >>

Ifs(c1, A, C, B, D) ==
  /\ c1.op = "if" /\ Bare(c1)
  /\ c1.nest \in Nests \ DOMAIN C /\ Leads(A, A)
  /\ B = A /\ D = With(C, c1.nest, Entry("branch", A, A))

Elses(c1, A, C, B, D) ==
  /\ c1.op = "else" /\ Bare(c1)
  /\ c1.nest \in DOMAIN C /\ Way(C[c1.nest]) = "branch" /\ Leads(A, Out(C[c1.nest]))
  /\ B = Top(C[c1.nest]) /\ D = C

Ends(c1, A, C, B, D) ==
  /\ c1.op = "end" /\ Bare(c1)
  /\ c1.nest \in DOMAIN C /\ Way(C[c1.nest]) # "fresh" /\ Leads(A, Out(C[c1.nest]))
  /\ B = Out(C[c1.nest]) /\ D = Less(C, {c1.nest})

Begins(c1, A, C, B, D) ==
  /\ c1.op = "loop" /\ Bare(c1)
  /\ c1.nest \in Nests \ DOMAIN C
  /\ B = A /\ HoleOf(A) = << >> /\ \E out : Leads(A, out) /\ D = With(C, c1.nest, Entry("fresh", A, out))

Tests(c1, A, C, B, D) ==
  /\ c1.op = "test" /\ c1.args = << >>
  /\ c1.nest \in DOMAIN C \cap Nests /\ Way(C[c1.nest]) = "fresh" /\ Leads(A, A)
  /\ Top(C[c1.nest]) = A /\ Leads(A, Out(C[c1.nest]))
  /\ c1.from = << >> \/ \E f \in Names : c1.from = <<f>>
  /\ c1.to # << >> => \E f \in DOMAIN Twin(A), y \in DOMAIN Own(A) :
                        c1.from = <<f>> /\ c1.to = <<y>> /\ Twin(A)[f] = <<y>>
  /\ B = Point(Own(A), Twin(A), << >>, << >>, IF c1.from # << >> THEN {c1.nest} ELSE {})
  /\ D = With(C, c1.nest, Entry("loop", Top(C[c1.nest]), Out(C[c1.nest])))

Steps(c1, A, C, B, D) ==
  /\ c1.op = "step" /\ Bare(c1) /\ c1.nest \in Nests /\ Turns(A) = {}
  /\ B = A /\ D = C

\* What follows a jump is reached from elsewhere or not at all.
BreaksOff(c1, A, C, B, D) ==
  /\ c1.op = "break" /\ Bare(c1)
  /\ c1.nest \in DOMAIN C /\ Way(C[c1.nest]) = "loop" /\ Leads(A, Out(C[c1.nest])) /\ D = C

Repeats(c1, A, C, B, D) ==
  /\ c1.op \in {"continue", "again"} /\ Bare(c1)
  /\ c1.nest \in DOMAIN C /\ Way(C[c1.nest]) = "loop" /\ Leads(A, Top(C[c1.nest])) /\ D = C

Exits(c1, A, C, B, D) ==
  /\ c1.op = "return" /\ c1.to = << >> /\ c1.args = << >> /\ HoleOf(A) = << >>
  /\ \/ c1.from = << >> /\ DOMAIN Own(A) = {}
     \/ \E x \in Names : c1.from = <<x>> /\ DOMAIN Own(A) = {x}
  /\ D = C

Flow(c1, A, C, B, D) ==
  \/ Effect(c1, A, B) /\ D = C
  \/ Ifs(c1, A, C, B, D) \/ Elses(c1, A, C, B, D) \/ Ends(c1, A, C, B, D)
  \/ Begins(c1, A, C, B, D) \/ Tests(c1, A, C, B, D) \/ Steps(c1, A, C, B, D)
  \/ BreaksOff(c1, A, C, B, D) \/ Repeats(c1, A, C, B, D) \/ Exits(c1, A, C, B, D)

\* Statements one after the other, with what is known between them.
IsSeq(s) == Len(s) \in Nat /\ s = [i \in 1..Len(s) |-> s[i]]
Course(ss, A, C, B, D) ==
  /\ IsSeq(ss)
  /\ \E p, q : /\ DOMAIN p = 1..Len(ss) + 1 /\ DOMAIN q = 1..Len(ss) + 1
              /\ p[1] = A /\ q[1] = C /\ p[Len(ss) + 1] = B /\ q[Len(ss) + 1] = D
              /\ \A i \in 1..Len(ss) : Flow(ss[i], p[i], q[i], p[i + 1], q[i + 1])

\* code, with what is known at each point of it, from A and nothing around it on.
Noted(cd, ms, also, A, p, q) ==
  /\ IsSeq(cd) /\ IsSeq(ms)
  /\ DOMAIN p = 1..Len(cd) + 1 /\ DOMAIN q = 1..Len(cd) + 1
  /\ p[1] = A /\ q[1] = Nothing
  /\ \A i \in 1..Len(cd) : Flow(cd[i], p[i], q[i], p[i + 1], q[i + 1])
  /\ \A m \in ToSet(ms) : /\ m.at \in 1..Len(cd) + 1
                          /\ HoleOf(p[m.at]) = << >> /\ DOMAIN Own(p[m.at]) = m.vars \cup also
Written(cd, ms, also, A, B, D) ==
  \E p, q : Noted(cd, ms, also, A, p, q) /\ p[Len(cd) + 1] = B /\ q[Len(cd) + 1] = D

-----------------------------------------------------------------------------
\* What is known of the variables m, the heap h, the turns tn and the indexes ix.

BlocksIn(n) == [alive : BOOLEAN, frame : BOOLEAN, rows : {<< >>} \cup [Slots -> 0..n]]
Typed(m, h, tn, ix) ==
  /\ h \in Seq(BlocksIn(Len(h))) /\ m \in [Names -> 0..Len(h)]
  /\ tn \in [Nests -> Nat] /\ ix \in [Keys -> Slots]

\* Places where a pointer is: <<0, x>> for a variable, <<b, i>> for a row of block b.
At(m, h, p) == IF p[1] = 0 THEN m[p[2]] ELSE h[p[1]].rows[p[2]]
Alive(h) == {b \in DOMAIN h : h[b].alive}
RowPlaces(h) == UNION {{<<b, i>> : i \in DOMAIN h[b].rows} : b \in Alive(h)}
HolePlace(A, m, ix) == IF HoleOf(A) = << >> THEN {} ELSE {<<m[HoleOf(A)[1]], ix[HoleOf(A)[2]]>>}
Places(A, m, h, ix) == {<<0, x>> : x \in DOMAIN Own(A)} \cup (RowPlaces(h) \ HolePlace(A, m, ix))
HeldAt(A, m, h, ix) == [p \in Places(A, m, h, ix) |-> At(m, h, p)]

\* Each of these blocks is held at one place, and nothing else is.
Each(at, blocks) ==
  /\ \A p \in DOMAIN at : at[p] = 0 \/ at[p] \in blocks
  /\ \A p, q \in DOMAIN at : at[p] = at[q] => p = q \/ at[p] = 0
  /\ \A b \in blocks : \E p \in DOMAIN at : at[p] = b

Fits(blk, sort) ==
  /\ sort = "leaf" => blk.rows = << >> /\ ~blk.frame
  /\ sort = "tree" => DOMAIN blk.rows = Slots /\ ~blk.frame
  /\ sort = "frame" => DOMAIN blk.rows = Slots

ValueAt(m, h, ix, l) == IF Len(l) = 1 THEN m[l[1]] ELSE h[m[l[1]]].rows[ix[l[2]]]
\* A location that can be followed.
Leads2(A, m, l) == Located(A, l) /\ (Len(l) = 2 => m[l[1]] # 0)

Sorted(A) ==
  DOMAIN Own(A) \subseteq Names /\ \A x \in DOMAIN Own(A) : Own(A)[x] \in Sorts
OwnersFit(A, m, h) == \A x \in DOMAIN Own(A) : m[x] # 0 => Fits(h[m[x]], Own(A)[x])
RowsFit(A, m, h, ix) ==
  \A p \in RowPlaces(h) \ HolePlace(A, m, ix) : At(m, h, p) # 0 => Fits(h[At(m, h, p)], "leaf")
TwinsAgree(A, m, h, ix) ==
  \A t \in DOMAIN Twin(A) :
    /\ t \in Names \ DOMAIN Own(A) /\ Leads2(A, m, Twin(A)[t]) /\ m[t] = ValueAt(m, h, ix, Twin(A)[t])
    /\ Len(Twin(A)[t]) = 2 => OutsideHole(A, Twin(A)[t])
HoleAgrees(A, m, h, ix) ==
  HoleOf(A) # << >> =>
    /\ Leads2(A, m, HoleOf(A)) /\ Len(HoleOf(A)) = 2
    /\ Fill(A) # << >> => /\ Leads2(A, m, Fill(A)) /\ SortAt(A, Fill(A)) = "leaf"
                         /\ ValueAt(m, h, ix, HoleOf(A)) = ValueAt(m, h, ix, Fill(A))
TurnsIn(A, tn) == Turns(A) \subseteq Nests /\ \A n \in Turns(A) : tn[n] \in Slots

Sound(A, m, h, tn, ix) ==
  /\ Typed(m, h, tn, ix) /\ Sorted(A)
  /\ Each(HeldAt(A, m, h, ix), Alive(h))
  /\ OwnersFit(A, m, h) /\ RowsFit(A, m, h, ix)
  /\ TwinsAgree(A, m, h, ix) /\ HoleAgrees(A, m, h, ix) /\ TurnsIn(A, tn)

\* Two such parts make a whole, ...
LEMMA EachJoined ==
  ASSUME NEW f, NEW F, NEW g, NEW G, NEW at, Each(f, F), Each(g, G), 0 \notin F, 0 \notin G,
         F \cap G = {}, DOMAIN f \cap DOMAIN g = {}, DOMAIN at = DOMAIN f \cup DOMAIN g,
         \A p \in DOMAIN f : at[p] = f[p], \A p \in DOMAIN g : at[p] = g[p]
  PROVE  Each(at, F \cup G)
<1>1. \A p \in DOMAIN at : at[p] = 0 \/ at[p] \in F \cup G
  BY DEF Each
<1>2. ASSUME NEW p \in DOMAIN at, NEW q \in DOMAIN at, at[p] = at[q] PROVE p = q \/ at[p] = 0
  BY <1>2 DEF Each
<1>3. ASSUME NEW b \in F \cup G PROVE \E p \in DOMAIN at : at[p] = b
  BY DEF Each
<1> QED
  BY <1>1, <1>2, <1>3 DEF Each

\* ... and what is left when one is taken off is a whole.
LEMMA EachParted ==
  ASSUME NEW f, NEW F, Each(f, F), NEW at, NEW gone,
         DOMAIN at = DOMAIN f \ gone, gone \subseteq DOMAIN f, 0 \notin F, \A p \in DOMAIN at : at[p] = f[p]
  PROVE  Each(at, F \ {f[p] : p \in gone})
<1>1. ASSUME NEW p \in DOMAIN at PROVE at[p] = 0 \/ at[p] \in F \ {f[q] : q \in gone}
  BY DEF Each
<1>2. \A p, q \in DOMAIN at : at[p] = at[q] => p = q \/ at[p] = 0
  BY DEF Each
<1>3. ASSUME NEW b \in F \ {f[q] : q \in gone} PROVE \E p \in DOMAIN at : at[p] = b
  <2>1. PICK p \in DOMAIN f : f[p] = b
    BY <1>3 DEF Each
  <2> QED
    BY <2>1
<1> QED
  BY <1>1, <1>2, <1>3 DEF Each

\* What is known about a place that owns.
LEMMA HeldFacts ==
  ASSUME NEW A, NEW m, NEW h, NEW tn, NEW ix, Sound(A, m, h, tn, ix)
  PROVE  /\ Len(h) \in Nat /\ DOMAIN h = 1..Len(h) /\ 0 \notin Alive(h) /\ Alive(h) \subseteq 1..Len(h)
         /\ \A x \in Names : m[x] \in 0..Len(h)
         /\ \A b \in 1..Len(h) : h[b] \in BlocksIn(Len(h))
         /\ \A x \in DOMAIN Own(A) : m[x] = 0 \/ m[x] \in Alive(h)
         /\ \A x, y \in DOMAIN Own(A) : m[x] = m[y] => x = y \/ m[x] = 0
         /\ \A x \in DOMAIN Own(A) : \A p \in RowPlaces(h) \ HolePlace(A, m, ix) :
              At(m, h, p) = m[x] => m[x] = 0
<1>1. h \in Seq(BlocksIn(Len(h))) /\ m \in [Names -> 0..Len(h)]
  BY DEF Sound, Typed
<1>2. Len(h) \in Nat /\ DOMAIN h = 1..Len(h) /\ \A b \in 1..Len(h) : h[b] \in BlocksIn(Len(h))
  BY <1>1
<1>3. Alive(h) \subseteq 1..Len(h) /\ 0 \notin Alive(h)
  BY <1>2 DEF Alive
<1>4. Each(HeldAt(A, m, h, ix), Alive(h))
  BY DEF Sound
<1>5. \A x \in DOMAIN Own(A) : /\ <<0, x>> \in DOMAIN HeldAt(A, m, h, ix)
                              /\ HeldAt(A, m, h, ix)[<<0, x>>] = m[x]
  BY DEF HeldAt, Places, At
<1>6. \A p \in RowPlaces(h) \ HolePlace(A, m, ix) :
         p \in DOMAIN HeldAt(A, m, h, ix) /\ HeldAt(A, m, h, ix)[p] = At(m, h, p)
  BY DEF HeldAt, Places
<1>7. \A x \in DOMAIN Own(A) : \A p \in RowPlaces(h) : <<0, x>> # p
  BY <1>3 DEF RowPlaces
<1>8. \A x, y \in DOMAIN Own(A) : <<0, x>> = <<0, y>> => x = y
  OBVIOUS
<1>9. \A x \in DOMAIN Own(A) : m[x] = 0 \/ m[x] \in Alive(h)
  BY <1>4, <1>5 DEF Each
<1>10. \A x, y \in DOMAIN Own(A) : m[x] = m[y] => x = y \/ m[x] = 0
  BY <1>4, <1>5, <1>8 DEF Each
<1>11. ASSUME NEW x \in DOMAIN Own(A), NEW p \in RowPlaces(h) \ HolePlace(A, m, ix), At(m, h, p) = m[x]
       PROVE  m[x] = 0
  BY <1>4, <1>5, <1>6, <1>7, <1>11 DEF Each
<1>12. \A x \in Names : m[x] \in 0..Len(h)
  BY <1>1
<1> QED
  BY <1>2, <1>3, <1>9, <1>10, <1>11, <1>12

\* The rows of an array are numbered from 1 on.
LEMMA SlotsAre == \E n \in Nat \ {0} : Slots = 1..n
<1>1. Cardinality(Slots) \in Nat
  BY SlotsAssumption, FS_CardinalityType
<1>2. Cardinality(Slots) # 0
  BY SlotsAssumption, <1>1
<1> QED
  BY <1>1, <1>2, SlotsAssumption

\* A sequence is the function of its elements.
LEMMA SeqIs == ASSUME NEW S, NEW s \in Seq(S) PROVE s = [i \in 1..Len(s) |-> s[i]]
OBVIOUS

\* The heap H of M blocks is h with what has been made behind its N blocks.
Grown(h, kind, frame, H, N, M) ==
  /\ N \in Nat /\ Len(H) = M /\ DOMAIN H = 1..M /\ N + 1 <= M
  /\ H = [b \in 1..M |-> H[b]]
  /\ \A b \in 1..N : H[b] = h[b]
  /\ kind = "leaf" => H[N + 1] = Leaf
  /\ kind = "tree" => H[N + 1] = Block(frame, [i \in Slots |-> N + 1 + i])
  /\ \A b \in N + 2..M : H[b] = Leaf
  /\ kind = "leaf" => M = N + 1
  /\ kind = "tree" => /\ \A i \in Slots : N + 1 + i \in N + 2..M
                     /\ \A b \in N + 2..M : b - (N + 1) \in Slots

\* New blocks are put behind those there are.
LEMMA MadeFacts ==
  ASSUME NEW S, NEW h \in Seq(S), NEW kind \in {"leaf", "tree"}, NEW frame \in BOOLEAN, NEW H, NEW N,
         H = Made(h, kind, frame), N = Len(h)
  PROVE  \E M \in Nat : Grown(h, kind, frame, H, N, M)
<1> USE DEF Grown
<1>0. PICK n \in Nat \ {0} : Slots = 1..n
  BY SlotsAre
<1> DEFINE b1 == Block(frame, [i \in Slots |-> N + 1 + i])
           ls == [i \in Slots |-> Leaf]
           T == S \cup {b1, Leaf}
<1>1. N \in Nat /\ h \in Seq(T) /\ <<b1>> \in Seq(T) /\ ls \in Seq(T) /\ Leaf \in T
  <2>1. ls \in [1..n -> T]
    BY <1>0
  <2> HIDE DEF b1, ls
  <2>2. ls \in Seq(T)
    BY <1>0, <2>1
  <2>3. <<b1>> \in Seq(T) /\ h \in Seq(T)
    OBVIOUS
  <2> QED
    BY <2>2, <2>3
<1>2. Len(ls) = n /\ \A i \in 1..n : ls[i] = Leaf
  BY <1>0
<1>h. \A b \in 1..N : h[b] = h[b]
  OBVIOUS
<1>3. CASE kind = "leaf"
  <2> DEFINE lf == Leaf
             U == S \cup {Block(frame, << >>), lf}
  <2>0. H = Append(h, lf) /\ h \in Seq(U) /\ lf \in U
    BY <1>3 DEF Made
  <2> HIDE DEF lf, U
  <2>1. /\ Append(h, lf) \in Seq(U) /\ Len(Append(h, lf)) = N + 1
        /\ DOMAIN Append(h, lf) = 1..N + 1 /\ Append(h, lf)[N + 1] = lf
        /\ \A b \in 1..N : Append(h, lf)[b] = h[b]
    BY <1>1, <2>0
  <2>3. Append(h, lf) = [b \in 1..N + 1 |-> Append(h, lf)[b]]
    BY <2>1, SeqIs
  <2>2. N + 1 \in Nat /\ N + 1 <= N + 1 /\ \A b \in N + 2..N + 1 : FALSE
    BY <1>1
  <2> USE DEF lf
  <2> QED
    BY <1>1, <1>3, <2>0, <2>1, <2>2, <2>3
<1>4. CASE kind = "tree"
  <2> HIDE DEF b1, ls
  <2> DEFINE H1 == h \o <<b1>>
             J == H1 \o ls
  <2>1. /\ H1 \in Seq(T) /\ Len(H1) = N + 1 /\ \A b \in 1..N : H1[b] = h[b]
        /\ H1[N + 1] = b1
    BY <1>1
  <2> HIDE DEF H1
  <2> DEFINE K == N + 1
  <2>k. K \in Nat /\ n \in Nat /\ Len(H1) = K /\ Len(ls) = n /\ H1 \in Seq(T) /\ ls \in Seq(T)
    BY <1>0, <1>1, <1>2, <2>1
  <2>2. /\ J \in Seq(T) /\ Len(J) = N + 1 + n /\ DOMAIN J = 1..N + 1 + n
        /\ \A b \in 1..N + 1 : J[b] = H1[b]
        /\ \A b \in 1..n : J[N + 1 + b] = ls[b]
    <3> HIDE DEF K, T
    <3>1. J \in Seq(T) /\ Len(J) = K + n
      BY <2>k, SMTT(30)
    <3>2. DOMAIN J = 1..K + n
      BY <3>1
    <3>3. \A b \in 1..K : J[b] = H1[b]
      BY <2>k
    <3>4. \A b \in 1..n : J[K + b] = ls[b]
      BY <2>k
    <3> QED
      BY <3>1, <3>2, <3>3, <3>4 DEF K
  <2>s. J = [b \in 1..N + 1 + n |-> J[b]]
    BY <2>2, SeqIs
  <2>3. H = J
    BY <1>4 DEF Made, H1, b1, ls
  <2> HIDE DEF J
  <2>4. \A b \in 1..N : J[b] = h[b]
    <3>1. \A b \in 1..N : b \in 1..N + 1
      BY <1>1
    <3> QED
      BY <2>1, <2>2, <3>1
  <2>5. J[N + 1] = b1
    <3>1. N + 1 \in 1..N + 1
      BY <1>1
    <3> QED
      BY <2>1, <2>2, <3>1
  <2>6. \A b \in N + 2..N + 1 + n : J[b] = Leaf
    <3> SUFFICES ASSUME NEW b \in N + 2..N + 1 + n PROVE J[b] = Leaf
      OBVIOUS
    <3>1. b - (N + 1) \in 1..n /\ b = N + 1 + (b - (N + 1))
      BY <1>0, <1>1
    <3> QED
      BY <1>2, <2>2, <3>1, ZenonT(30)
  <2>7. N + 1 + n \in Nat /\ N + 1 <= N + 1 + n
    BY <1>0, <1>1
  <2>8. /\ \A i \in Slots : N + 1 + i \in N + 2..N + 1 + n
        /\ \A b \in N + 2..N + 1 + n : b - (N + 1) \in Slots
    BY <1>0, <1>1
  <2> QED
    BY <1>1, <1>4, <2>2, <2>s, <2>3, <2>4, <2>5, <2>6, <2>7, <2>8, ZenonT(30) DEF b1
<1> QED
  BY <1>3, <1>4

\* What the parts of a point are.
LEMMA PointIs ==
  ASSUME NEW own, NEW twin, NEW hole, NEW fill, NEW turns
  PROVE  LET A == Point(own, twin, hole, fill, turns)
         IN  /\ Own(A) = own /\ Twin(A) = twin /\ HoleOf(A) = hole /\ Fill(A) = fill /\ Turns(A) = turns
BY DEF Point, Own, Twin, HoleOf, Fill, Turns

\* Adding a name to a function adds it to the domain, ...
LEMMA WithIn == ASSUME NEW f, NEW x, NEW k PROVE DOMAIN With(f, x, k) = DOMAIN f \cup {x}
BY DEF With
\* ... gives it its value ...
LEMMA WithAt == ASSUME NEW f, NEW x, NEW k PROVE With(f, x, k)[x] = k
BY DEF With
\* ... and leaves the others as they are.
LEMMA WithElse == ASSUME NEW f, NEW x, NEW k, NEW y \in DOMAIN f, y # x PROVE With(f, x, k)[y] = f[y]
BY DEF With

\* A hole is in a block that there is.
LEMMA HoleIn ==
  ASSUME NEW A, NEW m, NEW h, NEW tn, NEW ix, Sound(A, m, h, tn, ix)
  PROVE  /\ HoleOf(A) = << >> => HolePlace(A, m, ix) = {}
         /\ HoleOf(A) # << >> =>
              /\ HoleOf(A)[1] \in DOMAIN Own(A) /\ HasRows(A, HoleOf(A)[1]) /\ HoleOf(A)[2] \in Keys
              /\ HoleOf(A) = <<HoleOf(A)[1], HoleOf(A)[2]>>
              /\ m[HoleOf(A)[1]] \in Alive(h) /\ DOMAIN h[m[HoleOf(A)[1]]].rows = Slots
              /\ ix[HoleOf(A)[2]] \in Slots
              /\ HolePlace(A, m, ix) = {<<m[HoleOf(A)[1]], ix[HoleOf(A)[2]]>>}
              /\ HolePlace(A, m, ix) \subseteq RowPlaces(h)
<1>1. ASSUME HoleOf(A) # << >>
      PROVE  /\ HoleOf(A)[1] \in DOMAIN Own(A) /\ HasRows(A, HoleOf(A)[1]) /\ HoleOf(A)[2] \in Keys
             /\ HoleOf(A) = <<HoleOf(A)[1], HoleOf(A)[2]>>
             /\ m[HoleOf(A)[1]] # 0
  <2>1. Leads2(A, m, HoleOf(A)) /\ Len(HoleOf(A)) = 2
    BY <1>1 DEF Sound, HoleAgrees
  <2>2. PICK y \in DOMAIN Own(A), k \in Keys : HoleOf(A) = <<y, k>> /\ HasRows(A, y)
    BY <2>1 DEF Leads2, Located
  <2> QED
    BY <2>1, <2>2 DEF Leads2
<1>2. ASSUME HoleOf(A) # << >>
      PROVE  /\ m[HoleOf(A)[1]] \in Alive(h) /\ DOMAIN h[m[HoleOf(A)[1]]].rows = Slots
             /\ ix[HoleOf(A)[2]] \in Slots
  <2>1. m[HoleOf(A)[1]] \in Alive(h)
    BY <1>1, <1>2, HeldFacts
  <2>2. Fits(h[m[HoleOf(A)[1]]], Own(A)[HoleOf(A)[1]])
    BY <1>1, <1>2 DEF Sound, OwnersFit
  <2>3. DOMAIN h[m[HoleOf(A)[1]]].rows = Slots
    BY <1>1, <1>2, <2>2 DEF Fits, HasRows
  <2>4. ix[HoleOf(A)[2]] \in Slots
    BY <1>1, <1>2 DEF Sound, Typed
  <2> QED
    BY <2>1, <2>3, <2>4
<1>3. HoleOf(A) # << >> => HolePlace(A, m, ix) = {<<m[HoleOf(A)[1]], ix[HoleOf(A)[2]]>>}
  BY DEF HolePlace
<1>4. HoleOf(A) # << >> => HolePlace(A, m, ix) \subseteq RowPlaces(h)
  BY <1>2, <1>3 DEF RowPlaces
<1>5. HoleOf(A) = << >> => HolePlace(A, m, ix) = {}
  BY DEF HolePlace
<1> QED
  BY <1>1, <1>2, <1>3, <1>4, <1>5

\* A new block for a name that owns nothing yet.
LEMMA MadeSound ==
  ASSUME NEW A, NEW m, NEW h, NEW tn, NEW ix, Sound(A, m, h, tn, ix), NEW x, IsFree(A, x),
         NEW kind \in {"leaf", "tree"}, NEW frame \in BOOLEAN, frame => kind = "tree"
  PROVE  Sound(Owns(A, x, IF frame THEN "frame" ELSE kind), [m EXCEPT ![x] = Len(h) + 1],
               Made(h, kind, frame), tn, ix)
<1> DEFINE N == Len(h)
           H == Made(h, kind, frame)
           m2 == [m EXCEPT ![x] = N + 1]
           sort == IF frame THEN "frame" ELSE kind
           B == Owns(A, x, sort)
           new == {<<0, x>>} \cup {<<N + 1, i>> : i \in DOMAIN H[N + 1].rows}
<1>1. /\ Typed(m, h, tn, ix) /\ Sorted(A) /\ Each(HeldAt(A, m, h, ix), Alive(h))
      /\ OwnersFit(A, m, h) /\ RowsFit(A, m, h, ix)
      /\ TwinsAgree(A, m, h, ix) /\ HoleAgrees(A, m, h, ix) /\ TurnsIn(A, tn)
  BY DEF Sound
<1>2. /\ N \in Nat /\ DOMAIN h = 1..N /\ Alive(h) \subseteq 1..N
      /\ h \in Seq(BlocksIn(N)) /\ m \in [Names -> 0..N]
      /\ x \in Names /\ x \notin DOMAIN Own(A) /\ x \notin DOMAIN Twin(A)
      /\ \A b \in 1..N : h[b] \in BlocksIn(N)
  BY <1>1, HeldFacts DEF Typed, IsFree
<1>3. /\ Own(B) = With(Own(A), x, sort) /\ Twin(B) = Twin(A) /\ HoleOf(B) = HoleOf(A)
      /\ Fill(B) = Fill(A) /\ Turns(B) = Turns(A)
  BY PointIs DEF Owns
<1> HIDE DEF B, sort
<1>4. /\ DOMAIN Own(B) = DOMAIN Own(A) \cup {x} /\ Own(B)[x] = sort
      /\ \A y \in DOMAIN Own(A) : Own(B)[y] = Own(A)[y] /\ y # x
  <2>0. With(Own(A), x, sort)[x] = sort
    BY WithAt
  <2>1. DOMAIN Own(B) = DOMAIN Own(A) \cup {x}
    BY <1>3, WithIn, ZenonT(30)
  <2>3. Own(B)[x] = sort
    BY <1>3, <2>0
  <2>2. ASSUME NEW y \in DOMAIN Own(A) PROVE Own(B)[y] = Own(A)[y] /\ y # x
    <3>1. y # x
      BY <1>2
    <3> QED
      BY <1>3, <3>1, WithElse
  <2> QED
    BY <2>1, <2>2, <2>3
<1>5a. PICK M \in Nat : Grown(h, kind, frame, H, N, M)
  BY <1>2, MadeFacts
<1>5. /\ Len(H) = M /\ DOMAIN H = 1..M /\ N + 1 <= M
      /\ H = [b \in 1..M |-> H[b]]
      /\ \A b \in 1..N : H[b] = h[b]
      /\ kind = "leaf" => H[N + 1] = Leaf
      /\ kind = "tree" => H[N + 1] = Block(frame, [i \in Slots |-> N + 1 + i])
      /\ \A b \in N + 2..M : H[b] = Leaf
      /\ kind = "leaf" => M = N + 1
      /\ kind = "tree" => /\ \A i \in Slots : N + 1 + i \in N + 2..M
                         /\ \A b \in N + 2..M : b - (N + 1) \in Slots
  <2> HIDE DEF H, N
  <2> QED
    BY <1>5a DEF Grown
<1> HIDE DEF H
<1>6. \A y \in Names : y # x => m2[y] = m[y]
  BY <1>2
<1>7. m2[x] = N + 1
  BY <1>2
<1> HIDE DEF m2, N
<1>8. Typed(m2, H, tn, ix)
  <2>1. BlocksIn(N) \subseteq BlocksIn(M)
    <3>1. 0..N \subseteq 0..M
      BY <1>2, <1>5
    <3>2. [Slots -> 0..N] \subseteq [Slots -> 0..M]
      BY <3>1
    <3> QED
      BY <3>2 DEF BlocksIn
  <2>2. Leaf \in BlocksIn(M)
    BY DEF Leaf, Block, BlocksIn
  <2>3. kind = "tree" => Block(frame, [i \in Slots |-> N + 1 + i]) \in BlocksIn(M)
    <3> SUFFICES ASSUME kind = "tree" PROVE Block(frame, [i \in Slots |-> N + 1 + i]) \in BlocksIn(M)
      OBVIOUS
    <3>1. \A i \in Slots : N + 1 + i \in 0..M
      BY <1>2, <1>5
    <3>2. [i \in Slots |-> N + 1 + i] \in [Slots -> 0..M]
      BY <3>1
    <3> QED
      BY <3>2 DEF Block, BlocksIn
  <2>4. ASSUME NEW b \in 1..M PROVE H[b] \in BlocksIn(M)
    <3>1. b \in 1..N \/ b = N + 1 \/ b \in N + 2..M
      BY <1>2, <1>5
    <3>2. CASE b \in 1..N
      BY <1>2, <1>5, <2>1, <3>2
    <3>3. CASE b = N + 1
      BY <1>5, <2>2, <2>3, <3>3
    <3>4. CASE b \in N + 2..M
      BY <1>5, <2>2, <3>4
    <3> QED
      BY <3>1, <3>2, <3>3, <3>4
  <2>5. H \in Seq(BlocksIn(M))
    <3>1. H = [b \in 1..M |-> H[b]]
      BY <1>5
    <3>2. H \in [1..M -> BlocksIn(M)]
      BY <2>4, <3>1
    <3> QED
      BY <1>5, <3>2
  <2>6. m2 \in [Names -> 0..M]
    <3>1. N + 1 \in 0..M /\ 0..N \subseteq 0..M
      BY <1>2, <1>5
    <3>2. m2 = [y \in Names |-> m2[y]]
      BY <1>2 DEF m2
    <3>3. \A y \in Names : m2[y] \in 0..M
      BY <1>2, <1>6, <1>7, <3>1
    <3> QED
      BY <3>2, <3>3
  <2> QED
    BY <1>1, <1>5, <2>5, <2>6 DEF Typed
<1>9. Sorted(B)
  BY <1>1, <1>2, <1>4 DEF Sorted, Sorts, sort
<1>10. Alive(H) = Alive(h) \cup (N + 1..M)
  <2>1. \A b \in N + 1..M : b = N + 1 \/ b \in N + 2..M
    BY <1>2, <1>5
  <2>2. \A b \in N + 1..M : H[b].alive
    <3>1. H[N + 1].alive
      BY <1>5 DEF Leaf, Block
    <3>2. \A b \in N + 2..M : H[b].alive
      <4>1. Leaf.alive
        BY DEF Leaf, Block
      <4> QED
        BY <1>5, <4>1
    <3> QED
      BY <2>1, <3>1, <3>2
  <2>3. \A b \in 1..M : b \in 1..N \/ b \in N + 1..M
    BY <1>2, <1>5
  <2>4. 1..N \subseteq 1..M /\ N + 1..M \subseteq 1..M
    BY <1>2, <1>5
  <2> QED
    BY <1>2, <1>5, <2>2, <2>3, <2>4 DEF Alive
<1>11. RowPlaces(H) = RowPlaces(h) \cup {<<N + 1, i>> : i \in DOMAIN H[N + 1].rows}
  <2>1. \A b \in N + 1..M : b = N + 1 \/ b \in N + 2..M
    BY <1>2, <1>5
  <2>2. \A b \in N + 2..M : DOMAIN H[b].rows = {}
    <3>1. DOMAIN Leaf.rows = {}
      BY DEF Leaf, Block
    <3> QED
      BY <1>5, <3>1
  <2>3. \A b \in Alive(h) : H[b] = h[b]
    BY <1>2, <1>5
  <2>4. N + 1 \in N + 1..M
    BY <1>2, <1>5
  <2> QED
    BY <1>10, <2>1, <2>2, <2>3, <2>4 DEF RowPlaces
<1>12. HolePlace(B, m2, ix) = HolePlace(A, m, ix) /\ HolePlace(A, m, ix) \subseteq RowPlaces(h)
  <2>1. HoleOf(A) # << >> => HoleOf(A)[1] \in Names /\ HoleOf(A)[1] # x
    BY <1>1, <1>2, HoleIn DEF Sorted
  <2>2. HolePlace(B, m2, ix) = HolePlace(A, m, ix)
    BY <1>3, <1>6, <2>1 DEF HolePlace
  <2> QED
    BY <2>2, HoleIn
<1>13. \A p \in RowPlaces(h) : p[1] \in 1..N /\ p[1] # 0 /\ p[1] # N + 1
  <2>1. \A b \in 1..N : b # 0 /\ b # N + 1
    BY <1>2
  <2> QED
    BY <1>2, <2>1 DEF RowPlaces
<1>14. Places(B, m2, H, ix) = Places(A, m, h, ix) \cup new
  <2>1. \A i : <<N + 1, i>> \notin HolePlace(A, m, ix)
    BY <1>12, <1>13
  <2> QED
    BY <1>4, <1>11, <1>12, <2>1 DEF Places
<1>15. Places(A, m, h, ix) \cap new = {}
  <2>1. ASSUME NEW p \in Places(A, m, h, ix) PROVE p \notin new
    <3>1. CASE \E y \in DOMAIN Own(A) : p = <<0, y>>
      <4>1. N + 1 # 0
        BY <1>2
      <4> QED
        BY <1>2, <3>1, <4>1
    <3>2. CASE p \in RowPlaces(h)
      BY <1>13, <3>2
    <3> QED
      BY <3>1, <3>2 DEF Places
  <2> QED
    BY <2>1
<1>16. \A p \in Places(A, m, h, ix) : At(m2, H, p) = At(m, h, p)
  <2> SUFFICES ASSUME NEW p \in Places(A, m, h, ix) PROVE At(m2, H, p) = At(m, h, p)
    OBVIOUS
  <2>1. CASE \E y \in DOMAIN Own(A) : p = <<0, y>>
    <3>1. PICK y \in DOMAIN Own(A) : p = <<0, y>>
      BY <2>1
    <3>2. y \in Names /\ y # x
      BY <1>1, <1>4 DEF Sorted
    <3> QED
      BY <1>6, <3>1, <3>2 DEF At
  <2>2. CASE p \in RowPlaces(h)
    BY <1>5, <1>13, <2>2 DEF At
  <2> QED
    BY <2>1, <2>2 DEF Places
<1>17. Each(HeldAt(B, m2, H, ix), Alive(H))
  <2> DEFINE g == [p \in new |-> At(m2, H, p)]
             G == N + 1..M
  <2>1. N + 1 # 0 /\ \A p \in new : p = <<0, x>> \/ (p[1] = N + 1 /\ p[1] # 0)
    BY <1>2
  <2>2. At(m2, H, <<0, x>>) = N + 1
    BY <1>7 DEF At
  <2>3. Each(g, G)
    <3>1. CASE kind = "leaf"
      <4>1. DOMAIN H[N + 1].rows = {} /\ M = N + 1
        BY <1>5, <3>1 DEF Leaf, Block
      <4>2. new = {<<0, x>>} /\ G = {N + 1}
        BY <1>2, <4>1
      <4>3. DOMAIN g = {<<0, x>>} /\ g[<<0, x>>] = N + 1
        BY <2>2, <4>2
      <4> HIDE DEF g, G
      <4> QED
        BY <4>2, <4>3 DEF Each
    <3>2. CASE kind = "tree"
      <4>0. kind # "leaf"
        BY <3>2
      <4>1. H[N + 1].rows = [i \in Slots |-> N + 1 + i]
        BY <1>5, <4>0 DEF Block
      <4>2. \A i \in Slots : At(m2, H, <<N + 1, i>>) = N + 1 + i
        BY <2>1, <4>1 DEF At
      <4>3. /\ DOMAIN g = {<<0, x>>} \cup {<<N + 1, i>> : i \in Slots}
            /\ g[<<0, x>>] = N + 1
            /\ \A i \in Slots : g[<<N + 1, i>>] = N + 1 + i
        BY <2>2, <4>1, <4>2
      <4>4. /\ \A i \in Slots : N + 1 + i \in G /\ N + 1 + i # N + 1 /\ N + 1 + i # 0
            /\ \A i, j \in Slots : N + 1 + i = N + 1 + j => i = j
            /\ \A b \in G : b = N + 1 \/ \E i \in Slots : b = N + 1 + i
            /\ N + 1 \in G
        <5>1. PICK n \in Nat \ {0} : Slots = 1..n
          BY SlotsAre
        <5>2. \A i \in Slots : N + 1 + i \in N + 2..M
          BY <1>5, <4>0
        <5>3. \A b \in N + 2..M : b - (N + 1) \in Slots
          BY <1>5, <4>0
        <5>4. ASSUME NEW b \in G PROVE b = N + 1 \/ \E i \in Slots : b = N + 1 + i
          <6>1. CASE b \in N + 2..M
            <7>1. b - (N + 1) \in Slots /\ b = N + 1 + (b - (N + 1))
              BY <1>2, <5>3, <6>1
            <7> QED
              BY <7>1
          <6> QED
            BY <1>2, <1>5, <6>1
        <5>5. ASSUME NEW i \in Slots PROVE N + 1 + i \in G /\ N + 1 + i # N + 1 /\ N + 1 + i # 0
          <6>1. i \in Nat \ {0} /\ N + 1 + i \in N + 2..M
            BY <5>1, <5>2
          <6> QED
            BY <1>2, <1>5, <6>1, SMTT(30)
        <5>6. \A i, j \in Slots : N + 1 + i = N + 1 + j => i = j
          BY <1>2, <5>1
        <5>7. N + 1 \in G
          BY <1>2, <1>5
        <5> QED
          BY <5>4, <5>5, <5>6, <5>7
      <4> HIDE DEF g, G
      <4>5. \A p \in DOMAIN g : p = <<0, x>> \/ \E i \in Slots : p = <<N + 1, i>>
        BY <4>3
      <4>6. \A p \in DOMAIN g : g[p] = 0 \/ g[p] \in G
        BY <4>3, <4>4, <4>5
      <4>7. ASSUME NEW p \in DOMAIN g, NEW q \in DOMAIN g, g[p] = g[q] PROVE p = q \/ g[p] = 0
        BY <4>3, <4>4, <4>5, <4>7
      <4>8. ASSUME NEW b \in G PROVE \E p \in DOMAIN g : g[p] = b
        <5>1. CASE b = N + 1
          BY <4>3, <5>1
        <5>2. CASE b # N + 1
          <6>1. PICK i \in Slots : b = N + 1 + i
            BY <4>4, <5>2
          <6>2. <<N + 1, i>> \in DOMAIN g /\ g[<<N + 1, i>>] = N + 1 + i
            BY <4>3
          <6> QED
            BY <6>1, <6>2
        <5> QED
          BY <5>1, <5>2
      <4> QED
        BY <4>6, <4>7, <4>8 DEF Each
    <3> QED
      BY <3>1, <3>2
  <2>4. /\ DOMAIN g = new /\ \A p \in new : g[p] = At(m2, H, p)
    OBVIOUS
  <2>5. 0 \notin G /\ 0 \notin Alive(h) /\ Alive(h) \cap G = {}
    BY <1>2
  <2> HIDE DEF g, G, new
  <2>6. /\ DOMAIN HeldAt(A, m, h, ix) = Places(A, m, h, ix)
        /\ \A p \in Places(A, m, h, ix) : HeldAt(A, m, h, ix)[p] = At(m, h, p)
        /\ DOMAIN HeldAt(B, m2, H, ix) = Places(A, m, h, ix) \cup new
        /\ \A p \in Places(A, m, h, ix) \cup new : HeldAt(B, m2, H, ix)[p] = At(m2, H, p)
    BY <1>14 DEF HeldAt
  <2>7. Each(HeldAt(B, m2, H, ix), Alive(h) \cup G)
    BY <1>1, <1>15, <1>16, <2>3, <2>4, <2>5, <2>6, EachJoined, SMTT(30)
  <2> QED
    BY <1>10, <2>7 DEF G
<1>18. OwnersFit(B, m2, H)
  <2> SUFFICES ASSUME NEW y \in DOMAIN Own(B), m2[y] # 0 PROVE Fits(H[m2[y]], Own(B)[y])
    BY DEF OwnersFit
  <2>1. CASE y = x
    BY <1>4, <1>5, <1>7, <2>1 DEF Fits, Block, Leaf, sort
  <2>2. CASE y # x
    <3>1. y \in DOMAIN Own(A) /\ y \in Names /\ m2[y] = m[y] /\ Own(B)[y] = Own(A)[y]
      BY <1>1, <1>4, <1>6, <2>2 DEF Sorted
    <3>2. m[y] \in 1..N
      BY <1>2, <3>1
    <3> QED
      BY <1>1, <1>5, <3>1, <3>2 DEF OwnersFit
  <2> QED
    BY <2>1, <2>2
<1>19. RowsFit(B, m2, H, ix)
  <2> SUFFICES ASSUME NEW p \in RowPlaces(H) \ HolePlace(B, m2, ix), At(m2, H, p) # 0
               PROVE  Fits(H[At(m2, H, p)], "leaf")
    BY DEF RowsFit
  <2>1. CASE p \in RowPlaces(h)
    <3>1. p \in Places(A, m, h, ix) /\ p \in RowPlaces(h) \ HolePlace(A, m, ix)
      BY <1>12, <2>1 DEF Places
    <3>2. At(m2, H, p) = At(m, h, p)
      BY <1>16, <3>1
    <3>3. At(m, h, p) \in Alive(h)
      <4>1. p \in DOMAIN HeldAt(A, m, h, ix) /\ HeldAt(A, m, h, ix)[p] = At(m, h, p)
        BY <3>1 DEF HeldAt
      <4> QED
        BY <1>1, <3>2, <4>1 DEF Each
    <3> QED
      BY <1>1, <1>2, <1>5, <3>1, <3>2, <3>3 DEF RowsFit
  <2>2. CASE p \notin RowPlaces(h)
    <3>1. PICK i \in DOMAIN H[N + 1].rows : p = <<N + 1, i>>
      BY <1>11, <2>2
    <3>2. kind # "leaf"
      BY <1>5, <3>1 DEF Leaf, Block
    <3>3. i \in Slots /\ At(m2, H, p) = N + 1 + i
      BY <1>2, <1>5, <3>1, <3>2 DEF Block, At
    <3>4. N + 1 + i \in N + 2..M
      BY <1>5, <3>2, <3>3
    <3>5. H[N + 1 + i] = Leaf
      BY <1>5, <3>4
    <3> QED
      BY <3>3, <3>5 DEF Fits, Leaf, Block
  <2> QED
    BY <2>1, <2>2
<1>20. ASSUME NEW l, Leads2(A, m, l)
       PROVE  Leads2(B, m2, l) /\ ValueAt(m2, H, ix, l) = ValueAt(m, h, ix, l) /\ l[1] \in DOMAIN Own(A)
  <2>1. CASE \E y \in DOMAIN Own(A) : l = <<y>>
    <3>1. PICK y \in DOMAIN Own(A) : l = <<y>>
      BY <2>1
    <3>2. y \in Names /\ y # x /\ y \in DOMAIN Own(B)
      BY <1>1, <1>4 DEF Sorted
    <3>3. m2[y] = m[y]
      BY <1>6, <3>2
    <3> QED
      BY <3>1, <3>2, <3>3 DEF Leads2, Located, ValueAt
  <2>2. CASE \E y \in DOMAIN Own(A), k \in Keys : l = <<y, k>> /\ HasRows(A, y)
    <3>1. PICK y \in DOMAIN Own(A), k \in Keys : l = <<y, k>> /\ HasRows(A, y)
      BY <2>2
    <3>2. y \in Names /\ y # x /\ y \in DOMAIN Own(B) /\ HasRows(B, y)
      BY <1>1, <1>4, <3>1 DEF Sorted, HasRows
    <3>3. m2[y] = m[y]
      BY <1>6, <3>2
    <3>4. m[y] \in 1..N
      BY <1>2, <1>20, <3>1, <3>2 DEF Leads2
    <3>5. H[m[y]] = h[m[y]]
      BY <1>5, <3>4
    <3> QED
      BY <1>20, <3>1, <3>2, <3>3, <3>5 DEF Leads2, Located, ValueAt
  <2> QED
    BY <1>20, <2>1, <2>2 DEF Leads2, Located
<1>21. TwinsAgree(B, m2, H, ix)
  <2>1. \A t \in DOMAIN Twin(A) : OutsideHole(A, Twin(A)[t]) => OutsideHole(B, Twin(A)[t])
    BY <1>3 DEF OutsideHole
  <2> QED
    BY <1>1, <1>2, <1>3, <1>4, <1>6, <1>20, <2>1 DEF TwinsAgree
<1>22. HoleAgrees(B, m2, H, ix)
  <2>1. Fill(A) # << >> /\ HoleOf(A) # << >> => SortAt(B, Fill(A)) = "leaf"
    BY <1>1, <1>4, <1>20 DEF HoleAgrees, SortAt
  <2> QED
    BY <1>1, <1>3, <1>20, <2>1 DEF HoleAgrees
<1>23. TurnsIn(B, tn)
  BY <1>1, <1>3 DEF TurnsIn
<1> QED
  BY <1>8, <1>9, <1>17, <1>18, <1>19, <1>21, <1>22, <1>23 DEF Sound, B, m2, N, H, sort

-----------------------------------------------------------------------------
\* Rows written and blocks released.

RowSet(h, b, i, v) == [h EXCEPT ![b].rows[i] = v]

RowIsSet(h, H, N, b, i, v) ==
  /\ Len(H) = N /\ DOMAIN H = 1..N /\ H \in Seq(BlocksIn(N))
  /\ \A a \in 1..N : /\ H[a].alive = h[a].alive /\ H[a].frame = h[a].frame
                     /\ DOMAIN H[a].rows = DOMAIN h[a].rows
  /\ \A a \in 1..N : a # b => H[a] = h[a]
  /\ H[b].rows[i] = v
  /\ \A j \in Slots : j # i => H[b].rows[j] = h[b].rows[j]

\* Writing a row changes that row alone.
LEMMA RowSetFacts ==
  ASSUME NEW N \in Nat, NEW h \in Seq(BlocksIn(N)), Len(h) = N, NEW b \in 1..N, NEW i \in Slots, NEW v \in 0..N,
         DOMAIN h[b].rows = Slots, NEW H, H = RowSet(h, b, i, v)
  PROVE  RowIsSet(h, H, N, b, i, v)
<1> USE DEF RowIsSet
<1>1. h[b] \in BlocksIn(N) /\ DOMAIN h = 1..N /\ \A a \in 1..N : h[a] \in BlocksIn(N)
  OBVIOUS
<1>2. h[b].rows \in [Slots -> 0..N] /\ h[b].alive \in BOOLEAN /\ h[b].frame \in BOOLEAN
  <2>1. Slots # {}
    BY SlotsAssumption
  <2>2. DOMAIN << >> = {}
    OBVIOUS
  <2> QED
    BY <1>1, <2>1, <2>2 DEF BlocksIn
<1> DEFINE r == [h[b].rows EXCEPT ![i] = v]
           blk == [h[b] EXCEPT !.rows = r]
<1>3. r \in [Slots -> 0..N] /\ r[i] = v /\ \A j \in Slots : j # i => r[j] = h[b].rows[j]
  BY <1>2
<1>4. H = [h EXCEPT ![b] = blk]
  BY DEF RowSet
<1> HIDE DEF r
<1>5. blk \in BlocksIn(N) /\ blk.alive = h[b].alive /\ blk.frame = h[b].frame /\ blk.rows = r
  BY <1>1, <1>3 DEF BlocksIn
<1> HIDE DEF blk
<1>6. H[b] = blk /\ DOMAIN H = 1..N /\ \A a \in 1..N : a # b => H[a] = h[a]
  BY <1>1, <1>4
<1>7. H \in Seq(BlocksIn(N)) /\ Len(H) = N
  <2>1. H = [a \in 1..N |-> H[a]]
    BY <1>1, <1>4
  <2>2. \A a \in 1..N : H[a] \in BlocksIn(N)
    BY <1>1, <1>5, <1>6
  <2>3. H \in [1..N -> BlocksIn(N)]
    BY <2>1, <2>2
  <2> QED
    BY <2>3
<1>8. DOMAIN r = Slots
  BY <1>3
<1>9. ASSUME NEW a \in 1..N
      PROVE  H[a].alive = h[a].alive /\ H[a].frame = h[a].frame /\ DOMAIN H[a].rows = DOMAIN h[a].rows
  BY <1>5, <1>6, <1>8
<1>10. H[b].rows[i] = v /\ \A j \in Slots : j # i => H[b].rows[j] = h[b].rows[j]
  BY <1>3, <1>5, <1>6
<1> QED
  BY <1>6, <1>7, <1>9, <1>10

\* Releasing blocks changes nothing but that they are alive.
LEMMA FreedFacts ==
  ASSUME NEW N \in Nat, NEW h \in Seq(BlocksIn(N)), Len(h) = N, NEW S, NEW H, H = Freed(h, S)
  PROVE  /\ Len(H) = N /\ DOMAIN H = 1..N /\ H \in Seq(BlocksIn(N))
         /\ \A a \in 1..N : H[a].frame = h[a].frame /\ H[a].rows = h[a].rows
         /\ \A a \in 1..N : H[a].alive <=> (h[a].alive /\ a \notin S)
         /\ Alive(H) = Alive(h) \ S
<1>1. DOMAIN h = 1..N /\ \A a \in 1..N : h[a] \in BlocksIn(N)
  OBVIOUS
<1>2. H = [a \in 1..N |-> IF a \in S THEN [h[a] EXCEPT !.alive = FALSE] ELSE h[a]]
  BY <1>1 DEF Freed
<1>3. ASSUME NEW a \in 1..N
      PROVE  /\ H[a] \in BlocksIn(N) /\ H[a].frame = h[a].frame /\ H[a].rows = h[a].rows
             /\ H[a].alive <=> (h[a].alive /\ a \notin S)
  <2>1. CASE a \in S
    <3>1. H[a] = [h[a] EXCEPT !.alive = FALSE]
      BY <1>2, <2>1
    <3>2. h[a] \in BlocksIn(N)
      BY <1>1
    <3> QED
      BY <2>1, <3>1, <3>2 DEF BlocksIn
  <2>2. CASE a \notin S
    BY <1>1, <1>2, <2>2
  <2> QED
    BY <2>1, <2>2
<1>4. H \in [1..N -> BlocksIn(N)]
  BY <1>2, <1>3
<1>5. Len(H) = N /\ DOMAIN H = 1..N /\ H \in Seq(BlocksIn(N))
  BY <1>4
<1>6. Alive(H) = Alive(h) \ S
  BY <1>1, <1>3, <1>5 DEF Alive
<1> QED
  BY <1>3, <1>5, <1>6

\* A block that has passed from a place p to q.
LEMMA EachMoved ==
  ASSUME NEW f, NEW F, Each(f, F), NEW at, NEW p \in DOMAIN f, NEW q, q \notin DOMAIN f \/ q = p, 0 \notin F,
         DOMAIN at \subseteq DOMAIN f \cup {q}, q \in DOMAIN at, at[q] = f[p],
         p \in DOMAIN at => at[p] = 0 \/ q = p,
         \A r \in DOMAIN f : r # p => r \in DOMAIN at /\ at[r] = f[r]
  PROVE  Each(at, F)
<1>1. ASSUME NEW r \in DOMAIN at PROVE at[r] = 0 \/ at[r] \in F
  BY DEF Each
<1>2. ASSUME NEW r \in DOMAIN at, NEW s \in DOMAIN at, at[r] = at[s] PROVE r = s \/ at[r] = 0
  BY <1>2 DEF Each
<1>3. ASSUME NEW b \in F PROVE \E r \in DOMAIN at : at[r] = b
  BY DEF Each
<1> QED
  BY <1>1, <1>2, <1>3 DEF Each

-----------------------------------------------------------------------------
\* Locations and the places they are at.

PlaceOf(m, ix, l) == IF Len(l) = 1 THEN <<0, l[1]>> ELSE <<m[l[1]], ix[l[2]]>>

LocOwned(A, l) == l[1] \in DOMAIN Own(A) /\ l[1] \in Names /\ (l = <<l[1]>> \/ l = <<l[1], l[2]>>)
LocRow(A, m, h, ix, l) ==
  /\ l[2] \in Keys /\ HasRows(A, l[1]) /\ m[l[1]] \in Alive(h) /\ m[l[1]] \in 1..Len(h)
  /\ h[m[l[1]]].rows \in [Slots -> 0..Len(h)] /\ ix[l[2]] \in Slots
LocIs(A, m, h, ix, l) ==
  /\ LocOwned(A, l)
  /\ Len(l) = 2 => LocRow(A, m, h, ix, l)
  /\ At(m, h, PlaceOf(m, ix, l)) = ValueAt(m, h, ix, l)
  /\ ValueAt(m, h, ix, l) \in 0..Len(h)

\* A block with rows has a pointer in each of them.
LEMMA RowsAre ==
  ASSUME NEW n \in Nat, NEW b \in BlocksIn(n), DOMAIN b.rows = Slots
  PROVE  b.rows \in [Slots -> 0..n]
<1>1. Slots # {} /\ DOMAIN << >> = {}
  BY SlotsAssumption
<1> QED
  BY <1>1 DEF BlocksIn

\* An owner of an array that is not null points to a block that is alive and has rows.
LEMMA OwnerRows ==
  ASSUME NEW A, NEW m, NEW h, NEW tn, NEW ix, Sound(A, m, h, tn, ix),
         NEW y \in DOMAIN Own(A), HasRows(A, y), m[y] # 0
  PROVE  m[y] \in Alive(h) /\ m[y] \in 1..Len(h) /\ h[m[y]].rows \in [Slots -> 0..Len(h)]
<1>1. m[y] \in Alive(h) /\ Alive(h) \subseteq 1..Len(h) /\ Len(h) \in Nat /\ h[m[y]] \in BlocksIn(Len(h))
  BY HeldFacts
<1>2. Fits(h[m[y]], Own(A)[y])
  BY DEF Sound, OwnersFit
<1>3. DOMAIN h[m[y]].rows = Slots
  BY <1>2 DEF Fits, HasRows
<1> QED
  BY <1>1, <1>3, RowsAre

\* A location that can be followed is an owner's or a row of one.
LEMMA LocFacts ==
  ASSUME NEW A, NEW m, NEW h, NEW tn, NEW ix, Sound(A, m, h, tn, ix), NEW l, Leads2(A, m, l)
  PROVE  LocIs(A, m, h, ix, l)
<1>1. /\ Len(h) \in Nat /\ Alive(h) \subseteq 1..Len(h) /\ \A x \in Names : m[x] \in 0..Len(h)
  BY HeldFacts
<1>2. DOMAIN Own(A) \subseteq Names /\ ix \in [Keys -> Slots] /\ 0 \notin Alive(h)
  BY HeldFacts DEF Sound, Sorted, Typed
<1>3. CASE \E y \in DOMAIN Own(A) : l = <<y>>
  <2>1. PICK y \in DOMAIN Own(A) : l = <<y>>
    BY <1>3
  <2>2. y \in Names /\ m[y] \in 0..Len(h) /\ Len(l) = 1 /\ l[1] = y
    BY <1>1, <1>2, <2>1
  <2>3. LocOwned(A, l)
    BY <2>1, <2>2 DEF LocOwned
  <2>4. At(m, h, PlaceOf(m, ix, l)) = ValueAt(m, h, ix, l) /\ ValueAt(m, h, ix, l) \in 0..Len(h)
    BY <2>2 DEF At, PlaceOf, ValueAt
  <2> QED
    BY <2>2, <2>3, <2>4 DEF LocIs
<1>4. CASE \E y \in DOMAIN Own(A), k \in Keys : l = <<y, k>> /\ HasRows(A, y)
  <2>1. PICK y \in DOMAIN Own(A), k \in Keys : l = <<y, k>> /\ HasRows(A, y)
    BY <1>4
  <2>2. y \in Names /\ Len(l) = 2 /\ l[1] = y /\ l[2] = k /\ ix[k] \in Slots
    BY <1>1, <1>2, <2>1
  <2>3. m[y] # 0
    BY <2>2 DEF Leads2
  <2>4. m[y] \in Alive(h) /\ m[y] \in 1..Len(h) /\ h[m[y]].rows \in [Slots -> 0..Len(h)]
    BY <2>1, <2>3, OwnerRows
  <2>5. LocOwned(A, l) /\ LocRow(A, m, h, ix, l)
    BY <2>1, <2>2, <2>4 DEF LocOwned, LocRow
  <2>6. ValueAt(m, h, ix, l) = h[m[y]].rows[ix[k]]
    BY <2>2 DEF ValueAt
  <2>7. At(m, h, PlaceOf(m, ix, l)) = h[m[y]].rows[ix[k]]
    BY <2>2, <2>3 DEF At, PlaceOf
  <2>8. h[m[y]].rows[ix[k]] \in 0..Len(h)
    BY <2>2, <2>4
  <2> QED
    BY <2>5, <2>6, <2>7, <2>8 DEF LocIs
<1> QED
  BY <1>3, <1>4 DEF Leads2, Located

\* A location is at a place that owns, unless that place is the hole.
LEMMA PlaceIn ==
  ASSUME NEW A, NEW m, NEW h, NEW tn, NEW ix, Sound(A, m, h, tn, ix), NEW l, Leads2(A, m, l),
         PlaceOf(m, ix, l) \notin HolePlace(A, m, ix)
  PROVE  PlaceOf(m, ix, l) \in Places(A, m, h, ix)
<1>1. LocIs(A, m, h, ix, l)
  BY LocFacts
<1>2. CASE l = <<l[1]>>
  BY <1>1, <1>2 DEF LocIs, LocOwned, Places, PlaceOf
<1>3. CASE l = <<l[1], l[2]>>
  <2>1. Len(l) = 2
    BY <1>3
  <2>2. PlaceOf(m, ix, l) = <<m[l[1]], ix[l[2]]>> /\ LocRow(A, m, h, ix, l)
    BY <1>1, <2>1 DEF LocIs, PlaceOf
  <2>3. DOMAIN h[m[l[1]]].rows = Slots
    BY <2>2 DEF LocRow
  <2>4. <<m[l[1]], ix[l[2]]>> \in RowPlaces(h)
    BY <2>2, <2>3 DEF LocRow, RowPlaces
  <2> QED
    BY <2>2, <2>4 DEF Places
<1> QED
  BY <1>1, <1>2, <1>3 DEF LocIs, LocOwned

\* A location outside the hole is not at the hole's place.
LEMMA PlaceOutside ==
  ASSUME NEW A, NEW m, NEW h, NEW tn, NEW ix, Sound(A, m, h, tn, ix), NEW l, Leads2(A, m, l), OutsideHole(A, l)
  PROVE  PlaceOf(m, ix, l) \notin HolePlace(A, m, ix)
<1>1. LocIs(A, m, h, ix, l)
  BY LocFacts
<1> SUFFICES ASSUME HoleOf(A) # << >> PROVE PlaceOf(m, ix, l) # <<m[HoleOf(A)[1]], ix[HoleOf(A)[2]]>>
  BY DEF HolePlace
<1>2. HoleOf(A)[1] \in DOMAIN Own(A) /\ m[HoleOf(A)[1]] \in Alive(h) /\ 0 \notin Alive(h) /\ HoleOf(A)[1] # l[1]
  BY HoleIn, HeldFacts DEF OutsideHole
<1>3. CASE l = <<l[1]>>
  <2>1. PlaceOf(m, ix, l) = <<0, l[1]>>
    BY <1>3 DEF PlaceOf
  <2>2. m[HoleOf(A)[1]] # 0
    BY <1>2
  <2> QED
    BY <2>1, <2>2
<1>4. CASE l = <<l[1], l[2]>>
  <2>1. Len(l) = 2
    BY <1>4
  <2>2. PlaceOf(m, ix, l) = <<m[l[1]], ix[l[2]]>> /\ LocRow(A, m, h, ix, l)
    BY <1>1, <2>1 DEF LocIs, PlaceOf
  <2>3. m[l[1]] # 0 /\ l[1] \in DOMAIN Own(A)
    BY <1>1, <1>2, <2>2 DEF LocRow, LocIs, LocOwned
  <2>4. m[l[1]] # m[HoleOf(A)[1]]
    BY <1>2, <2>3, HeldFacts
  <2> QED
    BY <2>2, <2>4
<1> QED
  BY <1>1, <1>3, <1>4 DEF LocIs, LocOwned

\* Rows of different owners are at different places.
LEMMA PlacesDiffer ==
  ASSUME NEW A, NEW m, NEW h, NEW tn, NEW ix, Sound(A, m, h, tn, ix),
         NEW l, Leads2(A, m, l), NEW k, Leads2(A, m, k), PlaceOf(m, ix, l) = PlaceOf(m, ix, k)
  PROVE  l[1] = k[1] /\ Len(l) = Len(k)
<1>1. LocIs(A, m, h, ix, l) /\ LocIs(A, m, h, ix, k) /\ 0 \notin Alive(h)
  BY LocFacts, HeldFacts
<1>2. \A a, b \in DOMAIN Own(A) : m[a] = m[b] => a = b \/ m[a] = 0
  BY HeldFacts
<1>3. ASSUME NEW e, LocIs(A, m, h, ix, e)
      PROVE  \/ Len(e) = 1 /\ PlaceOf(m, ix, e) = <<0, e[1]>> /\ e[1] \in DOMAIN Own(A)
             \/ Len(e) = 2 /\ PlaceOf(m, ix, e) = <<m[e[1]], ix[e[2]]>> /\ m[e[1]] # 0 /\ e[1] \in DOMAIN Own(A)
  <2>1. CASE e = <<e[1]>>
    BY <1>3, <2>1 DEF LocIs, LocOwned, PlaceOf
  <2>2. CASE e = <<e[1], e[2]>>
    <3>1. Len(e) = 2
      BY <2>2
    <3>2. m[e[1]] # 0
      BY <1>1, <1>3, <3>1 DEF LocIs, LocRow
    <3> QED
      BY <1>3, <3>1, <3>2 DEF LocIs, LocOwned, PlaceOf
  <2> QED
    BY <1>3, <2>1, <2>2 DEF LocIs, LocOwned
<1> QED
  BY <1>1, <1>2, <1>3

-----------------------------------------------------------------------------
\* Names that own nothing.

Stored(A, m, h, ix, t, v, m2) ==
  /\ m2 \in [Names -> 0..Len(h)] /\ m2[t] = v
  /\ \A x \in Names : x # t => m2[x] = m[x]
  /\ HolePlace(A, m2, ix) = HolePlace(A, m, ix)
  /\ Places(A, m2, h, ix) = Places(A, m, h, ix)
  /\ HeldAt(A, m2, h, ix) = HeldAt(A, m, h, ix)

\* A name that owns nothing is no part of any location or place.
LEMMA Elsewhere ==
  ASSUME NEW A, NEW m, NEW h, NEW tn, NEW ix, Sound(A, m, h, tn, ix),
         NEW t \in Names, t \notin DOMAIN Own(A), NEW v \in 0..Len(h), NEW m2, m2 = [m EXCEPT ![t] = v]
  PROVE  Stored(A, m, h, ix, t, v, m2)
<1>1. m \in [Names -> 0..Len(h)] /\ DOMAIN Own(A) \subseteq Names
  BY DEF Sound, Sorted, Typed
<1>2. m2 \in [Names -> 0..Len(h)] /\ m2[t] = v /\ \A x \in Names : x # t => m2[x] = m[x]
  BY <1>1
<1>3. HoleOf(A) # << >> => HoleOf(A)[1] \in Names /\ HoleOf(A)[1] # t
  BY <1>1, HoleIn
<1>4. HolePlace(A, m2, ix) = HolePlace(A, m, ix)
  BY <1>2, <1>3 DEF HolePlace
<1>5. Places(A, m2, h, ix) = Places(A, m, h, ix)
  BY <1>4 DEF Places
<1>6. ASSUME NEW p \in Places(A, m, h, ix) PROVE At(m2, h, p) = At(m, h, p)
  <2>1. CASE \E x \in DOMAIN Own(A) : p = <<0, x>>
    BY <1>1, <1>2, <2>1 DEF At
  <2>2. CASE p \in RowPlaces(h)
    <3>1. p[1] # 0
      BY <2>2, HeldFacts DEF RowPlaces
    <3> QED
      BY <3>1 DEF At
  <2> QED
    BY <2>1, <2>2 DEF Places
<1>7. HeldAt(A, m2, h, ix) = HeldAt(A, m, h, ix)
  BY <1>5, <1>6 DEF HeldAt
<1> QED
  BY <1>2, <1>4, <1>5, <1>7 DEF Stored

\* Writing a name that owns nothing leaves every location as it is.
LEMMA ElsewhereLoc ==
  ASSUME NEW A, NEW m, NEW h, NEW tn, NEW ix, Sound(A, m, h, tn, ix),
         NEW t \in Names, t \notin DOMAIN Own(A), NEW v \in 0..Len(h), NEW m2, m2 = [m EXCEPT ![t] = v],
         NEW l, Leads2(A, m, l)
  PROVE  Leads2(A, m2, l) /\ ValueAt(m2, h, ix, l) = ValueAt(m, h, ix, l)
<1>1. LocOwned(A, l)
  BY LocFacts DEF LocIs
<1>2. m2[l[1]] = m[l[1]]
  BY <1>1, Elsewhere DEF LocOwned, Stored
<1> QED
  BY <1>2 DEF Leads2, ValueAt

\* A name may copy what a location holds.
LEMMA TwinSound ==
  ASSUME NEW A, NEW m, NEW h, NEW tn, NEW ix, Sound(A, m, h, tn, ix),
         NEW t, IsFree(A, t), NEW l, Leads2(A, m, l), OutsideHole(A, l)
  PROVE  Sound(Twins(A, t, l), [m EXCEPT ![t] = ValueAt(m, h, ix, l)], h, tn, ix)
<1> DEFINE v == ValueAt(m, h, ix, l)
           m2 == [m EXCEPT ![t] = v]
           B == Twins(A, t, l)
<1>1. /\ Own(B) = Own(A) /\ Twin(B) = With(Twin(A), t, l) /\ HoleOf(B) = HoleOf(A)
      /\ Fill(B) = Fill(A) /\ Turns(B) = Turns(A)
  BY PointIs DEF Twins
<1>2. v \in 0..Len(h) /\ t \in Names /\ t \notin DOMAIN Own(A) /\ t \notin DOMAIN Twin(A)
  BY LocFacts DEF LocIs, IsFree
<1> HIDE DEF B, v, m2
<1>3a. Stored(A, m, h, ix, t, v, m2)
  BY <1>2, Elsewhere DEF m2
<1>3. /\ m2 \in [Names -> 0..Len(h)] /\ m2[t] = v
      /\ \A x \in Names : x # t => m2[x] = m[x]
      /\ HolePlace(A, m2, ix) = HolePlace(A, m, ix)
      /\ HeldAt(A, m2, h, ix) = HeldAt(A, m, h, ix)
  BY <1>3a DEF Stored
<1>4. ASSUME NEW k, Leads2(A, m, k)
      PROVE  Leads2(A, m2, k) /\ ValueAt(m2, h, ix, k) = ValueAt(m, h, ix, k)
  BY <1>2, <1>4, ElsewhereLoc DEF m2
<1>5. \A k : Leads2(B, m2, k) <=> Leads2(A, m2, k)
  BY <1>1 DEF Leads2, Located, HasRows
<1>6. HolePlace(B, m2, ix) = HolePlace(A, m, ix) /\ HeldAt(B, m2, h, ix) = HeldAt(A, m, h, ix)
  BY <1>1, <1>3 DEF HolePlace, HeldAt, Places
<1>7. Typed(m2, h, tn, ix)
  BY <1>3 DEF Typed, Sound
<1>8. Sorted(B) /\ Each(HeldAt(B, m2, h, ix), Alive(h))
  BY <1>1, <1>6 DEF Sound, Sorted
<1>9. OwnersFit(B, m2, h)
  <2>1. \A x \in DOMAIN Own(A) : m2[x] = m[x]
    BY <1>2, <1>3 DEF Sound, Sorted
  <2> QED
    BY <1>1, <2>1 DEF Sound, OwnersFit
<1>10. RowsFit(B, m2, h, ix)
  <2>1. \A p \in RowPlaces(h) : At(m2, h, p) = At(m, h, p)
    <3>1. \A p \in RowPlaces(h) : p[1] # 0
      BY HeldFacts DEF RowPlaces
    <3> QED
      BY <3>1 DEF At
  <2> QED
    BY <1>6, <2>1 DEF Sound, RowsFit
<1>11. TwinsAgree(B, m2, h, ix)
  <2>1. \A k : OutsideHole(B, k) <=> OutsideHole(A, k)
    BY <1>1 DEF OutsideHole
  <2> SUFFICES ASSUME NEW u \in DOMAIN Twin(B)
               PROVE  /\ u \in Names \ DOMAIN Own(B) /\ Leads2(B, m2, Twin(B)[u]) /\ m2[u] = ValueAt(m2, h, ix, Twin(B)[u])
                      /\ Len(Twin(B)[u]) = 2 => OutsideHole(B, Twin(B)[u])
    BY DEF TwinsAgree
  <2>2. CASE u = t
    <3>1. With(Twin(A), t, l)[t] = l
      BY WithAt
    <3>2. Twin(B)[u] = l
      BY <1>1, <2>2, <3>1
    <3>3. Leads2(A, m2, l) /\ ValueAt(m2, h, ix, l) = v
      BY <1>4 DEF v
    <3> QED
      BY <1>1, <1>2, <1>3, <1>5, <2>1, <2>2, <3>2, <3>3
  <2>3. CASE u # t
    <3>0. DOMAIN With(Twin(A), t, l) = DOMAIN Twin(A) \cup {t}
      BY WithIn
    <3>1. u \in DOMAIN Twin(A)
      BY <1>1, <2>3, <3>0
    <3>2. With(Twin(A), t, l)[u] = Twin(A)[u]
      BY <2>3, <3>1, WithElse
    <3>3. Twin(B)[u] = Twin(A)[u]
      BY <1>1, <3>2
    <3>4. /\ u \in Names \ DOMAIN Own(A) /\ Leads2(A, m, Twin(A)[u]) /\ m[u] = ValueAt(m, h, ix, Twin(A)[u])
          /\ Len(Twin(A)[u]) = 2 => OutsideHole(A, Twin(A)[u])
      BY <3>1 DEF Sound, TwinsAgree
    <3> QED
      BY <1>1, <1>3, <1>4, <1>5, <2>1, <2>3, <3>3, <3>4
  <2> QED
    BY <2>2, <2>3
<1>12. HoleAgrees(B, m2, h, ix)
  <2>1. \A k : SortAt(B, k) = SortAt(A, k)
    BY <1>1 DEF SortAt
  <2> QED
    BY <1>1, <1>4, <1>5, <2>1 DEF Sound, HoleAgrees
<1>13. TurnsIn(B, tn)
  BY <1>1 DEF Sound, TurnsIn
<1> QED
  BY <1>7, <1>8, <1>9, <1>10, <1>11, <1>12, <1>13 DEF Sound, B, m2, v

-----------------------------------------------------------------------------
\* A pointer stored at a location.

MemPut(m, l, v) == IF Len(l) = 1 THEN [m EXCEPT ![l[1]] = v] ELSE m
HeapPut(m, h, ix, l, v) == IF Len(l) = 2 THEN RowSet(h, m[l[1]], ix[l[2]], v) ELSE h

WasPut(m, h, ix, l, v, m2, H) ==
  /\ H \in Seq(BlocksIn(Len(h))) /\ Len(H) = Len(h) /\ m2 \in [Names -> 0..Len(h)]
  /\ Alive(H) = Alive(h) /\ RowPlaces(H) = RowPlaces(h)
  /\ \A x \in Names : <<0, x>> # PlaceOf(m, ix, l) => m2[x] = m[x]
  /\ \A p \in RowPlaces(h) : p # PlaceOf(m, ix, l) => At(m2, H, p) = At(m, h, p)
  /\ At(m2, H, PlaceOf(m, ix, l)) = v
  /\ \A b \in 1..Len(h) : \A s \in Sorts : Fits(H[b], s) <=> Fits(h[b], s)
  /\ \A b \in 1..Len(h) : \A i \in Slots :
       h[b].rows \in [Slots -> 0..Len(h)] /\ <<b, i>> # PlaceOf(m, ix, l) => H[b].rows[i] = h[b].rows[i]
  /\ Len(l) = 2 => m2 = m

\* Storing a pointer at a location changes the place it is at and no other.
LEMMA PutFacts ==
  ASSUME NEW A, NEW m, NEW h, NEW tn, NEW ix, Sound(A, m, h, tn, ix), NEW l, Leads2(A, m, l),
         NEW v \in 0..Len(h), NEW m2, m2 = MemPut(m, l, v), NEW H, H = HeapPut(m, h, ix, l, v)
  PROVE  WasPut(m, h, ix, l, v, m2, H)
<1> DEFINE P == PlaceOf(m, ix, l)
<1>1. /\ h \in Seq(BlocksIn(Len(h))) /\ m \in [Names -> 0..Len(h)] /\ Len(h) \in Nat
      /\ DOMAIN h = 1..Len(h) /\ Alive(h) \subseteq 1..Len(h)
  BY HeldFacts DEF Sound, Typed
<1>2. LocIs(A, m, h, ix, l)
  BY LocFacts
<1>3. \A p \in RowPlaces(h) : p[1] # 0 /\ p[1] \in 1..Len(h)
  BY <1>1 DEF RowPlaces
<1>4. CASE Len(l) = 1
  <2>1. l = <<l[1]>> /\ l[1] \in Names
    BY <1>2, <1>4 DEF LocIs, LocOwned
  <2>2. H = h /\ m2 = [m EXCEPT ![l[1]] = v] /\ P = <<0, l[1]>>
    BY <1>4 DEF MemPut, HeapPut, PlaceOf
  <2> HIDE DEF P
  <2>3. m2 \in [Names -> 0..Len(h)] /\ m2[l[1]] = v /\ \A x \in Names : x # l[1] => m2[x] = m[x]
    BY <1>1, <2>1, <2>2
  <2>4. \A p \in RowPlaces(h) : At(m2, H, p) = At(m, h, p)
    BY <1>3, <2>2 DEF At
  <2>5. At(m2, H, P) = v
    BY <2>2, <2>3 DEF At
  <2>6. \A x \in Names : <<0, x>> # P => m2[x] = m[x]
    BY <2>2, <2>3
  <2>7. H \in Seq(BlocksIn(Len(h))) /\ Len(H) = Len(h) /\ Alive(H) = Alive(h) /\ RowPlaces(H) = RowPlaces(h)
    BY <1>1, <2>2
  <2>8. /\ \A b \in 1..Len(h) : \A s \in Sorts : Fits(H[b], s) <=> Fits(h[b], s)
        /\ \A b \in 1..Len(h) : \A i \in Slots : H[b].rows[i] = h[b].rows[i]
    BY <2>2
  <2>9. Len(l) # 2
    BY <1>4
  <2> QED
    BY <2>3, <2>4, <2>5, <2>6, <2>7, <2>8, <2>9 DEF WasPut, P
<1>5. CASE Len(l) = 2
  <2> DEFINE b == m[l[1]]
             i == ix[l[2]]
             N == Len(h)
  <2>1. b \in Alive(h) /\ b \in 1..N /\ h[b].rows \in [Slots -> 0..N] /\ i \in Slots
    BY <1>2, <1>5 DEF LocIs, LocRow
  <2>2. H = RowSet(h, b, i, v) /\ m2 = m /\ P = <<b, i>>
    BY <1>5 DEF MemPut, HeapPut, PlaceOf
  <2> HIDE DEF b, i, P, N
  <2>3. DOMAIN h[b].rows = Slots /\ N \in Nat /\ h \in Seq(BlocksIn(N)) /\ Len(h) = N /\ v \in 0..N
    BY <1>1, <2>1 DEF N
  <2>4. /\ Len(H) = N /\ DOMAIN H = 1..N /\ H \in Seq(BlocksIn(N))
        /\ \A a \in 1..N : /\ H[a].alive = h[a].alive /\ H[a].frame = h[a].frame
                           /\ DOMAIN H[a].rows = DOMAIN h[a].rows
        /\ \A a \in 1..N : a # b => H[a] = h[a]
        /\ H[b].rows[i] = v
        /\ \A j \in Slots : j # i => H[b].rows[j] = h[b].rows[j]
    <3>1. RowIsSet(h, H, N, b, i, v)
      BY <2>1, <2>2, <2>3, RowSetFacts, Zenon
    <3> QED
      BY <3>1 DEF RowIsSet
  <2>5. Alive(H) = Alive(h)
    BY <1>1, <2>4 DEF Alive, N
  <2>6. RowPlaces(H) = RowPlaces(h)
    <3>1. \A a \in Alive(h) : DOMAIN H[a].rows = DOMAIN h[a].rows
      BY <1>1, <2>4 DEF N
    <3> QED
      BY <2>5, <3>1 DEF RowPlaces
  <2>7. ASSUME NEW a \in 1..N, NEW s \in Sorts PROVE Fits(H[a], s) <=> Fits(h[a], s)
    <3>1. CASE a = b
      <4>1. DOMAIN H[a].rows = Slots /\ DOMAIN h[a].rows = Slots /\ H[a].frame = h[a].frame
        BY <2>3, <2>4, <3>1
      <4>2. H[a].rows # << >> /\ h[a].rows # << >>
        BY <4>1, SlotsAssumption
      <4> QED
        BY <4>1, <4>2 DEF Fits
    <3>2. CASE a # b
      BY <2>4, <3>2
    <3> QED
      BY <3>1, <3>2
  <2>8. ASSUME NEW a \in 1..N, NEW j \in Slots, <<a, j>> # P PROVE H[a].rows[j] = h[a].rows[j]
    BY <2>2, <2>4, <2>8
  <2>9. ASSUME NEW p \in RowPlaces(h), p # P PROVE At(m2, H, p) = At(m, h, p)
    <3>0. PICK a \in Alive(h) : \E j \in DOMAIN h[a].rows : p = <<a, j>>
      BY DEF RowPlaces
    <3>1. PICK j \in DOMAIN h[a].rows : p = <<a, j>>
      BY <3>0
    <3>2. a \in 1..N /\ a # 0
      BY <1>1 DEF N
    <3>3. H[a].rows[j] = h[a].rows[j]
      <4>1. CASE a = b
        <5>1. j \in Slots
          BY <2>3, <3>1, <4>1
        <5> QED
          BY <2>8, <2>9, <3>1, <3>2, <5>1
      <4>2. CASE a # b
        BY <2>4, <3>2, <4>2
      <4> QED
        BY <4>1, <4>2
    <3> QED
      BY <3>1, <3>2, <3>3 DEF At
  <2>10. At(m2, H, P) = v
    <3>1. b # 0
      BY <2>1, <2>3
    <3> QED
      BY <2>2, <2>4, <3>1 DEF At
  <2> QED
    BY <1>1, <2>2, <2>4, <2>5, <2>6, <2>7, <2>8, <2>9, <2>10 DEF WasPut, P, N
<1>6. Len(l) = 1 \/ Len(l) = 2
  <2>1. CASE l = <<l[1]>>
    BY <2>1
  <2>2. CASE l = <<l[1], l[2]>>
    BY <2>2
  <2> QED
    BY <1>2, <2>1, <2>2 DEF LocIs, LocOwned
<1> QED
  BY <1>4, <1>5, <1>6

\* Other locations hold what they have held.
LEMMA PutElse ==
  ASSUME NEW A, NEW m, NEW h, NEW tn, NEW ix, Sound(A, m, h, tn, ix), NEW l, Leads2(A, m, l),
         NEW v, NEW m2, NEW H, WasPut(m, h, ix, l, v, m2, H),
         NEW k, Leads2(A, m, k), PlaceOf(m, ix, k) # PlaceOf(m, ix, l), Len(l) = 1 => k[1] # l[1]
  PROVE  /\ Leads2(A, m2, k) /\ ValueAt(m2, H, ix, k) = ValueAt(m, h, ix, k)
         /\ PlaceOf(m2, ix, k) = PlaceOf(m, ix, k) /\ m2[k[1]] = m[k[1]]
<1>1. LocIs(A, m, h, ix, l) /\ LocIs(A, m, h, ix, k)
  BY LocFacts
<1>2. l = <<l[1]>> \/ l = <<l[1], l[2]>>
  BY <1>1 DEF LocIs, LocOwned
<1>3. Len(l) = 1 \/ Len(l) = 2
  BY <1>2
<1>4. m2[k[1]] = m[k[1]]
  <2>1. CASE Len(l) = 1
    <3>1. PlaceOf(m, ix, l) = <<0, l[1]>> /\ <<0, k[1]>> # <<0, l[1]>> /\ k[1] \in Names
      BY <1>1, <2>1 DEF PlaceOf, LocIs, LocOwned
    <3> QED
      BY <3>1 DEF WasPut
  <2>2. CASE Len(l) = 2
    BY <2>2 DEF WasPut
  <2> QED
    BY <1>3, <2>1, <2>2
<1>5. Leads2(A, m2, k) /\ PlaceOf(m2, ix, k) = PlaceOf(m, ix, k)
  BY <1>4 DEF Leads2, PlaceOf
<1>6. k = <<k[1]>> \/ k = <<k[1], k[2]>>
  BY <1>1 DEF LocIs, LocOwned
<1>7. CASE k = <<k[1]>>
  BY <1>4, <1>5, <1>7 DEF ValueAt
<1>8. CASE k = <<k[1], k[2]>>
  <2>1. Len(k) = 2
    BY <1>8
  <2>2. m[k[1]] \in 1..Len(h) /\ ix[k[2]] \in Slots /\ h[m[k[1]]].rows \in [Slots -> 0..Len(h)]
    BY <1>1, <2>1 DEF LocIs, LocRow
  <2>3. PlaceOf(m, ix, k) = <<m[k[1]], ix[k[2]]>>
    BY <2>1 DEF PlaceOf
  <2>4. H[m[k[1]]].rows[ix[k[2]]] = h[m[k[1]]].rows[ix[k[2]]]
    BY <2>2, <2>3 DEF WasPut
  <2> QED
    BY <1>4, <1>5, <2>1, <2>4 DEF ValueAt
<1> QED
  BY <1>4, <1>5, <1>6, <1>7, <1>8

\* A location other than l, of a different owner or the owner of the row l.
LEMMA OtherPlace ==
  ASSUME NEW A, NEW m, NEW h, NEW tn, NEW ix, Sound(A, m, h, tn, ix), NEW l, Leads2(A, m, l),
         NEW k, Leads2(A, m, k), k[1] # l[1] \/ (Len(k) = 1 /\ Len(l) = 2)
  PROVE  PlaceOf(m, ix, k) # PlaceOf(m, ix, l) /\ (Len(l) = 1 => k[1] # l[1])
BY PlacesDiffer, SMTT(30)

\* What a location of an owner can be.
LEMMA ValueFits ==
  ASSUME NEW A, NEW m, NEW h, NEW tn, NEW ix, Sound(A, m, h, tn, ix), NEW l, Leads2(A, m, l),
         PlaceOf(m, ix, l) \notin HolePlace(A, m, ix), ValueAt(m, h, ix, l) # 0
  PROVE  /\ Fits(h[ValueAt(m, h, ix, l)], SortAt(A, l)) /\ ValueAt(m, h, ix, l) \in Alive(h)
         /\ ValueAt(m, h, ix, l) \in 1..Len(h)
<1>1. LocIs(A, m, h, ix, l) /\ PlaceOf(m, ix, l) \in Places(A, m, h, ix) /\ Alive(h) \subseteq 1..Len(h)
  BY LocFacts, PlaceIn, HeldFacts
<1>2. ValueAt(m, h, ix, l) \in Alive(h)
  <2>1. HeldAt(A, m, h, ix)[PlaceOf(m, ix, l)] = ValueAt(m, h, ix, l)
    BY <1>1 DEF HeldAt, LocIs
  <2>2. PlaceOf(m, ix, l) \in DOMAIN HeldAt(A, m, h, ix)
    BY <1>1 DEF HeldAt
  <2> QED
    BY <2>1, <2>2 DEF Sound, Each
<1>3. CASE l = <<l[1]>>
  <2>0. Len(l) = 1 /\ l[1] \in DOMAIN Own(A)
    BY <1>1, <1>3 DEF LocIs, LocOwned
  <2>1. ValueAt(m, h, ix, l) = m[l[1]] /\ SortAt(A, l) = Own(A)[l[1]] /\ l[1] \in DOMAIN Own(A)
    BY <2>0 DEF ValueAt, SortAt
  <2> QED
    BY <1>1, <1>2, <2>1 DEF Sound, OwnersFit
<1>4. CASE l = <<l[1], l[2]>>
  <2>1. Len(l) = 2
    BY <1>4
  <2>2. LocRow(A, m, h, ix, l) /\ SortAt(A, l) = "leaf" /\ PlaceOf(m, ix, l) = <<m[l[1]], ix[l[2]]>>
    BY <1>1, <2>1 DEF LocIs, SortAt, PlaceOf
  <2>3. DOMAIN h[m[l[1]]].rows = Slots
    BY <2>2 DEF LocRow
  <2>4. PlaceOf(m, ix, l) \in RowPlaces(h)
    BY <2>2, <2>3 DEF RowPlaces, LocRow
  <2>5. At(m, h, PlaceOf(m, ix, l)) = ValueAt(m, h, ix, l)
    BY <1>1 DEF LocIs
  <2> QED
    BY <1>1, <1>2, <2>2, <2>4, <2>5 DEF Sound, RowsFit
<1> QED
  BY <1>1, <1>3, <1>4 DEF LocIs, LocOwned

\* A twin becomes the owner in the place of what it copies, which is reset.
LEMMA EmptiedSound ==
  ASSUME NEW A, NEW m, NEW h, NEW tn, NEW ix, Sound(A, m, h, tn, ix), NEW l, Leads2(A, m, l), OutsideHole(A, l),
         SortAt(A, l) # "frame", Fill(A) = << >>,
         NEW t \in DOMAIN Twin(A), t \in Names, t \notin DOMAIN Own(A), Twin(A)[t] = l, Undisturbed(A, l, t),
         NEW m2, m2 = MemPut(m, l, 0), NEW H, H = HeapPut(m, h, ix, l, 0), NEW B,
         B = Owns(Point(Own(A), Less(Twin(A), {t}), HoleOf(A), Fill(A), Turns(A)), t, SortAt(A, l))
  PROVE  Sound(B, m2, H, tn, ix)
<1> DEFINE P == PlaceOf(m, ix, l)
           sort == SortAt(A, l)
<1>1. /\ Typed(m, h, tn, ix) /\ Sorted(A) /\ Each(HeldAt(A, m, h, ix), Alive(h))
      /\ OwnersFit(A, m, h) /\ RowsFit(A, m, h, ix)
      /\ TwinsAgree(A, m, h, ix) /\ HoleAgrees(A, m, h, ix) /\ TurnsIn(A, tn)
  BY DEF Sound
<1>2. /\ Own(B) = With(Own(A), t, sort) /\ Twin(B) = Less(Twin(A), {t}) /\ HoleOf(B) = HoleOf(A)
      /\ Fill(B) = << >> /\ Turns(B) = Turns(A)
  BY PointIs DEF Owns
<1>3. LocIs(A, m, h, ix, l) /\ P \notin HolePlace(A, m, ix) /\ P \in Places(A, m, h, ix)
  BY LocFacts, PlaceOutside, PlaceIn
<1>4. Len(h) \in Nat /\ 0 \in 0..Len(h) /\ 0 \notin Alive(h) /\ DOMAIN Own(A) \subseteq Names
  BY <1>1, HeldFacts DEF Sorted
<1>5. WasPut(m, h, ix, l, 0, m2, H)
  BY <1>4, PutFacts
<1>6. sort \in {"leaf", "tree"}
  <2>1. CASE Len(l) = 2
    BY <2>1 DEF SortAt
  <2>2. CASE Len(l) # 2
    BY <1>1, <1>3, <2>2 DEF LocIs, LocOwned, SortAt, Sorted, Sorts
  <2> QED
    BY <2>1, <2>2
<1>7. DOMAIN Own(B) = DOMAIN Own(A) \cup {t}
  <2>1. DOMAIN With(Own(A), t, sort) = DOMAIN Own(A) \cup {t}
    BY WithIn
  <2> QED
    BY <1>2, <2>1
<1>8. Own(B)[t] = sort
  <2>1. With(Own(A), t, sort)[t] = sort
    BY WithAt
  <2> QED
    BY <1>2, <2>1
<1>9. ASSUME NEW y \in DOMAIN Own(A) PROVE Own(B)[y] = Own(A)[y] /\ y # t
  <2>1. With(Own(A), t, sort)[y] = Own(A)[y]
    BY WithElse
  <2> QED
    BY <1>2, <2>1
<1>10. t # l[1] /\ l[1] \in DOMAIN Own(A)
  BY <1>3 DEF LocIs, LocOwned
<1>11. P # <<0, t>>
  <2>1. \A x \in DOMAIN Own(A) : <<0, x>> # <<0, t>>
    OBVIOUS
  <2>2. \A p \in RowPlaces(h) : p # <<0, t>>
    BY <1>4 DEF RowPlaces
  <2> QED
    BY <1>3, <2>1, <2>2 DEF Places
<1>12. m2[t] = m[t] /\ m[t] = ValueAt(m, h, ix, l)
  BY <1>1, <1>5, <1>11 DEF WasPut, TwinsAgree
<1> HIDE DEF P, sort
<1>13. HoleOf(A) # << >> => HoleOf(A)[1] \in DOMAIN Own(A) /\ m2[HoleOf(A)[1]] = m[HoleOf(A)[1]]
  <2> SUFFICES ASSUME HoleOf(A) # << >>
               PROVE  HoleOf(A)[1] \in DOMAIN Own(A) /\ m2[HoleOf(A)[1]] = m[HoleOf(A)[1]]
    OBVIOUS
  <2>1. Leads2(A, m, HoleOf(A)) /\ HoleOf(A)[1] # l[1] /\ HoleOf(A)[1] \in DOMAIN Own(A)
    BY <1>1, HoleIn DEF HoleAgrees, OutsideHole
  <2>2. PlaceOf(m, ix, HoleOf(A)) # PlaceOf(m, ix, l) /\ (Len(l) = 1 => HoleOf(A)[1] # l[1])
    BY <2>1, OtherPlace
  <2> QED
    BY <1>5, <2>1, <2>2, PutElse
<1>14. HolePlace(B, m2, ix) = HolePlace(A, m, ix)
  BY <1>2, <1>13 DEF HolePlace
<1>15. Alive(H) = Alive(h) /\ RowPlaces(H) = RowPlaces(h)
  BY <1>5 DEF WasPut
<1>16. Places(B, m2, H, ix) = Places(A, m, h, ix) \cup {<<0, t>>}
  <2>1. <<0, t>> \notin HolePlace(A, m, ix) /\ \A x : <<0, x>> \notin RowPlaces(h)
    BY <1>4, HoleIn DEF RowPlaces
  <2> QED
    BY <1>7, <1>14, <1>15, <2>1 DEF Places
<1>17. <<0, t>> \notin Places(A, m, h, ix)
  <2>1. \A x \in DOMAIN Own(A) : <<0, x>> # <<0, t>>
    OBVIOUS
  <2>2. \A p \in RowPlaces(h) : p # <<0, t>>
    BY <1>4 DEF RowPlaces
  <2> QED
    BY <2>1, <2>2 DEF Places
<1>18. ASSUME NEW p \in Places(A, m, h, ix), p # P PROVE At(m2, H, p) = At(m, h, p)
  <2>1. CASE \E x \in DOMAIN Own(A) : p = <<0, x>>
    <3>1. PICK x \in DOMAIN Own(A) : p = <<0, x>>
      BY <2>1
    <3>2. m2[x] = m[x]
      BY <1>4, <1>5, <1>18, <3>1 DEF WasPut, P
    <3> QED
      BY <3>1, <3>2 DEF At
  <2>2. CASE p \in RowPlaces(h)
    BY <1>5, <1>18, <2>2 DEF WasPut, P
  <2> QED
    BY <2>1, <2>2 DEF Places
<1>19. At(m2, H, P) = 0 /\ At(m, h, P) = ValueAt(m, h, ix, l)
  BY <1>3, <1>5 DEF WasPut, P, LocIs
<1>20. Each(HeldAt(B, m2, H, ix), Alive(H))
  <2> DEFINE f == HeldAt(A, m, h, ix)
             g == HeldAt(B, m2, H, ix)
  <2>1. DOMAIN f = Places(A, m, h, ix) /\ \A p \in Places(A, m, h, ix) : f[p] = At(m, h, p)
    BY DEF HeldAt
  <2>2. /\ DOMAIN g = Places(A, m, h, ix) \cup {<<0, t>>}
        /\ \A p \in Places(A, m, h, ix) \cup {<<0, t>>} : g[p] = At(m2, H, p)
    BY <1>16 DEF HeldAt
  <2>3. At(m2, H, <<0, t>>) = ValueAt(m, h, ix, l)
    BY <1>12 DEF At
  <2> HIDE DEF f, g
  <2>4. P \in DOMAIN f /\ <<0, t>> \notin DOMAIN f /\ g[<<0, t>>] = f[P] /\ g[P] = 0
    BY <1>3, <1>17, <1>19, <2>1, <2>2, <2>3 DEF P
  <2>5. \A p \in DOMAIN f : p # P => p \in DOMAIN g /\ g[p] = f[p]
    BY <1>18, <2>1, <2>2
  <2>6. Each(f, Alive(h)) /\ 0 \notin Alive(h)
    BY <1>1, <1>4 DEF f
  <2>7. Each(g, Alive(h))
    BY <2>1, <2>2, <2>4, <2>5, <2>6, EachMoved
  <2> QED
    BY <1>15, <2>7 DEF g
<1>21. Typed(m2, H, tn, ix)
  BY <1>1, <1>5 DEF Typed, WasPut
<1>22. Sorted(B)
  <2>1. \A y \in DOMAIN Own(B) : Own(B)[y] \in Sorts
    BY <1>1, <1>6, <1>7, <1>8, <1>9 DEF Sorted, Sorts
  <2> QED
    BY <1>4, <1>7, <2>1 DEF Sorted
<1>23. ASSUME NEW b \in Alive(h), NEW s \in Sorts PROVE Fits(H[b], s) <=> Fits(h[b], s)
  BY <1>5, HeldFacts DEF WasPut
<1>24. OwnersFit(B, m2, H)
  <2> SUFFICES ASSUME NEW y \in DOMAIN Own(B), m2[y] # 0 PROVE Fits(H[m2[y]], Own(B)[y])
    BY DEF OwnersFit
  <2>1. CASE y = t
    <3>1. Fits(h[m[t]], sort) /\ m[t] \in Alive(h)
      BY <1>3, <1>12, <2>1, ValueFits DEF P, sort
    <3> QED
      BY <1>6, <1>8, <1>12, <1>23, <2>1, <3>1 DEF Sorts
  <2>2. CASE y # t
    <3>1. y \in DOMAIN Own(A) /\ y \in Names /\ Own(B)[y] = Own(A)[y]
      BY <1>4, <1>7, <1>9, <2>2
    <3>2. m2[y] = m[y]
      <4>1. <<0, y>> # P
        <5>1. <<0, y>> = P => At(m2, H, <<0, y>>) = 0
          BY <1>19
        <5>2. At(m2, H, <<0, y>>) = m2[y]
          BY DEF At
        <5> QED
          BY <5>1, <5>2
      <4> QED
        BY <1>5, <3>1, <4>1 DEF WasPut, P
    <3>3. m[y] \in Alive(h) /\ Own(A)[y] \in Sorts
      BY <1>1, <3>1, <3>2, HeldFacts DEF Sorted
    <3> QED
      BY <1>1, <1>23, <3>1, <3>2, <3>3 DEF OwnersFit
  <2> QED
    BY <2>1, <2>2
<1>25. RowsFit(B, m2, H, ix)
  <2> SUFFICES ASSUME NEW p \in RowPlaces(h) \ HolePlace(A, m, ix), At(m2, H, p) # 0
               PROVE  Fits(H[At(m2, H, p)], "leaf")
    BY <1>14, <1>15 DEF RowsFit
  <2>1. p \in Places(A, m, h, ix) /\ p # P
    BY <1>19 DEF Places
  <2>2. At(m2, H, p) = At(m, h, p)
    BY <1>18, <2>1
  <2>3. At(m, h, p) \in Alive(h)
    <3>1. p \in DOMAIN HeldAt(A, m, h, ix) /\ HeldAt(A, m, h, ix)[p] = At(m, h, p)
      BY <2>1 DEF HeldAt
    <3> QED
      BY <1>1, <2>2, <3>1 DEF Each
  <2>4. Fits(h[At(m, h, p)], "leaf")
    BY <1>1, <2>2 DEF RowsFit
  <2> QED
    BY <1>23, <2>2, <2>3, <2>4 DEF Sorts
<1>26. ASSUME NEW k, Leads2(A, m2, k) PROVE Leads2(B, m2, k)
  BY <1>7, <1>9, <1>26 DEF Leads2, Located, HasRows
<1>27. TwinsAgree(B, m2, H, ix)
  <2> SUFFICES ASSUME NEW u \in DOMAIN Twin(B)
               PROVE  /\ u \in Names \ DOMAIN Own(B) /\ Leads2(B, m2, Twin(B)[u]) /\ m2[u] = ValueAt(m2, H, ix, Twin(B)[u])
                      /\ Len(Twin(B)[u]) = 2 => OutsideHole(B, Twin(B)[u])
    BY DEF TwinsAgree
  <2> DEFINE k == Twin(A)[u]
  <2>1. u \in DOMAIN Twin(A) /\ u # t /\ Twin(B)[u] = k
    BY <1>2 DEF Less
  <2>2. /\ u \in Names \ DOMAIN Own(A) /\ Leads2(A, m, k) /\ m[u] = ValueAt(m, h, ix, k) /\ (Len(k) = 2 => OutsideHole(A, k))
        /\ k[1] # l[1] \/ (Len(k) = 1 /\ Len(l) = 2)
    BY <1>1, <2>1 DEF TwinsAgree, Undisturbed
  <2> HIDE DEF k
  <2>3. PlaceOf(m, ix, k) # PlaceOf(m, ix, l) /\ (Len(l) = 1 => k[1] # l[1])
    BY <2>2, OtherPlace
  <2>4. Leads2(A, m2, k) /\ ValueAt(m2, H, ix, k) = ValueAt(m, h, ix, k)
    BY <1>5, <2>2, <2>3, PutElse
  <2>5. m2[u] = m[u]
    <3>1. CASE <<0, u>> # P
      BY <1>5, <2>2, <3>1 DEF WasPut, P
    <3>2. CASE <<0, u>> = P
      <4>1. Len(l) = 1
        <5>1. CASE l = <<l[1], l[2]>>
          <6>1. Len(l) = 2
            BY <5>1
          <6>2. P = <<m[l[1]], ix[l[2]]>> /\ m[l[1]] # 0
            BY <1>3, <1>4, <6>1 DEF P, PlaceOf, LocIs, LocRow
          <6> QED
            BY <3>2, <6>2
        <5>2. CASE l = <<l[1]>>
          BY <5>2
        <5> QED
          BY <1>3, <5>1, <5>2 DEF LocIs, LocOwned
      <4>2. u = l[1]
        <5>1. P = <<0, l[1]>>
          BY <4>1 DEF P, PlaceOf
        <5> QED
          BY <3>2, <5>1
      <4> QED
        BY <1>10, <2>2, <4>2
    <3> QED
      BY <3>1, <3>2
  <2>6. Len(k) = 2 => OutsideHole(B, k)
    BY <1>2, <2>2 DEF OutsideHole
  <2> QED
    BY <1>7, <1>26, <2>1, <2>2, <2>4, <2>5, <2>6
<1>28. HoleAgrees(B, m2, H, ix)
  <2> SUFFICES ASSUME HoleOf(A) # << >> PROVE Leads2(B, m2, HoleOf(A)) /\ Len(HoleOf(A)) = 2
    BY <1>2 DEF HoleAgrees
  <2>1. Leads2(A, m, HoleOf(A)) /\ Len(HoleOf(A)) = 2
    BY <1>1 DEF HoleAgrees
  <2>2. Leads2(A, m2, HoleOf(A))
    BY <1>13, <2>1 DEF Leads2
  <2> QED
    BY <1>26, <2>1, <2>2
<1>29. TurnsIn(B, tn)
  BY <1>1, <1>2 DEF TurnsIn
<1> QED
  BY <1>20, <1>21, <1>22, <1>24, <1>25, <1>27, <1>28, <1>29 DEF Sound

\* A place that holds nothing may be added.
LEMMA EachZero ==
  ASSUME NEW f, NEW F, Each(f, F), NEW at, NEW q, 0 \notin F,
         DOMAIN at = DOMAIN f \cup {q}, at[q] = 0, \A r \in DOMAIN f : r # q => at[r] = f[r], q \notin DOMAIN f
  PROVE  Each(at, F)
<1>1. ASSUME NEW r \in DOMAIN at PROVE at[r] = 0 \/ at[r] \in F
  BY DEF Each
<1>2. ASSUME NEW r \in DOMAIN at, NEW s \in DOMAIN at, at[r] = at[s] PROVE r = s \/ at[r] = 0
  BY <1>2 DEF Each
<1>3. ASSUME NEW b \in F PROVE \E r \in DOMAIN at : at[r] = b
  BY DEF Each
<1> QED
  BY <1>1, <1>2, <1>3 DEF Each

\* What owns nothing is at no location's place.
LEMMA NotAtPlace ==
  ASSUME NEW A, NEW m, NEW h, NEW tn, NEW ix, Sound(A, m, h, tn, ix), NEW l, Leads2(A, m, l),
         NEW u, u \notin DOMAIN Own(A)
  PROVE  <<0, u>> # PlaceOf(m, ix, l)
<1>1. LocIs(A, m, h, ix, l) /\ 0 \notin Alive(h)
  BY LocFacts, HeldFacts
<1>2. CASE l = <<l[1], l[2]>>
  <2>1. Len(l) = 2
    BY <1>2
  <2>2. PlaceOf(m, ix, l) = <<m[l[1]], ix[l[2]]>> /\ m[l[1]] # 0
    BY <1>1, <2>1 DEF PlaceOf, LocIs, LocRow
  <2> QED
    BY <2>2
<1>3. CASE l = <<l[1]>>
  <2>1. PlaceOf(m, ix, l) = <<0, l[1]>> /\ l[1] \in DOMAIN Own(A)
    BY <1>1, <1>3 DEF PlaceOf, LocIs, LocOwned
  <2> QED
    BY <2>1
<1> QED
  BY <1>1, <1>2, <1>3 DEF LocIs, LocOwned

\* The hole is a location as others are.
LEMMA HoleLeads ==
  ASSUME NEW A, NEW m, NEW h, NEW tn, NEW ix, Sound(A, m, h, tn, ix), HoleOf(A) # << >>
  PROVE  /\ Leads2(A, m, HoleOf(A)) /\ Len(HoleOf(A)) = 2
         /\ HolePlace(A, m, ix) = {PlaceOf(m, ix, HoleOf(A))}
         /\ PlaceOf(m, ix, HoleOf(A)) \in RowPlaces(h)
         /\ PlaceOf(m, ix, HoleOf(A)) \notin Places(A, m, h, ix)
<1>1. Leads2(A, m, HoleOf(A)) /\ Len(HoleOf(A)) = 2
  BY DEF Sound, HoleAgrees
<1>2. PlaceOf(m, ix, HoleOf(A)) = <<m[HoleOf(A)[1]], ix[HoleOf(A)[2]]>>
  BY <1>1 DEF PlaceOf
<1>3. HolePlace(A, m, ix) = {PlaceOf(m, ix, HoleOf(A))} /\ HolePlace(A, m, ix) \subseteq RowPlaces(h)
  BY <1>2, HoleIn
<1>4. m[HoleOf(A)[1]] # 0
  BY <1>1 DEF Leads2
<1>5. \A x \in DOMAIN Own(A) : <<0, x>> # PlaceOf(m, ix, HoleOf(A))
  BY <1>2, <1>4
<1>6. PlaceOf(m, ix, HoleOf(A)) \notin Places(A, m, h, ix)
  BY <1>3, <1>5 DEF Places
<1> QED
  BY <1>1, <1>3, <1>6

\* What remains of the places after a pointer has been stored at l.
LEMMA PutPlaces ==
  ASSUME NEW A, NEW m, NEW h, NEW tn, NEW ix, Sound(A, m, h, tn, ix), NEW l, Leads2(A, m, l),
         NEW v, NEW m2, NEW H, WasPut(m, h, ix, l, v, m2, H),
         NEW p \in Places(A, m, h, ix) \cup RowPlaces(h), p # PlaceOf(m, ix, l)
  PROVE  At(m2, H, p) = At(m, h, p)
<1>1. CASE \E x \in DOMAIN Own(A) : p = <<0, x>>
  <2>1. PICK x \in DOMAIN Own(A) : p = <<0, x>>
    BY <1>1
  <2>2. m2[x] = m[x]
    BY <2>1 DEF WasPut, Sound, Sorted
  <2> QED
    BY <2>1, <2>2 DEF At
<1>2. CASE p \in RowPlaces(h)
  BY <1>2 DEF WasPut
<1> QED
  BY <1>1, <1>2 DEF Places

\* The next block of a hole is stored there before its owner is reset.
LEMMA FillSound ==
  ASSUME NEW A, NEW m, NEW h, NEW tn, NEW ix, Sound(A, m, h, tn, ix), HoleOf(A) # << >>, Fill(A) = << >>,
         NEW k, Leads2(A, m, k), SortAt(A, k) = "leaf",
         NEW m2, m2 = MemPut(m, HoleOf(A), ValueAt(m, h, ix, k)),
         NEW H, H = HeapPut(m, h, ix, HoleOf(A), ValueAt(m, h, ix, k))
  PROVE  Sound(Hole(A, HoleOf(A), k), m2, H, tn, ix)
<1> DEFINE l == HoleOf(A)
           v == ValueAt(m, h, ix, k)
           P == PlaceOf(m, ix, l)
           B == Hole(A, l, k)
<1>1. /\ Typed(m, h, tn, ix) /\ Sorted(A) /\ Each(HeldAt(A, m, h, ix), Alive(h))
      /\ OwnersFit(A, m, h) /\ RowsFit(A, m, h, ix)
      /\ TwinsAgree(A, m, h, ix) /\ HoleAgrees(A, m, h, ix) /\ TurnsIn(A, tn)
  BY DEF Sound
<1>2. Own(B) = Own(A) /\ Twin(B) = Twin(A) /\ HoleOf(B) = l /\ Fill(B) = k /\ Turns(B) = Turns(A)
  BY PointIs DEF Hole
<1> HIDE DEF B
<1>3. /\ Leads2(A, m, l) /\ Len(l) = 2 /\ HolePlace(A, m, ix) = {P} /\ P \in RowPlaces(h)
      /\ P \notin Places(A, m, h, ix)
  BY HoleLeads
<1>4. v \in 0..Len(h)
  BY LocFacts DEF LocIs
<1>5. WasPut(m, h, ix, l, v, m2, H)
  BY <1>3, <1>4, PutFacts
<1> HIDE DEF l, v, P
<1>6. m2 = m
  BY <1>3, <1>5 DEF WasPut
<1>7. Alive(H) = Alive(h) /\ RowPlaces(H) = RowPlaces(h) /\ Typed(m, H, tn, ix)
  BY <1>1, <1>5, <1>6 DEF WasPut, Typed
<1>8. HolePlace(B, m, ix) = HolePlace(A, m, ix) /\ Places(B, m, H, ix) = Places(A, m, h, ix)
  BY <1>2, <1>7 DEF HolePlace, Places, l
<1>9. \A p \in Places(A, m, h, ix) : At(m, H, p) = At(m, h, p)
  BY <1>3, <1>5, <1>6, PutPlaces DEF P
<1>10. HeldAt(B, m, H, ix) = HeldAt(A, m, h, ix)
  BY <1>8, <1>9 DEF HeldAt
<1>11. ASSUME NEW b \in Alive(h), NEW s \in Sorts PROVE Fits(H[b], s) <=> Fits(h[b], s)
  BY <1>5, HeldFacts DEF WasPut
<1>12. OwnersFit(B, m, H)
  BY <1>1, <1>2, <1>11, HeldFacts DEF OwnersFit, Sorted
<1>13. RowsFit(B, m, H, ix)
  <2> SUFFICES ASSUME NEW p \in RowPlaces(h) \ HolePlace(A, m, ix), At(m, H, p) # 0
               PROVE  Fits(H[At(m, H, p)], "leaf")
    BY <1>7, <1>8 DEF RowsFit
  <2>1. p \in Places(A, m, h, ix)
    BY DEF Places
  <2>2. At(m, H, p) = At(m, h, p)
    BY <1>9, <2>1
  <2>3. At(m, h, p) \in Alive(h)
    <3>1. p \in DOMAIN HeldAt(A, m, h, ix) /\ HeldAt(A, m, h, ix)[p] = At(m, h, p)
      BY <2>1 DEF HeldAt
    <3> QED
      BY <1>1, <2>2, <3>1 DEF Each
  <2>4. Fits(h[At(m, h, p)], "leaf")
    BY <1>1, <2>2 DEF RowsFit
  <2> QED
    BY <1>11, <2>2, <2>3, <2>4 DEF Sorts
<1>14. ASSUME NEW e PROVE Leads2(B, m, e) <=> Leads2(A, m, e)
  BY <1>2 DEF Leads2, Located, HasRows
<1>15. TwinsAgree(B, m, H, ix)
  <2> SUFFICES ASSUME NEW u \in DOMAIN Twin(A)
               PROVE  /\ u \in Names \ DOMAIN Own(A) /\ Leads2(A, m, Twin(A)[u])
                      /\ m[u] = ValueAt(m, H, ix, Twin(A)[u])
                      /\ Len(Twin(A)[u]) = 2 => OutsideHole(B, Twin(A)[u])
    BY <1>2, <1>14 DEF TwinsAgree
  <2> DEFINE e == Twin(A)[u]
  <2>1. /\ u \in Names \ DOMAIN Own(A) /\ Leads2(A, m, e) /\ m[u] = ValueAt(m, h, ix, e)
        /\ Len(e) = 2 => OutsideHole(A, e)
    BY <1>1 DEF TwinsAgree
  <2> HIDE DEF e
  <2>2. Len(e) = 1 \/ Len(e) = 2
    BY <2>1, LocFacts DEF LocIs, LocOwned
  <2>3. e[1] # l[1] \/ (Len(e) = 1 /\ Len(l) = 2)
    BY <1>3, <2>1, <2>2 DEF OutsideHole, l
  <2>4. PlaceOf(m, ix, e) # PlaceOf(m, ix, l) /\ (Len(l) = 1 => e[1] # l[1])
    BY <1>3, <2>1, <2>3, OtherPlace
  <2>5. ValueAt(m, H, ix, e) = ValueAt(m, h, ix, e)
    BY <1>3, <1>5, <1>6, <2>1, <2>4, PutElse
  <2>6. Len(e) = 2 => OutsideHole(B, e)
    BY <1>2, <2>1 DEF OutsideHole, l
  <2> QED
    BY <2>1, <2>5, <2>6 DEF e
<1>16. HoleAgrees(B, m, H, ix)
  <2>0. At(m, H, P) = v
    BY <1>5, <1>6 DEF WasPut, P
  <2>1. ValueAt(m, H, ix, l) = v
    <3>1. P = <<m[l[1]], ix[l[2]]>> /\ m[l[1]] # 0
      BY <1>3 DEF P, PlaceOf, Leads2
    <3>2. P[1] = m[l[1]] /\ P[2] = ix[l[2]]
      BY <3>1
    <3>3. At(m, H, P) = H[m[l[1]]].rows[ix[l[2]]]
      BY <3>1, <3>2 DEF At
    <3>4. ValueAt(m, H, ix, l) = H[m[l[1]]].rows[ix[l[2]]]
      BY <1>3 DEF ValueAt
    <3> QED
      BY <2>0, <3>3, <3>4
  <2>2. ValueAt(m, H, ix, k) = v
    <3>1. CASE PlaceOf(m, ix, k) = P
      <4>1. Len(k) = Len(l) /\ k[1] = l[1]
        BY <1>3, <3>1, PlacesDiffer DEF P
      <4>2. P = <<m[k[1]], ix[k[2]]>> /\ m[k[1]] # 0
        BY <1>3, <3>1, <4>1 DEF PlaceOf, Leads2
      <4>3. P[1] = m[k[1]] /\ P[2] = ix[k[2]] /\ Len(k) = 2
        BY <1>3, <4>1, <4>2
      <4>4. At(m, H, P) = H[m[k[1]]].rows[ix[k[2]]]
        BY <4>2, <4>3 DEF At
      <4>5. ValueAt(m, H, ix, k) = H[m[k[1]]].rows[ix[k[2]]]
        BY <4>3 DEF ValueAt
      <4> QED
        BY <2>0, <4>4, <4>5
    <3>2. CASE PlaceOf(m, ix, k) # P
      <4>1. Len(l) # 1
        BY <1>3
      <4>2. ValueAt(m, H, ix, k) = ValueAt(m, h, ix, k)
        BY <1>3, <1>5, <1>6, <3>2, <4>1, PutElse DEF P
      <4> QED
        BY <4>2 DEF v
    <3> QED
      BY <3>1, <3>2
  <2>3. SortAt(B, k) = "leaf"
    BY <1>2 DEF SortAt
  <2> QED
    BY <1>2, <1>3, <1>14, <2>1, <2>2, <2>3 DEF HoleAgrees
<1>17. TurnsIn(B, tn)
  BY <1>1, <1>2 DEF TurnsIn
<1>18. Sorted(B) /\ Each(HeldAt(B, m, H, ix), Alive(H))
  BY <1>1, <1>2, <1>7, <1>10 DEF Sorted
<1>19. Sound(B, m, H, tn, ix)
  BY <1>7, <1>12, <1>13, <1>15, <1>16, <1>17, <1>18 DEF Sound
<1> QED
  BY <1>6, <1>19 DEF B, l

\* The owner of what fills the hole is reset: the row owns its block again.
LEMMA FilledSound ==
  ASSUME NEW A, NEW m, NEW h, NEW tn, NEW ix, Sound(A, m, h, tn, ix), HoleOf(A) # << >>, Fill(A) # << >>,
         OfOwners(A), \A u \in DOMAIN Twin(A) : Twin(A)[u] # Fill(A),
         NEW m2, m2 = MemPut(m, Fill(A), 0), NEW H, H = HeapPut(m, h, ix, Fill(A), 0)
  PROVE  Sound(Hole(A, << >>, << >>), m2, H, tn, ix)
<1> DEFINE o == HoleOf(A)
           l == Fill(A)
           v == ValueAt(m, h, ix, l)
           P == PlaceOf(m, ix, l)
           Q == PlaceOf(m, ix, o)
           B == Hole(A, << >>, << >>)
<1>1. /\ Typed(m, h, tn, ix) /\ Sorted(A) /\ Each(HeldAt(A, m, h, ix), Alive(h))
      /\ OwnersFit(A, m, h) /\ RowsFit(A, m, h, ix)
      /\ TwinsAgree(A, m, h, ix) /\ HoleAgrees(A, m, h, ix) /\ TurnsIn(A, tn)
  BY DEF Sound
<1>2. /\ Own(B) = Own(A) /\ Twin(B) = Twin(A) /\ HoleOf(B) = << >> /\ Fill(B) = << >>
      /\ Turns(B) = Turns(A)
  BY PointIs DEF Hole
<1> HIDE DEF B
<1>3. /\ Leads2(A, m, o) /\ Len(o) = 2 /\ HolePlace(A, m, ix) = {Q} /\ Q \in RowPlaces(h)
      /\ Q \notin Places(A, m, h, ix)
  BY HoleLeads
<1>4. Leads2(A, m, l) /\ SortAt(A, l) = "leaf" /\ ValueAt(m, h, ix, o) = v
  BY <1>1 DEF HoleAgrees
<1>5. 0 \in 0..Len(h) /\ 0 \notin Alive(h) /\ DOMAIN Own(A) \subseteq Names
  BY <1>1, HeldFacts DEF Sorted
<1>6. WasPut(m, h, ix, l, 0, m2, H)
  BY <1>4, <1>5, PutFacts
<1>7. At(m, h, P) = v /\ At(m, h, Q) = v
  BY <1>3, <1>4, LocFacts DEF LocIs
<1>8. P # Q => P \in Places(A, m, h, ix)
  BY <1>3, <1>4, PlaceIn
<1> HIDE DEF l, o, v, P, Q
<1>9. Alive(H) = Alive(h) /\ RowPlaces(H) = RowPlaces(h) /\ Typed(m2, H, tn, ix)
  BY <1>1, <1>6 DEF WasPut, Typed
<1>10. Places(B, m2, H, ix) = Places(A, m, h, ix) \cup {Q}
  <2>1. HolePlace(B, m2, ix) = {}
    BY <1>2 DEF HolePlace
  <2> QED
    BY <1>2, <1>3, <1>9, <2>1 DEF Places
<1>11. \A p \in Places(A, m, h, ix) \cup RowPlaces(h) : p # P => At(m2, H, p) = At(m, h, p)
  BY <1>4, <1>6, PutPlaces DEF P
<1>12. At(m2, H, P) = 0
  BY <1>6 DEF WasPut, P
<1>13. Each(HeldAt(B, m2, H, ix), Alive(H))
  <2> DEFINE f == HeldAt(A, m, h, ix)
             g == HeldAt(B, m2, H, ix)
  <2>1. DOMAIN f = Places(A, m, h, ix) /\ \A p \in Places(A, m, h, ix) : f[p] = At(m, h, p)
    BY DEF HeldAt
  <2>2. /\ DOMAIN g = Places(A, m, h, ix) \cup {Q}
        /\ \A p \in Places(A, m, h, ix) \cup {Q} : g[p] = At(m2, H, p)
    BY <1>10 DEF HeldAt
  <2>3. Each(f, Alive(h))
    BY <1>1
  <2> HIDE DEF f, g
  <2>4. \A p \in DOMAIN f : p # P => p \in DOMAIN g /\ g[p] = f[p]
    BY <1>11, <2>1, <2>2
  <2>5. Q \notin DOMAIN f /\ Q \in DOMAIN g
    BY <1>3, <2>1, <2>2
  <2>6. CASE P = Q
    <3>1. g[Q] = 0
      BY <1>12, <2>2, <2>6
    <3>2. \A p \in DOMAIN f : p # Q => g[p] = f[p]
      BY <2>4, <2>6
    <3>3. DOMAIN g = DOMAIN f \cup {Q}
      BY <2>1, <2>2
    <3>4. Each(g, Alive(h))
      BY <1>5, <2>3, <2>5, <3>1, <3>2, <3>3, EachZero
    <3> QED
      BY <1>9, <3>4 DEF g
  <2>7. CASE P # Q
    <3>1. P \in DOMAIN f /\ f[P] = v
      BY <1>7, <1>8, <2>1, <2>7
    <3>2. g[Q] = f[P]
      BY <1>3, <1>7, <1>11, <2>2, <2>7, <3>1
    <3>3. g[P] = 0
      BY <1>12, <2>1, <2>2, <3>1
    <3>4. DOMAIN g \subseteq DOMAIN f \cup {Q}
      BY <2>1, <2>2
    <3>5. Each(g, Alive(h))
      BY <1>5, <2>3, <2>4, <2>5, <3>1, <3>2, <3>3, <3>4, EachMoved
    <3> QED
      BY <1>9, <3>5 DEF g
  <2> QED
    BY <2>6, <2>7
<1>14. ASSUME NEW b \in Alive(h), NEW s \in Sorts PROVE Fits(H[b], s) <=> Fits(h[b], s)
  BY <1>6, HeldFacts DEF WasPut
<1>15. OwnersFit(B, m2, H)
  <2> SUFFICES ASSUME NEW y \in DOMAIN Own(A), m2[y] # 0 PROVE Fits(H[m2[y]], Own(A)[y])
    BY <1>2 DEF OwnersFit
  <2>1. At(m2, H, <<0, y>>) = m2[y] /\ At(m, h, <<0, y>>) = m[y] /\ <<0, y>> \in Places(A, m, h, ix)
    BY DEF At, Places
  <2>2. m2[y] = m[y]
    BY <1>11, <1>12, <2>1
  <2>3. m[y] \in Alive(h) /\ Own(A)[y] \in Sorts
    BY <1>1, <2>2, HeldFacts DEF Sorted
  <2> QED
    BY <1>1, <1>14, <2>2, <2>3 DEF OwnersFit
<1>16. RowsFit(B, m2, H, ix)
  <2> SUFFICES ASSUME NEW p \in RowPlaces(h), At(m2, H, p) # 0
               PROVE  Fits(H[At(m2, H, p)], "leaf")
    BY <1>9 DEF RowsFit
  <2>1. p # P /\ At(m2, H, p) = At(m, h, p)
    BY <1>11, <1>12
  <2>2. CASE p = Q
    <3>1. ValueAt(m, h, ix, l) # 0 /\ PlaceOf(m, ix, l) \notin HolePlace(A, m, ix)
      BY <1>3, <1>7, <2>1, <2>2 DEF v, P
    <3>2. Fits(h[v], "leaf") /\ v \in Alive(h)
      BY <1>4, <3>1, ValueFits DEF v
    <3> QED
      BY <1>7, <1>14, <2>1, <2>2, <3>2 DEF Sorts
  <2>3. CASE p # Q
    <3>1. p \in Places(A, m, h, ix) /\ p \in RowPlaces(h) \ HolePlace(A, m, ix)
      BY <1>3, <2>3 DEF Places
    <3>2. At(m, h, p) \in Alive(h)
      <4>1. p \in DOMAIN HeldAt(A, m, h, ix) /\ HeldAt(A, m, h, ix)[p] = At(m, h, p)
        BY <3>1 DEF HeldAt
      <4> QED
        BY <1>1, <2>1, <4>1 DEF Each
    <3>3. Fits(h[At(m, h, p)], "leaf")
      BY <1>1, <2>1, <3>1 DEF RowsFit
    <3> QED
      BY <1>14, <2>1, <3>2, <3>3 DEF Sorts
  <2> QED
    BY <2>2, <2>3
<1>17. ASSUME NEW e, NEW n PROVE Leads2(B, n, e) <=> Leads2(A, n, e)
  BY <1>2 DEF Leads2, Located, HasRows
<1>18. TwinsAgree(B, m2, H, ix)
  <2> SUFFICES ASSUME NEW u \in DOMAIN Twin(A)
               PROVE  /\ u \in Names \ DOMAIN Own(A) /\ Leads2(A, m2, Twin(A)[u])
                      /\ m2[u] = ValueAt(m2, H, ix, Twin(A)[u])
                      /\ Len(Twin(A)[u]) = 2 => OutsideHole(B, Twin(A)[u])
    BY <1>2, <1>17 DEF TwinsAgree
  <2> DEFINE e == Twin(A)[u]
  <2>1. /\ u \in Names \ DOMAIN Own(A) /\ Leads2(A, m, e) /\ m[u] = ValueAt(m, h, ix, e)
        /\ Len(e) = 1 /\ e # l
    BY <1>1 DEF TwinsAgree, OfOwners, l
  <2> HIDE DEF e
  <2>2. LocIs(A, m, h, ix, e) /\ LocIs(A, m, h, ix, l)
    BY <1>4, <2>1, LocFacts
  <2>3. Len(l) = 1 => e[1] # l[1]
    <3> SUFFICES ASSUME Len(l) = 1, e[1] = l[1] PROVE FALSE
      OBVIOUS
    <3>1. \A a, b : Len(<<a, b>>) # 1
      OBVIOUS
    <3>2. e = <<e[1]>> /\ l = <<l[1]>>
      BY <2>1, <2>2, <3>1 DEF LocIs, LocOwned
    <3> QED
      BY <2>1, <3>2
  <2>4. PlaceOf(m, ix, e) # PlaceOf(m, ix, l)
    <3> SUFFICES ASSUME PlaceOf(m, ix, e) = PlaceOf(m, ix, l) PROVE FALSE
      OBVIOUS
    <3>1. e[1] = l[1] /\ Len(e) = Len(l)
      BY <1>4, <2>1, PlacesDiffer
    <3> QED
      BY <2>1, <2>3, <3>1
  <2>5. Leads2(A, m2, e) /\ ValueAt(m2, H, ix, e) = ValueAt(m, h, ix, e)
    BY <1>4, <1>6, <2>1, <2>3, <2>4, PutElse
  <2>6. m2[u] = m[u]
    <3>1. <<0, u>> # PlaceOf(m, ix, l)
      BY <1>4, <2>1, NotAtPlace
    <3> QED
      BY <1>6, <2>1, <3>1 DEF WasPut
  <2> QED
    BY <2>1, <2>5, <2>6 DEF e
<1>19. HoleAgrees(B, m2, H, ix)
  BY <1>2 DEF HoleAgrees
<1>20. TurnsIn(B, tn)
  BY <1>1, <1>2 DEF TurnsIn
<1>21. Sorted(B)
  BY <1>1, <1>2 DEF Sorted
<1> QED
  BY <1>9, <1>13, <1>15, <1>16, <1>18, <1>19, <1>20, <1>21 DEF Sound, B

-----------------------------------------------------------------------------
\* Taking names out of a function leaves the others as they are.
LEMMA LessFacts ==
  ASSUME NEW f, NEW S
  PROVE  DOMAIN Less(f, S) = DOMAIN f \ S /\ \A x \in DOMAIN f \ S : Less(f, S)[x] = f[x]
BY DEF Less

LeftOf(A, S, B) ==
  /\ DOMAIN Own(B) = DOMAIN Own(A) \ S /\ \A x \in DOMAIN Own(B) : Own(B)[x] = Own(A)[x]
  /\ HoleOf(B) = HoleOf(A) /\ Fill(B) = Fill(A) /\ Turns(B) = Turns(A)
  /\ DOMAIN Twin(B) = {u \in DOMAIN Twin(A) : Twin(A)[u][1] \notin S}
  /\ \A u \in DOMAIN Twin(B) : Twin(B)[u] = Twin(A)[u]

\* What is left of a point is what there was.
LEMMA WithoutIs ==
  ASSUME NEW A, NEW S, NEW B, B = Without(A, S)
  PROVE  LeftOf(A, S, B)
<1>1. Own(B) = Less(Own(A), S)
  BY PointIs DEF Without
<1>2. HoleOf(B) = HoleOf(A) /\ Fill(B) = Fill(A) /\ Turns(B) = Turns(A)
  BY PointIs DEF Without
<1>3. Twin(B) = [u \in {u \in DOMAIN Twin(A) : Twin(A)[u][1] \notin S} |-> Twin(A)[u]]
  BY PointIs DEF Without
<1>4. DOMAIN Own(B) = DOMAIN Own(A) \ S /\ \A x \in DOMAIN Own(A) \ S : Own(B)[x] = Own(A)[x]
  <2>1. /\ DOMAIN Less(Own(A), S) = DOMAIN Own(A) \ S
        /\ \A x \in DOMAIN Own(A) \ S : Less(Own(A), S)[x] = Own(A)[x]
    BY LessFacts
  <2> QED
    BY <1>1, <2>1
<1> QED
  BY <1>2, <1>3, <1>4 DEF LeftOf

\* The blocks that a variable x owns.
Parts(m, h, x) ==
  IF m[x] = 0 THEN {} ELSE {m[x]} \cup {h[m[x]].rows[i] : i \in DOMAIN h[m[x]].rows}

\* The blocks of some owners are released, and none of them is left of.
LEMMA FreedSound ==
  ASSUME NEW A, NEW m, NEW h, NEW tn, NEW ix, Sound(A, m, h, tn, ix), NEW S, S \subseteq DOMAIN Own(A),
         HoleOf(A) # << >> => HoleOf(A)[1] \notin S /\ Fill(A) = << >>,
         NEW F, \A b : b # 0 => (b \in F <=> \E x \in S : b \in Parts(m, h, x))
  PROVE  Sound(Without(A, S), m, Freed(h, F), tn, ix)
<1> DEFINE B == Without(A, S)
           H == Freed(h, F)
           gone == {<<0, x>> : x \in S} \cup {p \in RowPlaces(h) : \E x \in S : p[1] = m[x]}
           N == Len(h)
           f == HeldAt(A, m, h, ix)
<1>1. /\ Typed(m, h, tn, ix) /\ Sorted(A) /\ Each(f, Alive(h))
      /\ OwnersFit(A, m, h) /\ RowsFit(A, m, h, ix)
      /\ TwinsAgree(A, m, h, ix) /\ HoleAgrees(A, m, h, ix) /\ TurnsIn(A, tn)
  BY DEF Sound
<1>2. /\ DOMAIN Own(B) = DOMAIN Own(A) \ S /\ \A x \in DOMAIN Own(B) : Own(B)[x] = Own(A)[x]
      /\ HoleOf(B) = HoleOf(A) /\ Fill(B) = Fill(A) /\ Turns(B) = Turns(A)
      /\ DOMAIN Twin(B) = {u \in DOMAIN Twin(A) : Twin(A)[u][1] \notin S}
      /\ \A u \in DOMAIN Twin(B) : Twin(B)[u] = Twin(A)[u]
  <2>1. LeftOf(A, S, B)
    BY WithoutIs
  <2> QED
    BY <2>1 DEF LeftOf
<1>3. /\ N \in Nat /\ DOMAIN h = 1..N /\ 0 \notin Alive(h) /\ Alive(h) \subseteq 1..N
      /\ h \in Seq(BlocksIn(N)) /\ DOMAIN Own(A) \subseteq Names
      /\ \A x \in DOMAIN Own(A) : m[x] = 0 \/ m[x] \in Alive(h)
      /\ \A x, y \in DOMAIN Own(A) : m[x] = m[y] => x = y \/ m[x] = 0
  BY <1>1, HeldFacts DEF Sorted, Typed
<1> HIDE DEF B
<1>4. /\ Len(H) = N /\ DOMAIN H = 1..N /\ H \in Seq(BlocksIn(N))
      /\ \A a \in 1..N : H[a].frame = h[a].frame /\ H[a].rows = h[a].rows
      /\ Alive(H) = Alive(h) \ F
  <2> HIDE DEF H, N
  <2>1. H = Freed(h, F) /\ Len(h) = N
    BY DEF H, N
  <2> QED
    BY <1>3, <2>1, FreedFacts
<1> HIDE DEF H, N
<1>0. \A b : b # 0 => (b \in F <=> \E x \in S : b \in Parts(m, h, x))
  OBVIOUS
<1>5. HolePlace(B, m, ix) = HolePlace(A, m, ix)
  BY <1>2 DEF HolePlace
<1>6. \A p \in HolePlace(A, m, ix) : p \notin gone
  <2> SUFFICES ASSUME NEW p \in HolePlace(A, m, ix), p \in gone PROVE FALSE
    OBVIOUS
  <2>1. /\ HoleOf(A) # << >> /\ p = <<m[HoleOf(A)[1]], ix[HoleOf(A)[2]]>>
        /\ HoleOf(A)[1] \in DOMAIN Own(A) /\ m[HoleOf(A)[1]] \in Alive(h)
    BY HoleIn DEF HolePlace
  <2>2. p[1] = m[HoleOf(A)[1]] /\ p[1] # 0
    BY <1>3, <2>1
  <2>3. \A x \in S : p # <<0, x>>
    BY <2>2
  <2>4. PICK x \in S : p[1] = m[x]
    BY <2>3
  <2> QED
    BY <1>3, <2>1, <2>2, <2>4
<1>7. ASSUME NEW p \in RowPlaces(h) PROVE p[1] \in Alive(h) /\ p[1] # 0 /\ p[2] \in DOMAIN h[p[1]].rows /\ p = <<p[1], p[2]>>
  BY <1>3 DEF RowPlaces
<1>8. gone \subseteq Places(A, m, h, ix)
  BY <1>6 DEF Places
<1>9. {f[p] : p \in gone} \ {0} = F \ {0}
  <2>1. ASSUME NEW p \in gone, f[p] # 0 PROVE f[p] \in F
    <3>1. f[p] = At(m, h, p)
      BY <1>8 DEF HeldAt
    <3>2. CASE \E x \in S : p = <<0, x>>
      <4>1. PICK x \in S : p = <<0, x>>
        BY <3>2
      <4>2. f[p] = m[x]
        BY <3>1, <4>1 DEF At
      <4>3. m[x] \in Parts(m, h, x)
        BY <2>1, <4>2 DEF Parts
      <4> QED
        BY <1>0, <2>1, <4>2, <4>3
    <3>3. CASE p \in RowPlaces(h) /\ \E x \in S : p[1] = m[x]
      <4>1. PICK x \in S : p[1] = m[x]
        BY <3>3
      <4>2. p[1] # 0 /\ p[2] \in DOMAIN h[p[1]].rows /\ f[p] = h[p[1]].rows[p[2]]
        BY <1>7, <3>1, <3>3 DEF At
      <4>3. f[p] \in Parts(m, h, x)
        BY <4>1, <4>2 DEF Parts
      <4> QED
        BY <1>0, <2>1, <4>3
    <3> QED
      BY <3>2, <3>3
  <2>2. ASSUME NEW b \in F, b # 0 PROVE \E p \in gone : f[p] = b
    <3>1. PICK x \in S : b \in Parts(m, h, x)
      BY <1>0, <2>2
    <3>2. m[x] # 0 /\ m[x] \in Alive(h)
      BY <1>3, <3>1 DEF Parts
    <3>3. CASE b = m[x]
      <4>1. <<0, x>> \in gone /\ At(m, h, <<0, x>>) = b
        BY <3>3 DEF At
      <4>2. f[<<0, x>>] = b
        BY <1>8, <4>1 DEF HeldAt
      <4> QED
        BY <4>1, <4>2
    <3>4. CASE b # m[x]
      <4>1. PICK i \in DOMAIN h[m[x]].rows : b = h[m[x]].rows[i]
        BY <3>1, <3>4 DEF Parts
      <4>2. <<m[x], i>> \in RowPlaces(h) /\ <<m[x], i>>[1] = m[x]
        BY <3>2 DEF RowPlaces
      <4>3. <<m[x], i>> \in gone /\ At(m, h, <<m[x], i>>) = b
        BY <3>2, <4>1, <4>2 DEF At
      <4>4. f[<<m[x], i>>] = b
        BY <1>8, <4>3 DEF HeldAt
      <4> QED
        BY <4>3, <4>4
    <3> QED
      BY <3>3, <3>4
  <2> HIDE DEF f, gone
  <2> QED
    BY <2>1, <2>2
<1>10. ASSUME NEW x \in S, m[x] # 0 PROVE m[x] \in F
  <2>1. m[x] \in Parts(m, h, x)
    BY <1>10 DEF Parts
  <2> QED
    BY <1>0, <1>10, <2>1
<1>11. ASSUME NEW b \in Alive(h), b \in F, NEW i \in DOMAIN h[b].rows PROVE \E x \in S : b = m[x]
  <2>1. b # 0
    BY <1>3
  <2>2. PICK x \in S : b \in Parts(m, h, x)
    BY <1>0, <1>11, <2>1
  <2> SUFFICES ASSUME b # m[x] PROVE FALSE
    OBVIOUS
  <2>3. m[x] # 0 /\ m[x] \in Alive(h)
    BY <1>3, <2>2 DEF Parts
  <2>4. PICK j \in DOMAIN h[m[x]].rows : b = h[m[x]].rows[j]
    BY <2>2 DEF Parts
  <2>5. <<m[x], j>> \in RowPlaces(h) /\ At(m, h, <<m[x], j>>) = b
    BY <2>3, <2>4 DEF RowPlaces, At
  <2>6. <<m[x], j>> \in gone
    BY <2>5
  <2>7. Fits(h[b], "leaf")
    BY <1>1, <1>6, <2>1, <2>5, <2>6 DEF RowsFit
  <2>8. DOMAIN h[b].rows = {}
    BY <2>7 DEF Fits
  <2> QED
    BY <2>8
<1>12. Places(B, m, H, ix) = Places(A, m, h, ix) \ gone
  <2>1. RowPlaces(H) = RowPlaces(h) \ gone
    <3>1. ASSUME NEW p \in RowPlaces(H) PROVE p \in RowPlaces(h) \ gone
      <4>1. PICK b \in Alive(H) : \E i \in DOMAIN H[b].rows : p = <<b, i>>
        BY DEF RowPlaces
      <4>2. PICK i \in DOMAIN H[b].rows : p = <<b, i>>
        BY <4>1
      <4>3. b \in Alive(h) /\ b \notin F /\ b # 0 /\ H[b].rows = h[b].rows
        BY <1>3, <1>4
      <4>4. p \in RowPlaces(h) /\ p[1] = b
        BY <4>2, <4>3 DEF RowPlaces
      <4>5. \A x \in S : p # <<0, x>> /\ b # m[x]
        BY <1>10, <4>2, <4>3
      <4> QED
        BY <4>4, <4>5
    <3>2. ASSUME NEW p \in RowPlaces(h), p \notin gone PROVE p \in RowPlaces(H)
      <4>1. PICK b \in Alive(h) : \E i \in DOMAIN h[b].rows : p = <<b, i>>
        BY DEF RowPlaces
      <4>2. PICK i \in DOMAIN h[b].rows : p = <<b, i>>
        BY <4>1
      <4>3. \A x \in S : b # m[x]
        <5>1. p[1] = b
          BY <4>2
        <5> QED
          BY <3>2, <5>1
      <4>4. b \notin F
        BY <1>11, <4>2, <4>3
      <4>5. b \in Alive(H) /\ H[b].rows = h[b].rows
        BY <1>3, <1>4, <4>4
      <4> QED
        BY <4>2, <4>5 DEF RowPlaces
    <3> HIDE DEF gone
    <3> QED
      BY <3>1, <3>2
  <2>2. {<<0, x>> : x \in DOMAIN Own(B)} = {<<0, x>> : x \in DOMAIN Own(A)} \ gone
    <3>1. ASSUME NEW x \in DOMAIN Own(B) PROVE <<0, x>> \notin gone
      <4>1. \A y \in S : <<0, x>> # <<0, y>>
        BY <1>2
      <4>2. <<0, x>> \notin RowPlaces(h)
        <5>1. <<0, x>>[1] = 0
          OBVIOUS
        <5> QED
          BY <1>7, <5>1
      <4> QED
        BY <4>1, <4>2
    <3>2. ASSUME NEW x \in DOMAIN Own(A), <<0, x>> \notin gone PROVE x \in DOMAIN Own(B)
      BY <1>2, <3>2
    <3> HIDE DEF gone
    <3> QED
      BY <1>2, <3>1, <3>2
  <2> HIDE DEF gone
  <2> QED
    BY <1>5, <2>1, <2>2 DEF Places
<1>13. ASSUME NEW p \in Places(A, m, h, ix) PROVE At(m, H, p) = At(m, h, p)
  <2>1. CASE \E x \in DOMAIN Own(A) : p = <<0, x>>
    BY <2>1 DEF At
  <2>2. CASE p \in RowPlaces(h)
    <3>1. p[1] \in 1..N /\ p[1] # 0
      BY <1>3, <1>7, <2>2
    <3>2. H[p[1]].rows = h[p[1]].rows
      BY <1>4, <3>1
    <3> QED
      BY <3>1, <3>2 DEF At
  <2> QED
    BY <2>1, <2>2 DEF Places
<1>14. Each(HeldAt(B, m, H, ix), Alive(H))
  <2> DEFINE g == HeldAt(B, m, H, ix)
  <2>1. DOMAIN f = Places(A, m, h, ix) /\ \A p \in Places(A, m, h, ix) : f[p] = At(m, h, p)
    BY DEF HeldAt
  <2>2. DOMAIN g = DOMAIN f \ gone /\ \A p \in DOMAIN g : g[p] = At(m, H, p)
    BY <1>12, <2>1 DEF HeldAt
  <2> HIDE DEF f, g, gone
  <2>3. gone \subseteq DOMAIN f /\ \A p \in DOMAIN g : g[p] = f[p]
    BY <1>8, <1>13, <2>1, <2>2
  <2>4. Each(g, Alive(h) \ {f[p] : p \in gone})
    BY <1>1, <1>3, <2>2, <2>3, EachParted
  <2>5. Alive(h) \ {f[p] : p \in gone} = Alive(H)
    <3>1. Alive(H) = Alive(h) \ F /\ 0 \notin Alive(h)
      BY <1>3, <1>4
    <3> DEFINE G == {f[p] : p \in gone}
    <3>2. G \ {0} = F \ {0}
      BY <1>9
    <3> HIDE DEF G
    <3>3. Alive(h) \ G = Alive(H)
      BY <3>1, <3>2
    <3> QED
      BY <3>3 DEF G
  <2> QED
    BY <2>4, <2>5 DEF g
<1>15. ASSUME NEW b \in Alive(h), NEW s PROVE Fits(H[b], s) <=> Fits(h[b], s)
  BY <1>3, <1>4 DEF Fits
<1>16. OwnersFit(B, m, H)
  BY <1>1, <1>2, <1>3, <1>15 DEF OwnersFit
<1>17. RowsFit(B, m, H, ix)
  <2> SUFFICES ASSUME NEW p \in RowPlaces(H) \ HolePlace(B, m, ix), At(m, H, p) # 0
               PROVE  Fits(H[At(m, H, p)], "leaf")
    BY DEF RowsFit
  <2>0. p \in Places(B, m, H, ix)
    BY DEF Places
  <2>1. p \in Places(A, m, h, ix)
    BY <1>12, <2>0
  <2>2. p \in RowPlaces(h)
    <3>1. PICK b \in Alive(H) : \E i \in DOMAIN H[b].rows : p = <<b, i>>
      BY DEF RowPlaces
    <3>2. b \in Alive(h) /\ H[b].rows = h[b].rows
      BY <1>3, <1>4
    <3> QED
      BY <3>1, <3>2 DEF RowPlaces
  <2>3. At(m, H, p) = At(m, h, p) /\ p \notin HolePlace(A, m, ix)
    BY <1>5, <1>13, <2>1
  <2>4. At(m, h, p) \in Alive(h)
    <3>1. p \in DOMAIN f /\ f[p] = At(m, h, p)
      BY <2>1 DEF HeldAt
    <3> QED
      BY <1>1, <2>3, <3>1 DEF Each
  <2>5. Fits(h[At(m, h, p)], "leaf")
    BY <1>1, <2>2, <2>3 DEF RowsFit
  <2> QED
    BY <1>15, <2>3, <2>4, <2>5
<1>18. ASSUME NEW e, Leads2(A, m, e), e[1] \notin S PROVE Leads2(B, m, e) /\ ValueAt(m, H, ix, e) = ValueAt(m, h, ix, e)
  <2>1. LocIs(A, m, h, ix, e)
    BY <1>18, LocFacts
  <2>2. e[1] \in DOMAIN Own(B) /\ Own(B)[e[1]] = Own(A)[e[1]]
    BY <1>2, <1>18, <2>1 DEF LocIs, LocOwned
  <2>3. CASE e = <<e[1]>>
    <3>1. Len(e) = 1
      BY <2>3
    <3> QED
      BY <2>2, <2>3, <3>1 DEF Leads2, Located, ValueAt
  <2>4. CASE e = <<e[1], e[2]>>
    <3>1. Len(e) = 2
      BY <2>4
    <3>2. LocRow(A, m, h, ix, e)
      BY <2>1, <3>1 DEF LocIs
    <3>3. Leads2(B, m, e)
      BY <1>18, <2>2, <2>4, <3>2 DEF Leads2, Located, LocRow, HasRows
    <3>4. H[m[e[1]]].rows = h[m[e[1]]].rows
      BY <1>4, <3>2 DEF LocRow, N
    <3> QED
      BY <3>1, <3>3, <3>4 DEF ValueAt
  <2> QED
    BY <2>1, <2>3, <2>4 DEF LocIs, LocOwned
<1>19. TwinsAgree(B, m, H, ix)
  <2>1. \A e : OutsideHole(B, e) <=> OutsideHole(A, e)
    BY <1>2 DEF OutsideHole
  <2> QED
    BY <1>1, <1>2, <1>18, <2>1 DEF TwinsAgree
<1>20. HoleAgrees(B, m, H, ix)
  BY <1>1, <1>2, <1>18 DEF HoleAgrees
<1>21. TurnsIn(B, tn) /\ Sorted(B)
  BY <1>1, <1>2 DEF TurnsIn, Sorted
<1>22. Typed(m, H, tn, ix)
  BY <1>1, <1>4 DEF Typed, N
<1>23. Sound(B, m, H, tn, ix)
  BY <1>14, <1>16, <1>17, <1>19, <1>20, <1>21, <1>22 DEF Sound
<1> QED
  BY <1>23 DEF B, H

\* A row's block is released; the row is a hole until it has the next one.
LEMMA RowFreedSound ==
  ASSUME NEW A, NEW m, NEW h, NEW tn, NEW ix, Sound(A, m, h, tn, ix), HoleOf(A) = << >>, OfOwners(A),
         NEW l, Leads2(A, m, l), Len(l) = 2,
         NEW F, \A b : b # 0 => (b \in F <=> b = ValueAt(m, h, ix, l))
  PROVE  Sound(Hole(A, l, << >>), m, Freed(h, F), tn, ix)
<1> DEFINE B == Hole(A, l, << >>)
           H == Freed(h, F)
           P == PlaceOf(m, ix, l)
           v == ValueAt(m, h, ix, l)
           N == Len(h)
           f == HeldAt(A, m, h, ix)
<1>1. /\ Typed(m, h, tn, ix) /\ Sorted(A) /\ Each(f, Alive(h))
      /\ OwnersFit(A, m, h) /\ RowsFit(A, m, h, ix)
      /\ TwinsAgree(A, m, h, ix) /\ TurnsIn(A, tn)
  BY DEF Sound
<1>2. Own(B) = Own(A) /\ Twin(B) = Twin(A) /\ HoleOf(B) = l /\ Fill(B) = << >> /\ Turns(B) = Turns(A)
  BY PointIs DEF Hole
<1>3. /\ N \in Nat /\ DOMAIN h = 1..N /\ 0 \notin Alive(h) /\ Alive(h) \subseteq 1..N
      /\ h \in Seq(BlocksIn(N)) /\ DOMAIN Own(A) \subseteq Names
      /\ \A x \in DOMAIN Own(A) : m[x] = 0 \/ m[x] \in Alive(h)
  BY <1>1, HeldFacts DEF Sorted, Typed
<1>4. HolePlace(A, m, ix) = {}
  BY DEF HolePlace
<1>5. LocIs(A, m, h, ix, l) /\ P \in Places(A, m, h, ix) /\ LocRow(A, m, h, ix, l) /\ l = <<l[1], l[2]>>
  <2>1. LocIs(A, m, h, ix, l) /\ P \in Places(A, m, h, ix)
    BY <1>4, LocFacts, PlaceIn
  <2>2. \A a : Len(<<a>>) # 2
    OBVIOUS
  <2> QED
    BY <2>1, <2>2 DEF LocIs, LocOwned
<1>6. P = <<m[l[1]], ix[l[2]]>> /\ P[1] = m[l[1]] /\ m[l[1]] # 0 /\ l # << >>
  <2>1. P = <<m[l[1]], ix[l[2]]>>
    BY DEF PlaceOf
  <2>2. m[l[1]] # 0
    BY <1>3, <1>5 DEF LocRow
  <2>3. \A a, b : <<a, b>> # << >> /\ <<a, b>>[1] = a
    OBVIOUS
  <2> HIDE DEF P
  <2> QED
    BY <1>5, <2>1, <2>2, <2>3
<1>7. v # 0 => v \in Alive(h) /\ DOMAIN h[v].rows = {}
  <2> SUFFICES ASSUME v # 0 PROVE v \in Alive(h) /\ DOMAIN h[v].rows = {}
    OBVIOUS
  <2>1. Fits(h[v], SortAt(A, l)) /\ v \in Alive(h)
    BY <1>4, ValueFits
  <2>2. Fits(h[v], "leaf")
    BY <2>1 DEF SortAt
  <2> QED
    BY <2>1, <2>2 DEF Fits
<1>8. f[P] = v /\ DOMAIN f = Places(A, m, h, ix) /\ \A p \in Places(A, m, h, ix) : f[p] = At(m, h, p)
  BY <1>5 DEF HeldAt, LocIs
<1>9. P \in RowPlaces(h)
  <2>1. DOMAIN h[m[l[1]]].rows = Slots
    BY <1>5 DEF LocRow
  <2> QED
    BY <1>5, <1>6, <2>1 DEF RowPlaces, LocRow
<1> HIDE DEF B
<1>10. /\ Len(H) = N /\ DOMAIN H = 1..N /\ H \in Seq(BlocksIn(N))
       /\ \A a \in 1..N : H[a].frame = h[a].frame /\ H[a].rows = h[a].rows
       /\ Alive(H) = Alive(h) \ F
  <2> HIDE DEF H, N
  <2>1. H = Freed(h, F) /\ Len(h) = N
    BY DEF H, N
  <2> QED
    BY <1>3, <2>1, FreedFacts
<1> HIDE DEF H, N, P, v
<1>11. HolePlace(B, m, ix) = {P}
  BY <1>2, <1>6 DEF HolePlace
<1>12. RowPlaces(H) = RowPlaces(h)
  <2>1. ASSUME NEW b \in Alive(h), NEW i \in DOMAIN h[b].rows PROVE b \notin F
    <3>1. b # 0 /\ (v # 0 => DOMAIN h[v].rows = {})
      BY <1>3, <1>7
    <3>2. b # v
      BY <3>1
    <3> QED
      BY <3>1, <3>2 DEF v
  <2>2. \A b \in Alive(h) : H[b].rows = h[b].rows
    BY <1>3, <1>10
  <2>3. Alive(H) \subseteq Alive(h) /\ \A b \in Alive(h) : b \notin F => b \in Alive(H)
    BY <1>10
  <2> QED
    BY <2>1, <2>2, <2>3 DEF RowPlaces
<1>13. Places(B, m, H, ix) = Places(A, m, h, ix) \ {P}
  <2>1. \A x : <<0, x>> # P
    BY <1>6
  <2> QED
    BY <1>2, <1>4, <1>11, <1>12, <2>1 DEF Places
<1>14. \A p \in RowPlaces(h) : p[1] # 0 /\ p[1] \in 1..N
  BY <1>3 DEF RowPlaces
<1>15. ASSUME NEW p \in Places(A, m, h, ix) PROVE At(m, H, p) = At(m, h, p)
  <2>1. CASE \E x \in DOMAIN Own(A) : p = <<0, x>>
    BY <2>1 DEF At
  <2>2. CASE p \in RowPlaces(h)
    BY <1>10, <1>14, <2>2 DEF At
  <2> QED
    BY <2>1, <2>2 DEF Places
<1>16. Each(HeldAt(B, m, H, ix), Alive(H))
  <2> DEFINE g == HeldAt(B, m, H, ix)
             gone == {P}
  <2>1. DOMAIN g = DOMAIN f \ {P} /\ \A p \in DOMAIN g : g[p] = At(m, H, p)
    BY <1>8, <1>13 DEF HeldAt
  <2> HIDE DEF f, g
  <2>2. gone \subseteq DOMAIN f /\ DOMAIN g = DOMAIN f \ gone /\ \A p \in DOMAIN g : g[p] = f[p]
    BY <1>5, <1>8, <1>15, <2>1
  <2> HIDE DEF gone
  <2>3. Each(g, Alive(h) \ {f[p] : p \in gone})
    BY <1>1, <1>3, <2>2, EachParted DEF f
  <2>4. {f[p] : p \in gone} = {v}
    BY <1>8 DEF gone
  <2>5. Alive(h) \ {v} = Alive(H)
    BY <1>3, <1>10 DEF v
  <2> QED
    BY <2>3, <2>4, <2>5 DEF g
<1>17. ASSUME NEW b \in Alive(h), NEW s PROVE Fits(H[b], s) <=> Fits(h[b], s)
  BY <1>3, <1>10 DEF Fits
<1>18. OwnersFit(B, m, H)
  BY <1>1, <1>2, <1>3, <1>17 DEF OwnersFit
<1>19. RowsFit(B, m, H, ix)
  <2> SUFFICES ASSUME NEW p \in RowPlaces(h), p # P, At(m, H, p) # 0 PROVE Fits(H[At(m, H, p)], "leaf")
    BY <1>11, <1>12 DEF RowsFit
  <2>1. p \in Places(A, m, h, ix)
    BY <1>4 DEF Places
  <2>2. At(m, H, p) = At(m, h, p)
    BY <1>15, <2>1
  <2>3. At(m, h, p) \in Alive(h)
    BY <1>1, <1>8, <2>1, <2>2 DEF Each
  <2>4. Fits(h[At(m, h, p)], "leaf")
    BY <1>1, <1>4, <2>2 DEF RowsFit
  <2> QED
    BY <1>17, <2>2, <2>3, <2>4
<1>20. ASSUME NEW e PROVE Leads2(B, m, e) <=> Leads2(A, m, e)
  BY <1>2 DEF Leads2, Located, HasRows
<1>21. ASSUME NEW e, Leads2(A, m, e) PROVE ValueAt(m, H, ix, e) = ValueAt(m, h, ix, e)
  <2>1. LocIs(A, m, h, ix, e)
    BY <1>21, LocFacts
  <2>2. CASE Len(e) = 2
    <3>1. H[m[e[1]]].rows = h[m[e[1]]].rows
      BY <1>10, <2>1, <2>2 DEF LocIs, LocRow, N
    <3> QED
      BY <3>1 DEF ValueAt
  <2>3. CASE Len(e) # 2
    <3>1. \A a, b : Len(<<a, b>>) = 2
      OBVIOUS
    <3>2. e = <<e[1]>>
      BY <2>1, <2>3, <3>1 DEF LocIs, LocOwned
    <3>3. Len(e) = 1
      BY <3>2
    <3> QED
      BY <3>3 DEF ValueAt
  <2> QED
    BY <2>2, <2>3
<1>22. TwinsAgree(B, m, H, ix)
  <2>1. \A u \in DOMAIN Twin(A) : Len(Twin(A)[u]) # 2
    BY DEF OfOwners
  <2> QED
    BY <1>1, <1>2, <1>20, <1>21, <2>1 DEF TwinsAgree
<1>23. HoleAgrees(B, m, H, ix)
  BY <1>2, <1>20 DEF HoleAgrees
<1>24. TurnsIn(B, tn) /\ Sorted(B) /\ Typed(m, H, tn, ix)
  BY <1>1, <1>2, <1>10 DEF TurnsIn, Sorted, Typed, N
<1>25. Sound(B, m, H, tn, ix)
  BY <1>16, <1>18, <1>19, <1>22, <1>23, <1>24 DEF Sound
<1> QED
  BY <1>25 DEF B, H

\* What a name owns passes to another that owns nothing.
LEMMA HandSound ==
  ASSUME NEW A, NEW m, NEW h, NEW tn, NEW ix, Sound(A, m, h, tn, ix), HoleOf(A) = << >>,
         NEW x, IsFree(A, x), NEW y \in DOMAIN Own(A)
  PROVE  Sound(Owns(Without(A, {y}), x, Own(A)[y]), [m EXCEPT ![x] = m[y]], h, tn, ix)
<1> DEFINE C == Without(A, {y})
           B == Owns(C, x, Own(A)[y])
           m2 == [m EXCEPT ![x] = m[y]]
           f == HeldAt(A, m, h, ix)
<1>1. /\ Typed(m, h, tn, ix) /\ Sorted(A) /\ Each(f, Alive(h))
      /\ OwnersFit(A, m, h) /\ RowsFit(A, m, h, ix)
      /\ TwinsAgree(A, m, h, ix) /\ TurnsIn(A, tn)
  BY DEF Sound
<1>2. LeftOf(A, {y}, C)
  BY WithoutIs
<1>3. /\ Own(B) = With(Own(C), x, Own(A)[y]) /\ Twin(B) = Twin(C) /\ HoleOf(B) = HoleOf(C)
      /\ Fill(B) = Fill(C) /\ Turns(B) = Turns(C)
  BY PointIs DEF Owns
<1>4. /\ x \in Names /\ x \notin DOMAIN Own(A) /\ x \notin DOMAIN Twin(A) /\ x # y
      /\ DOMAIN Own(A) \subseteq Names /\ m[y] \in 0..Len(h) /\ 0 \notin Alive(h) /\ y \in Names
  BY <1>1, HeldFacts DEF IsFree, Sorted
<1> HIDE DEF B, C
<1>5. DOMAIN Own(B) = (DOMAIN Own(A) \ {y}) \cup {x}
  <2>1. DOMAIN With(Own(C), x, Own(A)[y]) = DOMAIN Own(C) \cup {x}
    BY WithIn
  <2> QED
    BY <1>2, <1>3, <2>1 DEF LeftOf
<1>6. Own(B)[x] = Own(A)[y]
  <2>1. With(Own(C), x, Own(A)[y])[x] = Own(A)[y]
    BY WithAt
  <2> QED
    BY <1>3, <2>1
<1>7. ASSUME NEW z \in DOMAIN Own(A) \ {y} PROVE Own(B)[z] = Own(A)[z] /\ z # x
  <2>1. z # x /\ z \in DOMAIN Own(C) /\ Own(C)[z] = Own(A)[z]
    BY <1>2, <1>4 DEF LeftOf
  <2>2. With(Own(C), x, Own(A)[y])[z] = Own(C)[z]
    BY <2>1, WithElse
  <2> QED
    BY <1>3, <2>1, <2>2
<1>8. Stored(A, m, h, ix, x, m[y], m2)
  BY <1>4, Elsewhere
<1> HIDE DEF m2
<1>9. m2 \in [Names -> 0..Len(h)] /\ m2[x] = m[y] /\ \A z \in Names : z # x => m2[z] = m[z]
  BY <1>8 DEF Stored
<1>10. HoleOf(B) = << >> /\ HolePlace(B, m2, ix) = {} /\ HolePlace(A, m, ix) = {}
  BY <1>2, <1>3 DEF LeftOf, HolePlace
<1>11. \A p \in RowPlaces(h) : p[1] # 0 /\ At(m2, h, p) = At(m, h, p)
  <2>1. \A p \in RowPlaces(h) : p[1] # 0
    BY <1>4 DEF RowPlaces
  <2> QED
    BY <2>1 DEF At
<1>12. Each(HeldAt(B, m2, h, ix), Alive(h))
  <2> DEFINE g == HeldAt(B, m2, h, ix)
  <2>1. /\ DOMAIN f = {<<0, z>> : z \in DOMAIN Own(A)} \cup RowPlaces(h)
        /\ \A p \in DOMAIN f : f[p] = At(m, h, p)
    BY <1>10 DEF HeldAt, Places
  <2>2. /\ DOMAIN g = {<<0, z>> : z \in DOMAIN Own(B)} \cup RowPlaces(h)
        /\ \A p \in DOMAIN g : g[p] = At(m2, h, p)
    BY <1>10 DEF HeldAt, Places
  <2> HIDE DEF f, g
  <2>3. \A z : At(m, h, <<0, z>>) = m[z] /\ At(m2, h, <<0, z>>) = m2[z] /\ <<0, z>> \notin RowPlaces(h)
    <3>1. \A z : At(m, h, <<0, z>>) = m[z] /\ At(m2, h, <<0, z>>) = m2[z]
      BY DEF At
    <3>2. \A z : <<0, z>>[1] = 0
      OBVIOUS
    <3> QED
      BY <1>11, <3>1, <3>2
  <2>4. <<0, y>> \in DOMAIN f /\ <<0, x>> \in DOMAIN g /\ g[<<0, x>>] = f[<<0, y>>]
    BY <1>5, <1>9, <2>1, <2>2, <2>3
  <2>5. <<0, x>> \notin DOMAIN f
    BY <1>4, <2>1, <2>3
  <2>6. <<0, y>> \notin DOMAIN g
    BY <1>4, <1>5, <2>2, <2>3
  <2>7. DOMAIN g \subseteq DOMAIN f \cup {<<0, x>>}
    BY <1>5, <2>1, <2>2
  <2>8. ASSUME NEW p \in DOMAIN f, p # <<0, y>> PROVE p \in DOMAIN g /\ g[p] = f[p]
    <3>1. CASE \E z \in DOMAIN Own(A) : p = <<0, z>>
      <4>1. PICK z \in DOMAIN Own(A) : p = <<0, z>>
        BY <3>1
      <4>2. z # y /\ z # x /\ z \in Names
        BY <1>4, <2>8, <4>1
      <4>3. z \in DOMAIN Own(B) /\ m2[z] = m[z]
        BY <1>5, <1>9, <4>2
      <4>4. p \in DOMAIN g
        BY <2>2, <4>1, <4>3
      <4> QED
        BY <2>1, <2>2, <2>3, <4>1, <4>3, <4>4
    <3>2. CASE p \in RowPlaces(h)
      BY <1>11, <2>1, <2>2, <3>2
    <3> QED
      BY <2>1, <3>1, <3>2
  <2>9. Each(f, Alive(h))
    BY <1>1
  <2>10. Each(g, Alive(h))
    BY <1>4, <2>4, <2>5, <2>6, <2>7, <2>8, <2>9, EachMoved
  <2> QED
    BY <2>10 DEF g
<1>13. OwnersFit(B, m2, h)
  <2> SUFFICES ASSUME NEW z \in DOMAIN Own(B), m2[z] # 0 PROVE Fits(h[m2[z]], Own(B)[z])
    BY DEF OwnersFit
  <2>1. CASE z = x
    BY <1>1, <1>6, <1>9, <2>1 DEF OwnersFit
  <2>2. CASE z # x
    <3>1. z \in DOMAIN Own(A) \ {y} /\ z \in Names
      BY <1>4, <1>5, <2>2
    <3> QED
      BY <1>1, <1>7, <1>9, <2>2, <3>1 DEF OwnersFit
  <2> QED
    BY <2>1, <2>2
<1>14. RowsFit(B, m2, h, ix)
  BY <1>1, <1>10, <1>11 DEF RowsFit
<1>15. TwinsAgree(B, m2, h, ix)
  <2> SUFFICES ASSUME NEW u \in DOMAIN Twin(B)
               PROVE  /\ u \in Names \ DOMAIN Own(B) /\ Leads2(B, m2, Twin(B)[u])
                      /\ m2[u] = ValueAt(m2, h, ix, Twin(B)[u])
                      /\ Len(Twin(B)[u]) = 2 => OutsideHole(B, Twin(B)[u])
    BY DEF TwinsAgree
  <2> DEFINE e == Twin(A)[u]
  <2>1. u \in DOMAIN Twin(A) /\ Twin(B)[u] = e /\ e[1] # y
    BY <1>2, <1>3 DEF LeftOf
  <2>2. u \in Names \ DOMAIN Own(A) /\ Leads2(A, m, e) /\ m[u] = ValueAt(m, h, ix, e) /\ u # x
    BY <1>1, <1>4, <2>1 DEF TwinsAgree
  <2> HIDE DEF e
  <2>3. LocIs(A, m, h, ix, e)
    BY <2>2, LocFacts
  <2>4. m2[e[1]] = m[e[1]] /\ e[1] \in DOMAIN Own(B) /\ Own(B)[e[1]] = Own(A)[e[1]]
    BY <1>4, <1>5, <1>7, <1>9, <2>1, <2>3 DEF LocIs, LocOwned
  <2>5. ValueAt(m2, h, ix, e) = ValueAt(m, h, ix, e)
    BY <2>4 DEF ValueAt
  <2>6. Located(A, e) => Located(B, e)
    <3>1. CASE \E a \in DOMAIN Own(A) : e = <<a>>
      BY <2>4, <3>1 DEF Located
    <3>2. CASE \E a \in DOMAIN Own(A), k \in Keys : e = <<a, k>> /\ HasRows(A, a)
      BY <2>4, <3>2 DEF Located, HasRows
    <3> QED
      BY <3>1, <3>2 DEF Located
  <2>7. Leads2(B, m2, e)
    BY <2>2, <2>4, <2>6 DEF Leads2
  <2>8. u \notin DOMAIN Own(B) /\ m2[u] = m[u]
    BY <1>5, <1>9, <2>2
  <2>9. OutsideHole(B, e)
    BY <1>10 DEF OutsideHole
  <2> QED
    BY <2>1, <2>2, <2>5, <2>7, <2>8, <2>9
<1>16. HoleAgrees(B, m2, h, ix)
  BY <1>10 DEF HoleAgrees
<1>17. Sorted(B)
  <2>1. \A z \in DOMAIN Own(B) : z \in Names /\ Own(B)[z] \in Sorts
    BY <1>1, <1>4, <1>5, <1>6, <1>7 DEF Sorted
  <2> QED
    BY <2>1 DEF Sorted
<1>18. TurnsIn(B, tn) /\ Typed(m2, h, tn, ix)
  BY <1>1, <1>2, <1>3, <1>9 DEF LeftOf, TurnsIn, Typed
<1>19. Sound(B, m2, h, tn, ix)
  BY <1>12, <1>13, <1>14, <1>15, <1>16, <1>17, <1>18 DEF Sound
<1> QED
  BY <1>19 DEF B, C, m2

\* A new block for the hole.
LEMMA NewFillSound ==
  ASSUME NEW A, NEW m, NEW h, NEW tn, NEW ix, Sound(A, m, h, tn, ix), HoleOf(A) # << >>
  PROVE  Sound(Hole(A, << >>, << >>), MemPut(m, HoleOf(A), Len(h) + 1),
               HeapPut(m, Made(h, "leaf", FALSE), ix, HoleOf(A), Len(h) + 1), tn, ix)
<1> DEFINE N == Len(h)
           l == HoleOf(A)
           b == m[l[1]]
           i == ix[l[2]]
           g == Made(h, "leaf", FALSE)
           H == HeapPut(m, g, ix, l, N + 1)
           Q == PlaceOf(m, ix, l)
           B == Hole(A, << >>, << >>)
<1>1. /\ Typed(m, h, tn, ix) /\ Sorted(A) /\ Each(HeldAt(A, m, h, ix), Alive(h))
      /\ OwnersFit(A, m, h) /\ RowsFit(A, m, h, ix)
      /\ TwinsAgree(A, m, h, ix) /\ TurnsIn(A, tn)
  BY DEF Sound
<1>2. /\ Own(B) = Own(A) /\ Twin(B) = Twin(A) /\ HoleOf(B) = << >> /\ Fill(B) = << >>
      /\ Turns(B) = Turns(A)
  BY PointIs DEF Hole
<1> HIDE DEF B
<1>3. /\ Leads2(A, m, l) /\ Len(l) = 2 /\ HolePlace(A, m, ix) = {Q} /\ Q \in RowPlaces(h)
      /\ Q \notin Places(A, m, h, ix)
  BY HoleLeads
<1>4. /\ N \in Nat /\ DOMAIN h = 1..N /\ 0 \notin Alive(h) /\ Alive(h) \subseteq 1..N
      /\ h \in Seq(BlocksIn(N)) /\ DOMAIN Own(A) \subseteq Names /\ m \in [Names -> 0..N]
      /\ \A x \in DOMAIN Own(A) : m[x] = 0 \/ m[x] \in Alive(h)
  BY <1>1, HeldFacts DEF Sorted, Typed
<1>5. LocRow(A, m, h, ix, l) /\ LocOwned(A, l)
  BY <1>3, LocFacts DEF LocIs
<1>6. b \in Alive(h) /\ b \in 1..N /\ i \in Slots /\ h[b].rows \in [Slots -> 0..N] /\ Q = <<b, i>>
  BY <1>3, <1>5 DEF LocRow, PlaceOf
<1>7. /\ g \in Seq(BlocksIn(N + 1)) /\ Len(g) = N + 1 /\ g[N + 1] = Leaf
      /\ \A a \in 1..N : g[a] = h[a]
  <2>1. g = Append(h, Leaf)
    BY DEF Made
  <2>2. BlocksIn(N) \subseteq BlocksIn(N + 1)
    <3>1. 0..N \subseteq 0..N + 1
      BY <1>4
    <3>2. [Slots -> 0..N] \subseteq [Slots -> 0..N + 1]
      BY <3>1
    <3> QED
      BY <3>2 DEF BlocksIn
  <2>3. Leaf \in BlocksIn(N + 1)
    BY DEF Leaf, Block, BlocksIn
  <2>4. h \in Seq(BlocksIn(N + 1))
    BY <1>4, <2>2
  <2> DEFINE T == BlocksIn(N + 1)
             lf == Leaf
  <2>5. h \in Seq(T) /\ lf \in T /\ N \in Nat /\ Len(h) = N
    BY <1>4, <2>3, <2>4
  <2> HIDE DEF T, lf, N
  <2>6. /\ Append(h, lf) \in Seq(T) /\ Len(Append(h, lf)) = N + 1 /\ Append(h, lf)[N + 1] = lf
        /\ \A a \in 1..N : Append(h, lf)[a] = h[a]
    BY <2>5
  <2> QED
    BY <2>1, <2>6 DEF T, lf
<1>8. H = RowSet(g, b, i, N + 1)
  BY <1>3 DEF HeapPut
<1> DEFINE M == N + 1
<1>9. M \in Nat /\ b \in 1..M /\ M \in 0..M /\ Len(g) = M /\ g \in Seq(BlocksIn(M)) /\ DOMAIN g[b].rows = Slots
  <2>1. M \in Nat /\ b \in 1..M /\ M \in 0..M
    <3> HIDE DEF b
    <3> QED
      BY <1>4, <1>6
  <2>2. Len(g) = M /\ g \in Seq(BlocksIn(M))
    BY <1>7
  <2> HIDE DEF b, g
  <2>3. g[b] = h[b] /\ DOMAIN h[b].rows = Slots
    BY <1>6, <1>7
  <2> QED
    BY <2>1, <2>2, <2>3
<1> HIDE DEF M, g, H, b, i, N, Q, l
<1>10. /\ Len(H) = M /\ DOMAIN H = 1..M /\ H \in Seq(BlocksIn(M))
       /\ \A a \in 1..M : /\ H[a].alive = g[a].alive /\ H[a].frame = g[a].frame
                          /\ DOMAIN H[a].rows = DOMAIN g[a].rows
       /\ \A a \in 1..M : a # b => H[a] = g[a]
       /\ H[b].rows[i] = M
       /\ \A j \in Slots : j # i => H[b].rows[j] = g[b].rows[j]
  <2>1. H = RowSet(g, b, i, M)
    BY <1>8 DEF M
  <2>2. RowIsSet(g, H, M, b, i, M)
    BY <1>6, <1>9, <2>1, RowSetFacts
  <2> QED
    BY <2>2 DEF RowIsSet
<1>11. M = N + 1 /\ \A a : a \in 1..M <=> a \in 1..N \/ a = M
  BY <1>4 DEF M
<1>12. /\ \A a \in 1..N : /\ H[a].alive = h[a].alive /\ H[a].frame = h[a].frame
                         /\ DOMAIN H[a].rows = DOMAIN h[a].rows
       /\ \A a \in 1..N : a # b => H[a] = h[a]
       /\ \A j \in Slots : j # i => H[b].rows[j] = h[b].rows[j]
       /\ M # b /\ M \notin 1..N /\ M # 0
  BY <1>4, <1>6, <1>7, <1>10, <1>11
<1>13. H[M].alive /\ H[M].rows = << >> /\ ~H[M].frame
  BY <1>7, <1>10, <1>11, <1>12 DEF Leaf, Block
<1>14. Alive(H) = Alive(h) \cup {M}
  BY <1>4, <1>10, <1>11, <1>12, <1>13 DEF Alive
<1>15. RowPlaces(H) = RowPlaces(h)
  <2>1. \A a \in Alive(h) : DOMAIN H[a].rows = DOMAIN h[a].rows
    BY <1>4, <1>12
  <2>2. DOMAIN H[M].rows = {}
    BY <1>13
  <2> QED
    BY <1>14, <2>1, <2>2 DEF RowPlaces
<1>16. Places(B, m, H, ix) = Places(A, m, h, ix) \cup {Q}
  <2>1. HolePlace(B, m, ix) = {}
    BY <1>2 DEF HolePlace
  <2> QED
    BY <1>2, <1>3, <1>15, <2>1 DEF Places
<1>17. ASSUME NEW a \in 1..N, NEW j \in DOMAIN h[a].rows, <<a, j>> # Q PROVE H[a].rows[j] = h[a].rows[j]
  <2>1. CASE a = b
    BY <1>6, <1>12, <1>17, <2>1
  <2>2. CASE a # b
    BY <1>12, <2>2
  <2> QED
    BY <2>1, <2>2
<1>18. ASSUME NEW p \in Places(A, m, h, ix) PROVE At(m, H, p) = At(m, h, p)
  <2>1. CASE \E x \in DOMAIN Own(A) : p = <<0, x>>
    BY <2>1 DEF At
  <2>2. CASE p \in RowPlaces(h)
    <3>1. PICK a \in Alive(h) : \E j \in DOMAIN h[a].rows : p = <<a, j>>
      BY <2>2 DEF RowPlaces
    <3>2. PICK j \in DOMAIN h[a].rows : p = <<a, j>>
      BY <3>1
    <3>3. a \in 1..N /\ a # 0
      BY <1>4
    <3>4. H[a].rows[j] = h[a].rows[j]
      BY <1>3, <1>17, <3>2, <3>3
    <3> QED
      BY <3>2, <3>3, <3>4 DEF At
  <2> QED
    BY <2>1, <2>2 DEF Places
<1>19. At(m, H, Q) = M
  <2>1. Q[1] = b /\ Q[2] = i /\ b # 0
    BY <1>4, <1>6
  <2> QED
    BY <1>10, <2>1 DEF At
<1>20. Each(HeldAt(B, m, H, ix), Alive(H))
  <2> DEFINE f == HeldAt(A, m, h, ix)
             at == HeldAt(B, m, H, ix)
             k == [p \in {Q} |-> M]
             G == {M}
  <2>1. DOMAIN f = Places(A, m, h, ix) /\ \A p \in DOMAIN f : f[p] = At(m, h, p)
    BY DEF HeldAt
  <2>2. DOMAIN at = Places(A, m, h, ix) \cup {Q} /\ \A p \in DOMAIN at : at[p] = At(m, H, p)
    BY <1>16 DEF HeldAt
  <2>3. DOMAIN k = {Q} /\ k[Q] = M
    OBVIOUS
  <2> HIDE DEF f, at, k
  <2>4. Each(k, G)
    BY <2>3 DEF Each
  <2>5. 0 \notin Alive(h) /\ 0 \notin G /\ Alive(h) \cap G = {}
    BY <1>4, <1>12
  <2>6. DOMAIN f \cap DOMAIN k = {} /\ DOMAIN at = DOMAIN f \cup DOMAIN k
    BY <1>3, <2>1, <2>2, <2>3
  <2>7. (\A p \in DOMAIN f : at[p] = f[p]) /\ \A p \in DOMAIN k : at[p] = k[p]
    BY <1>18, <1>19, <2>1, <2>2, <2>3
  <2>8. Each(f, Alive(h))
    BY <1>1 DEF f
  <2> HIDE DEF G
  <2>9. Each(at, Alive(h) \cup G)
    BY <2>4, <2>5, <2>6, <2>7, <2>8, EachJoined
  <2> QED
    BY <1>14, <2>9 DEF at, G
<1>21. ASSUME NEW a \in Alive(h), NEW s \in Sorts PROVE Fits(H[a], s) <=> Fits(h[a], s)
  <2>1. a \in 1..N
    BY <1>4
  <2>2. CASE a = b
    <3>1. DOMAIN H[a].rows = Slots /\ DOMAIN h[a].rows = Slots /\ H[a].frame = h[a].frame
      BY <1>6, <1>12, <2>2
    <3>2. H[a].rows # << >> /\ h[a].rows # << >>
      BY <3>1, SlotsAssumption
    <3> QED
      BY <3>1, <3>2 DEF Fits
  <2>3. CASE a # b
    BY <1>12, <2>1, <2>3
  <2> QED
    BY <2>2, <2>3
<1>22. OwnersFit(B, m, H)
  BY <1>1, <1>2, <1>4, <1>21 DEF OwnersFit, Sorted
<1>23. RowsFit(B, m, H, ix)
  <2> SUFFICES ASSUME NEW p \in RowPlaces(h), At(m, H, p) # 0 PROVE Fits(H[At(m, H, p)], "leaf")
    BY <1>15 DEF RowsFit
  <2>1. CASE p = Q
    BY <1>13, <1>19, <2>1 DEF Fits
  <2>2. CASE p # Q
    <3>1. p \in Places(A, m, h, ix) /\ p \in RowPlaces(h) \ HolePlace(A, m, ix)
      BY <1>3, <2>2 DEF Places
    <3>2. At(m, H, p) = At(m, h, p)
      BY <1>18, <3>1
    <3>3. At(m, h, p) \in Alive(h)
      <4>1. p \in DOMAIN HeldAt(A, m, h, ix) /\ HeldAt(A, m, h, ix)[p] = At(m, h, p)
        BY <3>1 DEF HeldAt
      <4> QED
        BY <1>1, <3>2, <4>1 DEF Each
    <3>4. Fits(h[At(m, h, p)], "leaf")
      BY <1>1, <3>1, <3>2 DEF RowsFit
    <3> QED
      BY <1>21, <3>2, <3>3, <3>4 DEF Sorts
  <2> QED
    BY <2>1, <2>2
<1>24. ASSUME NEW e PROVE Leads2(B, m, e) <=> Leads2(A, m, e)
  BY <1>2 DEF Leads2, Located, HasRows
<1>25. TwinsAgree(B, m, H, ix)
  <2> SUFFICES ASSUME NEW u \in DOMAIN Twin(A)
               PROVE  /\ u \in Names \ DOMAIN Own(A) /\ Leads2(A, m, Twin(A)[u])
                      /\ m[u] = ValueAt(m, H, ix, Twin(A)[u])
    BY <1>2, <1>24 DEF TwinsAgree, OutsideHole
  <2> DEFINE e == Twin(A)[u]
  <2>1. /\ u \in Names \ DOMAIN Own(A) /\ Leads2(A, m, e) /\ m[u] = ValueAt(m, h, ix, e)
        /\ Len(e) = 2 => OutsideHole(A, e)
    BY <1>1 DEF TwinsAgree
  <2> HIDE DEF e
  <2>2. LocIs(A, m, h, ix, e)
    BY <2>1, LocFacts
  <2>3. ValueAt(m, H, ix, e) = ValueAt(m, h, ix, e)
    <3>1. CASE e = <<e[1]>>
      <4>1. Len(e) = 1
        BY <3>1
      <4> QED
        BY <4>1 DEF ValueAt
    <3>2. CASE e = <<e[1], e[2]>>
      <4>1. Len(e) = 2
        BY <3>2
      <4>2. /\ m[e[1]] \in 1..N /\ ix[e[2]] \in Slots /\ DOMAIN h[m[e[1]]].rows = Slots
        BY <2>2, <4>1 DEF LocIs, LocRow, N
      <4>3. PlaceOf(m, ix, e) \notin HolePlace(A, m, ix)
        BY <2>1, <4>1, PlaceOutside
      <4>4. PlaceOf(m, ix, e) = <<m[e[1]], ix[e[2]]>>
        BY <4>1 DEF PlaceOf
      <4>5. H[m[e[1]]].rows[ix[e[2]]] = h[m[e[1]]].rows[ix[e[2]]]
        BY <1>3, <1>17, <4>2, <4>3, <4>4
      <4> QED
        BY <4>1, <4>5 DEF ValueAt
    <3> QED
      BY <2>2, <3>1, <3>2 DEF LocIs, LocOwned
  <2> QED
    BY <2>1, <2>3 DEF e
<1>26. HoleAgrees(B, m, H, ix)
  BY <1>2 DEF HoleAgrees
<1>27. TurnsIn(B, tn) /\ Sorted(B)
  BY <1>1, <1>2 DEF TurnsIn, Sorted
<1>28. Typed(m, H, tn, ix)
  <2>1. 0..N \subseteq 0..M
    BY <1>4, <1>11
  <2>2. m \in [Names -> 0..M]
    BY <1>4, <2>1
  <2> QED
    BY <1>1, <1>10, <2>2 DEF Typed
<1>29. Sound(B, m, H, tn, ix)
  BY <1>20, <1>22, <1>23, <1>25, <1>26, <1>27, <1>28 DEF Sound
<1>30. MemPut(m, l, N + 1) = m
  BY <1>3 DEF MemPut
<1> QED
  BY <1>29, <1>30 DEF B, H, g, N, l

-----------------------------------------------------------------------------
\* Sequences put together.

LEMMA JoinedIs ==
  ASSUME NEW S, NEW s \in Seq(S), NEW t \in Seq(S)
  PROVE  /\ s \o t \in Seq(S) /\ Len(s \o t) = Len(s) + Len(t) /\ ToSet(s \o t) = ToSet(s) \cup ToSet(t)
         /\ \A i \in 1..Len(s) : (s \o t)[i] = s[i]
         /\ \A i \in 1..Len(t) : (s \o t)[Len(s) + i] = t[i]
<1>1. /\ s \o t \in Seq(S) /\ Len(s \o t) = Len(s) + Len(t)
      /\ \A i \in 1..Len(s) : (s \o t)[i] = s[i]
      /\ \A i \in 1..Len(t) : (s \o t)[Len(s) + i] = t[i]
  OBVIOUS
<1>2. ASSUME NEW i \in 1..Len(s \o t) PROVE (s \o t)[i] \in ToSet(s) \cup ToSet(t)
  <2>1. CASE i \in 1..Len(s)
    BY <1>1, <2>1 DEF ToSet
  <2>2. CASE i \notin 1..Len(s)
    <3>1. i - Len(s) \in 1..Len(t) /\ i = Len(s) + (i - Len(s))
      BY <1>1, <2>2
    <3> QED
      BY <1>1, <3>1 DEF ToSet
  <2> QED
    BY <2>1, <2>2
<1>3. \A i \in 1..Len(s) : i \in 1..Len(s \o t)
  BY <1>1
<1>4. \A i \in 1..Len(t) : Len(s) + i \in 1..Len(s \o t)
  BY <1>1
<1>5. ToSet(s \o t) = ToSet(s) \cup ToSet(t)
  <2>1. DOMAIN (s \o t) = 1..Len(s \o t) /\ DOMAIN s = 1..Len(s) /\ DOMAIN t = 1..Len(t)
    OBVIOUS
  <2> DEFINE j == s \o t
  <2> HIDE DEF j
  <2>2. DOMAIN j = 1..Len(j) /\ \A i \in 1..Len(j) : j[i] \in ToSet(s) \cup ToSet(t)
    BY <1>2, <2>1 DEF j
  <2>3. \A i \in 1..Len(s) : i \in 1..Len(j) /\ j[i] = s[i]
    BY <1>1, <1>3 DEF j
  <2>4. \A i \in 1..Len(t) : Len(s) + i \in 1..Len(j) /\ j[Len(s) + i] = t[i]
    BY <1>1, <1>4 DEF j
  <2>5. ToSet(j) = ToSet(s) \cup ToSet(t)
    <3>1. \A x : x \in ToSet(j) <=> \E i \in 1..Len(j) : x = j[i]
      BY <2>2 DEF ToSet
    <3>2. \A x : x \in ToSet(s) <=> \E i \in 1..Len(s) : x = s[i]
      BY <2>1 DEF ToSet
    <3>3. \A x : x \in ToSet(t) <=> \E i \in 1..Len(t) : x = t[i]
      BY <2>1 DEF ToSet
    <3>4. ASSUME NEW x \in ToSet(j) PROVE x \in ToSet(s) \cup ToSet(t)
      BY <2>2, <3>1
    <3>5. ASSUME NEW x \in ToSet(s) PROVE x \in ToSet(j)
      BY <2>3, <3>1, <3>2
    <3>6. ASSUME NEW x \in ToSet(t) PROVE x \in ToSet(j)
      BY <2>4, <3>1, <3>3
    <3> QED
      BY <3>4, <3>5, <3>6
  <2> QED
    BY <2>5 DEF j
<1> QED
  BY <1>1, <1>5

\* Two sequences without repetition and with nothing in common make one without
\* repetition.
LEMMA JoinedInjective ==
  ASSUME NEW S, NEW s \in Seq(S), NEW t \in Seq(S), IsInjective(s), IsInjective(t), ToSet(s) \cap ToSet(t) = {}
  PROVE  IsInjective(s \o t)
<1> DEFINE j == s \o t
<1>1. /\ DOMAIN j = 1..Len(s) + Len(t) /\ Len(s) \in Nat /\ Len(t) \in Nat
      /\ DOMAIN s = 1..Len(s) /\ DOMAIN t = 1..Len(t)
      /\ \A i \in 1..Len(s) : j[i] = s[i]
      /\ \A i \in 1..Len(t) : j[Len(s) + i] = t[i]
  OBVIOUS
<1> HIDE DEF j
<1>2. ASSUME NEW i \in DOMAIN j
      PROVE  \/ i \in DOMAIN s /\ j[i] = s[i] /\ j[i] \in ToSet(s)
             \/ i - Len(s) \in DOMAIN t /\ j[i] = t[i - Len(s)] /\ j[i] \in ToSet(t)
  <2>1. CASE i \in 1..Len(s)
    BY <1>1, <2>1 DEF ToSet
  <2>2. CASE i \notin 1..Len(s)
    <3>1. i - Len(s) \in 1..Len(t) /\ i = Len(s) + (i - Len(s))
      BY <1>1, <2>2
    <3> QED
      BY <1>1, <3>1 DEF ToSet
  <2> QED
    BY <2>1, <2>2
<1>3. ASSUME NEW a \in DOMAIN j, NEW b \in DOMAIN j, j[a] = j[b] PROVE a = b
  <2>1. CASE a \in DOMAIN s /\ j[a] = s[a] /\ j[a] \in ToSet(s)
    <3>1. b \in DOMAIN s /\ j[b] = s[b]
      BY <1>2, <1>3, <2>1
    <3> QED
      BY <1>3, <2>1, <3>1 DEF IsInjective
  <2>2. CASE a - Len(s) \in DOMAIN t /\ j[a] = t[a - Len(s)] /\ j[a] \in ToSet(t)
    <3>1. b - Len(s) \in DOMAIN t /\ j[b] = t[b - Len(s)]
      BY <1>2, <1>3, <2>2
    <3>2. a - Len(s) = b - Len(s)
      BY <1>3, <2>2, <3>1 DEF IsInjective
    <3> QED
      BY <1>1, <3>2
  <2> QED
    BY <1>2, <2>1, <2>2
<1> QED
  BY <1>3 DEF j, IsInjective

\* What is flattened is what its parts are.
LEMMA FlattenedIs ==
  ASSUME NEW S, NEW ss \in Seq(Seq(S))
  PROVE  /\ FlattenSeq(ss) \in Seq(S)
         /\ \A x : x \in ToSet(FlattenSeq(ss)) <=> \E i \in 1..Len(ss) : x \in ToSet(ss[i])
         /\ (/\ \A i \in 1..Len(ss) : IsInjective(ss[i])
             /\ \A i, j \in 1..Len(ss) : i # j => ToSet(ss[i]) \cap ToSet(ss[j]) = {})
            => IsInjective(FlattenSeq(ss))
<1> DEFINE Apart == /\ \A i \in 1..Len(ss) : IsInjective(ss[i])
                    /\ \A i, j \in 1..Len(ss) : i # j => ToSet(ss[i]) \cap ToSet(ss[j]) = {}
<1>1. CASE Len(ss) = 0
  <2>1. ss = << >> /\ FlattenSeq(ss) = << >>
    BY <1>1 DEF FlattenSeq
  <2>2. \A x : x \notin ToSet(<< >>)
    BY DEF ToSet
  <2>3. IsInjective(<< >>)
    BY DEF IsInjective
  <2>4. << >> \in Seq(S) /\ 1..0 = {}
    OBVIOUS
  <2> QED
    BY <1>1, <2>1, <2>2, <2>3, <2>4
<1>2. CASE Len(ss) # 0
  <2>1. PICK f : /\ \A i \in 1..Len(ss) : f[i] = IF i = 1 THEN ss[i] ELSE f[i - 1] \o ss[i]
                 /\ FlattenSeq(ss) = f[Len(ss)]
    BY <1>2, FlattenedSteps
  <2>2. Len(ss) \in Nat /\ \A i \in 1..Len(ss) : ss[i] \in Seq(S)
    OBVIOUS
  <2> DEFINE Good(k) == /\ f[k] \in Seq(S)
                        /\ \A x : x \in ToSet(f[k]) <=> \E i \in 1..k : x \in ToSet(ss[i])
                        /\ Apart => IsInjective(f[k])
             T == {k \in 1..Len(ss) : ~Good(k)}
  <2>3. T = {}
    <3> SUFFICES ASSUME T # {} PROVE FALSE
      OBVIOUS
    <3>1. T \in SUBSET Nat
      OBVIOUS
    <3>2. PICK k \in T : \A j \in T : k <= j
      <4> HIDE DEF T
      <4> QED
        BY <3>1, LeastNat
    <3>3. k \in 1..Len(ss) /\ ~Good(k)
      OBVIOUS
    <3>4. k # 1
      <4>1. f[1] = ss[1] /\ 1..1 = {1}
        BY <1>2, <2>1, <2>2
      <4>2. Good(1)
        BY <1>2, <2>2, <4>1
      <4> QED
        BY <3>3, <4>2
    <3>5. k - 1 \in 1..Len(ss) /\ k - 1 < k
      BY <2>2, <3>3, <3>4
    <3>6. Good(k - 1)
      <4>1. k - 1 \notin T
        <5> HIDE DEF T
        <5> QED
          BY <3>2, <3>5, <3>1
      <4> HIDE DEF Good
      <4> QED
        BY <3>5, <4>1
    <3>7. f[k] = f[k - 1] \o ss[k]
      BY <2>1, <3>3, <3>4
    <3> DEFINE s == f[k - 1]
               t == ss[k]
    <3>8. s \in Seq(S) /\ t \in Seq(S)
      BY <2>2, <3>3, <3>6
    <3>9. \A i : i \in 1..k <=> i \in 1..k - 1 \/ i = k
      BY <3>3
    <3>10. f[k] \in Seq(S) /\ ToSet(f[k]) = ToSet(s) \cup ToSet(t)
      BY <3>7, <3>8, JoinedIs
    <3>11. \A x : x \in ToSet(f[k]) <=> \E i \in 1..k : x \in ToSet(ss[i])
      BY <3>6, <3>9, <3>10
    <3>12. Apart => IsInjective(f[k])
      <4> SUFFICES ASSUME Apart PROVE IsInjective(f[k])
        OBVIOUS
      <4>1. \A i \in 1..k - 1 : i # k /\ i \in 1..Len(ss)
        BY <2>2, <3>3
      <4>2. ToSet(s) \cap ToSet(t) = {}
        BY <3>3, <3>6, <4>1
      <4>3. IsInjective(s) /\ IsInjective(t)
        BY <3>3, <3>6
      <4> HIDE DEF s, t
      <4>4. IsInjective(s \o t)
        BY <3>8, <4>2, <4>3, JoinedInjective
      <4> QED
        BY <3>7, <4>4 DEF s, t
    <3> QED
      BY <3>3, <3>10, <3>11, <3>12
  <2>4. Good(Len(ss))
    <3>1. Len(ss) \in 1..Len(ss)
      BY <1>2, <2>2
    <3> HIDE DEF Good
    <3> QED
      BY <2>3, <3>1
  <2> QED
    BY <2>1, <2>4
<1> QED
  BY <1>1, <1>2

\* Sequences of up to two.
LEMMA FlattenedNone == ASSUME NEW ss, ss = << >> PROVE FlattenSeq(ss) = << >>
BY DEF FlattenSeq

\* A sequence of one flattens to that one, ...
LEMMA FlattenedOne ==
  ASSUME NEW S, NEW ss \in Seq(Seq(S)), Len(ss) = 1
  PROVE  FlattenSeq(ss) = ss[1]
<1>1. PICK f : /\ \A i \in 1..Len(ss) : f[i] = IF i = 1 THEN ss[i] ELSE f[i - 1] \o ss[i]
               /\ FlattenSeq(ss) = f[Len(ss)]
  <2>1. Len(ss) # 0
    OBVIOUS
  <2> QED
    BY <2>1, FlattenedSteps
<1> QED
  BY <1>1

\* ... and a sequence of two to the one followed by the other.
LEMMA FlattenedTwo ==
  ASSUME NEW S, NEW ss \in Seq(Seq(S)), Len(ss) = 2
  PROVE  FlattenSeq(ss) = ss[1] \o ss[2]
<1>1. PICK f : /\ \A i \in 1..Len(ss) : f[i] = IF i = 1 THEN ss[i] ELSE f[i - 1] \o ss[i]
               /\ FlattenSeq(ss) = f[Len(ss)]
  <2>1. Len(ss) # 0
    OBVIOUS
  <2> QED
    BY <2>1, FlattenedSteps
<1>2. f[1] = ss[1]
  BY <1>1
<1>3. f[2] = f[1] \o ss[2]
  BY <1>1
<1> QED
  BY <1>1, <1>2, <1>3

-----------------------------------------------------------------------------
\* The statement that is executed, and what it reads, writes and releases.

LEMMA SlotIs == ASSUME NEW k \in Keys PROVE SlotOf(k) = index[k]
BY SlotsAssumption DEF SlotOf

\* A location is a variable or a row of one.
LEMMA LocLen ==
  ASSUME NEW A, NEW l, Located(A, l)
  PROVE  (Len(l) = 1 \/ Len(l) = 2) /\ (Len(l) = 2 => l[2] \in Keys) /\ l # << >> /\ l[1] \in DOMAIN Own(A)
<1>1. CASE \E x \in DOMAIN Own(A) : l = <<x>>
  BY <1>1
<1>2. CASE \E x \in DOMAIN Own(A), k \in Keys : l = <<x, k>> /\ HasRows(A, x)
  BY <1>2
<1> QED
  BY <1>1, <1>2 DEF Located

\* A statement that follows no null pointer leads to a place with both its operands.
LEMMA FollowsIs ==
  ASSUME NEW A, ~FollowsNull, NEW l \in {c.to, c.from}, Located(A, l)
  PROVE  Leads2(A, mem, l)
<1>1. l \in Locations
  BY LocLen DEF Locations
<1>2. Len(l) = 2 => mem[l[1]] # 0
  BY <1>1 DEF FollowsNull, Holder
<1> QED
  BY <1>2 DEF Leads2

\* What OwnedRun reads and writes at a location is what it is at the location's place.
LEMMA ValueIs ==
  ASSUME NEW A, NEW l, Located(A, l)
  PROVE  /\ Value(l) = ValueAt(mem, heap, index, l)
         /\ \A v : MemWith(l, v) = MemPut(mem, l, v)
         /\ \A h, v : HeapWith(h, l, v) = HeapPut(mem, h, index, l, v)
<1>1. Len(l) = 2 => SlotOf(l[2]) = index[l[2]]
  BY LocLen, SlotIs
<1>2. Value(l) = ValueAt(mem, heap, index, l)
  BY <1>1, LocLen DEF Value, ValueAt
<1>3. \A v : MemWith(l, v) = MemPut(mem, l, v)
  BY DEF MemWith, MemPut
<1>4. \A h, v : HeapWith(h, l, v) = HeapPut(mem, h, index, l, v)
  BY <1>1 DEF HeapWith, HeapPut, RowSet
<1> QED
  BY <1>2, <1>3, <1>4

\* A block and the blocks of its rows.
Owned2(v, b) == v # 0 /\ (b = v \/ (b # 0 /\ \E i \in DOMAIN heap[v].rows : b = heap[v].rows[i]))

\* The sequence of a block and its rows' blocks holds just these, each once if the rows
\* hold different ones.
LEMMA WithRowsIs ==
  ASSUME heap \in Seq(BlocksIn(Len(heap))), NEW v \in 0..Len(heap)
  PROVE  /\ WithRows(v) \in Seq(Nat)
         /\ \A b : b \in ToSet(WithRows(v)) <=> Owned2(v, b)
         /\ (v # 0 =>
              /\ \A i, j \in DOMAIN heap[v].rows : heap[v].rows[i] = heap[v].rows[j] => i = j \/ heap[v].rows[i] = 0
              /\ \A i \in DOMAIN heap[v].rows : heap[v].rows[i] # v)
            => IsInjective(WithRows(v))
<1>1. CASE v = 0
  <2>1. WithRows(v) = << >>
    BY <1>1 DEF WithRows
  <2>2. (\A b : b \notin ToSet(<< >>)) /\ IsInjective(<< >>)
    BY DEF ToSet, IsInjective
  <2>3. \A b : ~Owned2(v, b)
    BY <1>1 DEF Owned2
  <2>4. << >> \in Seq(Nat)
    OBVIOUS
  <2> HIDE DEF Owned2
  <2>5. \A b : b \in ToSet(WithRows(v)) <=> Owned2(v, b)
    BY <2>1, <2>2, <2>3
  <2>6. IsInjective(WithRows(v)) /\ WithRows(v) \in Seq(Nat)
    BY <2>1, <2>2, <2>4
  <2> QED
    BY <1>1, <2>5, <2>6
<1>2. CASE v # 0
  <2> DEFINE r == heap[v].rows
             ss == [i \in DOMAIN r |-> IF r[i] = 0 THEN << >> ELSE <<r[i]>>]
  <2>1. heap[v] \in BlocksIn(Len(heap)) /\ Len(heap) \in Nat /\ v \in Nat
    BY <1>2
  <2>2. r \in {<< >>} \cup [Slots -> 0..Len(heap)]
    BY <2>1 DEF BlocksIn
  <2>3. PICK n \in Nat : DOMAIN r = 1..n /\ \A i \in 1..n : r[i] \in Nat
    <3>1. PICK k \in Nat \ {0} : Slots = 1..k
      BY SlotsAre
    <3>2. CASE r = << >>
      BY <3>2
    <3>3. CASE r \in [Slots -> 0..Len(heap)]
      BY <2>1, <3>1, <3>3
    <3> QED
      BY <2>2, <3>2, <3>3
  <2> HIDE DEF r
  <2>4. ss \in Seq(Seq(Nat)) /\ Len(ss) = n
    <3>1. ss \in [1..n -> Seq(Nat)]
      BY <2>3
    <3> HIDE DEF ss
    <3> QED
      BY <3>1
  <2>5. \A i \in 1..n : ss[i] = IF r[i] = 0 THEN << >> ELSE <<r[i]>>
    BY <2>3
  <2>6. WithRows(v) = <<v>> \o FlattenSeq(ss)
    BY <1>2 DEF WithRows, r
  <2> HIDE DEF ss
  <2>7. ASSUME NEW i \in 1..n
        PROVE  /\ \A b : b \in ToSet(ss[i]) <=> b # 0 /\ b = r[i]
               /\ IsInjective(ss[i])
    <3>1. CASE r[i] = 0
      <4>1. ss[i] = << >>
        BY <2>5, <3>1
      <4> QED
        BY <3>1, <4>1 DEF ToSet, IsInjective
    <3>2. CASE r[i] # 0
      <4>1. ss[i] = <<r[i]>>
        BY <2>5, <3>2
      <4>2. ToSet(<<r[i]>>) = {r[i]} /\ IsInjective(<<r[i]>>)
        BY DEF ToSet, IsInjective
      <4> QED
        BY <3>2, <4>1, <4>2
    <3> QED
      BY <3>1, <3>2
  <2>8. /\ FlattenSeq(ss) \in Seq(Nat)
        /\ \A x : x \in ToSet(FlattenSeq(ss)) <=> \E i \in 1..Len(ss) : x \in ToSet(ss[i])
        /\ (/\ \A i \in 1..Len(ss) : IsInjective(ss[i])
            /\ \A i, j \in 1..Len(ss) : i # j => ToSet(ss[i]) \cap ToSet(ss[j]) = {})
           => IsInjective(FlattenSeq(ss))
    BY <2>4, FlattenedIs
  <2>9. \A b : b \in ToSet(FlattenSeq(ss)) <=> b # 0 /\ \E i \in 1..n : b = r[i]
    BY <2>4, <2>7, <2>8
  <2> DEFINE w == FlattenSeq(ss)
             o == <<v>>
  <2>10. o \in Seq(Nat) /\ w \in Seq(Nat) /\ ToSet(o) = {v} /\ IsInjective(o)
    BY <2>1, <2>8 DEF ToSet, IsInjective
  <2> HIDE DEF w, o
  <2>11. o \o w \in Seq(Nat) /\ ToSet(o \o w) = ToSet(o) \cup ToSet(w)
    BY <2>10, JoinedIs
  <2>12. \A b : b \in ToSet(o \o w) <=> Owned2(v, b)
    BY <1>2, <2>3, <2>9, <2>10, <2>11 DEF Owned2, w, r
  <2>13. ASSUME \A i, j \in 1..n : r[i] = r[j] => i = j \/ r[i] = 0, \A i \in 1..n : r[i] # v
         PROVE  IsInjective(o \o w)
    <3>1. IsInjective(w)
      <4>1. ASSUME NEW i \in 1..n, NEW j \in 1..n, i # j PROVE ToSet(ss[i]) \cap ToSet(ss[j]) = {}
        BY <2>7, <2>13, <4>1
      <4> QED
        BY <2>4, <2>7, <2>8, <4>1 DEF w
    <3>2. ToSet(o) \cap ToSet(w) = {}
      BY <2>9, <2>10, <2>13 DEF w
    <3> QED
      BY <2>10, <3>1, <3>2, JoinedInjective
  <2> QED
    BY <1>2, <2>3, <2>6, <2>11, <2>12, <2>13 DEF w, o, r
<1> QED
  BY <1>1, <1>2

\* What is known may be forgotten.
LEMMA WeakSound ==
  ASSUME NEW A, NEW m, NEW h, NEW tn, NEW ix, Sound(A, m, h, tn, ix), NEW X, NEW tn2 \in [Nests -> Nat],
         Own(X) = Own(A), HoleOf(X) = HoleOf(A), HoleOf(A) # << >> => Fill(X) = Fill(A),
         DOMAIN Twin(X) \subseteq DOMAIN Twin(A), \A t \in DOMAIN Twin(X) : Twin(X)[t] = Twin(A)[t],
         TurnsIn(X, tn2)
  PROVE  Sound(X, m, h, tn2, ix)
<1>1. Typed(m, h, tn2, ix)
  BY DEF Sound, Typed
<1>2. Sorted(X)
  BY DEF Sound, Sorted
<1>3. HolePlace(X, m, ix) = HolePlace(A, m, ix)
  BY DEF HolePlace
<1>4. Places(X, m, h, ix) = Places(A, m, h, ix)
  BY <1>3 DEF Places
<1>5. Each(HeldAt(X, m, h, ix), Alive(h))
  BY <1>4 DEF Sound, HeldAt
<1>6. OwnersFit(X, m, h) /\ RowsFit(X, m, h, ix)
  BY <1>3 DEF Sound, OwnersFit, RowsFit
<1>7. \A l : Leads2(X, m, l) <=> Leads2(A, m, l)
  BY DEF Leads2, Located, HasRows
<1>8. \A l : (OutsideHole(X, l) <=> OutsideHole(A, l)) /\ SortAt(X, l) = SortAt(A, l)
  BY DEF OutsideHole, SortAt
<1>9. TwinsAgree(X, m, h, ix)
  BY <1>7, <1>8 DEF Sound, TwinsAgree
<1>10. HoleAgrees(X, m, h, ix)
  BY <1>7, <1>8 DEF Sound, HoleAgrees
<1> QED
  BY <1>1, <1>2, <1>5, <1>6, <1>9, <1>10 DEF Sound

-----------------------------------------------------------------------------
\* What the statement that is executed may rely on.
Now(A) == Sound(A, mem, heap, turn, index)

\* Variables and rows point to blocks there are.
LEMMA NowTyped ==
  ASSUME NEW A, Now(A)
  PROVE  /\ heap \in Seq(BlocksIn(Len(heap))) /\ Len(heap) \in Nat /\ DOMAIN heap = 1..Len(heap)
         /\ mem \in [Names -> 0..Len(heap)] /\ turn \in [Nests -> Nat] /\ index \in [Keys -> Slots]
<1>1. /\ heap \in Seq(BlocksIn(Len(heap)))
      /\ mem \in [Names -> 0..Len(heap)] /\ turn \in [Nests -> Nat] /\ index \in [Keys -> Slots]
  BY DEF Now, Sound, Typed
<1>2. Len(heap) \in Nat /\ DOMAIN heap = 1..Len(heap)
  BY <1>1
<1> QED
  BY <1>1, <1>2

\* What an owner points to is alive and of the kind it owns.
LEMMA NowAlive ==
  ASSUME NEW A, Now(A), NEW y \in DOMAIN Own(A)
  PROVE  /\ y \in Names /\ mem[y] \in 0..Len(heap) /\ (mem[y] # 0 => mem[y] \in DOMAIN heap /\ heap[mem[y]].alive)
         /\ Own(A)[y] \in Sorts
         /\ mem[y] # 0 => Fits(heap[mem[y]], Own(A)[y])
<1>1. y \in Names /\ Own(A)[y] \in Sorts
  BY DEF Now, Sound, Sorted
<1>2. mem[y] = 0 \/ mem[y] \in Alive(heap)
  BY HeldFacts DEF Now
<1>3. mem[y] # 0 => Fits(heap[mem[y]], Own(A)[y])
  BY DEF Now, Sound, OwnersFit
<1>4. mem[y] \in 0..Len(heap)
  BY <1>1, NowTyped, SMTT(20)
<1> QED
  BY <1>1, <1>2, <1>3, <1>4 DEF Alive

\* A row of an owner, outside the hole.
LEMMA NowRow ==
  ASSUME NEW A, Now(A), NEW y \in DOMAIN Own(A), mem[y] # 0, NEW i \in DOMAIN heap[mem[y]].rows,
         <<mem[y], i>> \notin HolePlace(A, mem, index)
  PROVE  LET b == heap[mem[y]].rows[i]
         IN  /\ b \in 0..Len(heap)
             /\ b # 0 => b \in DOMAIN heap /\ heap[b].alive /\ heap[b].rows = << >> /\ ~heap[b].frame /\ b # mem[y]
<1>1. mem[y] \in Alive(heap)
  BY HeldFacts DEF Now
<1> DEFINE p == <<mem[y], i>>
           b == heap[mem[y]].rows[i]
<1>2. p \in RowPlaces(heap) \ HolePlace(A, mem, index)
  BY <1>1 DEF RowPlaces
<1>3. At(mem, heap, p) = b
  <2>1. mem[y] # 0 /\ p[1] = mem[y] /\ p[2] = i
    OBVIOUS
  <2> QED
    BY <2>1 DEF At
<1>4. p \in DOMAIN HeldAt(A, mem, heap, index) /\ HeldAt(A, mem, heap, index)[p] = b
  BY <1>2, <1>3 DEF HeldAt, Places
<1>5. b = 0 \/ b \in Alive(heap)
  BY <1>4 DEF Now, Sound, Each
<1>6. b # 0 => Fits(heap[b], "leaf")
  BY <1>2, <1>3 DEF Now, Sound, RowsFit
<1>7. b = mem[y] => mem[y] = 0
  BY <1>2, <1>3, HeldFacts DEF Now
<1>8. Len(heap) \in Nat /\ DOMAIN heap = 1..Len(heap)
  BY NowTyped
<1> QED
  BY <1>5, <1>6, <1>7, <1>8 DEF Fits, Alive

\* Two such rows hold different blocks.
LEMMA NowRows ==
  ASSUME NEW A, Now(A), NEW y \in DOMAIN Own(A), mem[y] # 0, NEW i \in DOMAIN heap[mem[y]].rows,
         NEW z \in DOMAIN Own(A), mem[z] # 0, NEW j \in DOMAIN heap[mem[z]].rows,
         <<mem[y], i>> \notin HolePlace(A, mem, index), <<mem[z], j>> \notin HolePlace(A, mem, index),
         heap[mem[y]].rows[i] = heap[mem[z]].rows[j], heap[mem[y]].rows[i] # 0
  PROVE  y = z /\ i = j
<1>1. mem[y] \in Alive(heap) /\ mem[z] \in Alive(heap)
  BY HeldFacts DEF Now
<1> DEFINE p == <<mem[y], i>>
           q == <<mem[z], j>>
<1>2. p \in RowPlaces(heap) \ HolePlace(A, mem, index) /\ q \in RowPlaces(heap) \ HolePlace(A, mem, index)
  BY <1>1 DEF RowPlaces
<1>3. At(mem, heap, p) = heap[mem[y]].rows[i] /\ At(mem, heap, q) = heap[mem[z]].rows[j]
  <2>1. mem[y] # 0 /\ p[1] = mem[y] /\ p[2] = i /\ mem[z] # 0 /\ q[1] = mem[z] /\ q[2] = j
    OBVIOUS
  <2> QED
    BY <2>1 DEF At
<1>4. /\ p \in DOMAIN HeldAt(A, mem, heap, index) /\ HeldAt(A, mem, heap, index)[p] = heap[mem[y]].rows[i]
      /\ q \in DOMAIN HeldAt(A, mem, heap, index) /\ HeldAt(A, mem, heap, index)[q] = heap[mem[z]].rows[j]
  BY <1>2, <1>3 DEF HeldAt, Places
<1>5. p = q
  <2> HIDE DEF p, q
  <2> QED
    BY <1>4 DEF Now, Sound, Each
<1>6. mem[y] = mem[z] /\ i = j
  BY <1>5
<1> QED
  BY <1>6, HeldFacts DEF Now

\* What an owner outside the hole releases.
WholeOf(y) ==
  /\ WithRows(mem[y]) \in Seq(Nat) /\ IsInjective(WithRows(mem[y]))
  /\ \A b : b \in ToSet(WithRows(mem[y])) <=> Owned2(mem[y], b)
  /\ \A b \in ToSet(WithRows(mem[y])) : heap[b].alive /\ b # 0
\* An owner outside the hole has its block and its rows' blocks, all alive and each
\* once.
LEMMA WholeFacts ==
  ASSUME NEW A, Now(A), NEW y \in DOMAIN Own(A), OutsideHole(A, <<y>>)
  PROVE  /\ WholeOf(y)
         /\ Own(A)[y] # "frame" => \A b \in ToSet(WithRows(mem[y])) : ~heap[b].frame
<1>0. /\ heap \in Seq(BlocksIn(Len(heap))) /\ mem[y] \in 0..Len(heap)
      /\ (mem[y] # 0 => mem[y] \in DOMAIN heap /\ heap[mem[y]].alive)
      /\ Own(A)[y] \in Sorts
      /\ (mem[y] # 0 => Fits(heap[mem[y]], Own(A)[y]))
  BY NowTyped, NowAlive
<1>1. ASSUME mem[y] # 0, NEW i \in Slots PROVE <<mem[y], i>> \notin HolePlace(A, mem, index)
  <2>1. CASE HoleOf(A) = << >>
    BY <2>1 DEF HolePlace
  <2>2. CASE HoleOf(A) # << >>
    <3>1. HoleOf(A)[1] # y
      BY <2>2 DEF OutsideHole
    <3>2. HoleOf(A)[1] \in DOMAIN Own(A)
      BY <2>2, HoleIn DEF Now
    <3>3. mem[HoleOf(A)[1]] # mem[y]
      BY <1>1, <3>1, <3>2, HeldFacts DEF Now
    <3> QED
      BY <2>2, <3>3 DEF HolePlace
  <2> QED
    BY <2>1, <2>2
<1>2. ASSUME mem[y] # 0 PROVE DOMAIN heap[mem[y]].rows \subseteq Slots
  BY <1>0, <1>2 DEF Fits, Sorts
<1>3. ASSUME mem[y] # 0, NEW i \in DOMAIN heap[mem[y]].rows PROVE <<mem[y], i>> \notin HolePlace(A, mem, index)
  BY <1>1, <1>2, <1>3
<1>4. ASSUME mem[y] # 0
      PROVE  /\ \A i, j \in DOMAIN heap[mem[y]].rows :
                  heap[mem[y]].rows[i] = heap[mem[y]].rows[j] => i = j \/ heap[mem[y]].rows[i] = 0
             /\ \A i \in DOMAIN heap[mem[y]].rows : heap[mem[y]].rows[i] # mem[y]
  <2>1. ASSUME NEW i \in DOMAIN heap[mem[y]].rows, NEW j \in DOMAIN heap[mem[y]].rows,
               heap[mem[y]].rows[i] = heap[mem[y]].rows[j], heap[mem[y]].rows[i] # 0
        PROVE  i = j
    BY <1>3, <1>4, <2>1, NowRows
  <2>2. ASSUME NEW i \in DOMAIN heap[mem[y]].rows PROVE heap[mem[y]].rows[i] # mem[y]
    <3>1. heap[mem[y]].rows[i] # 0 => heap[mem[y]].rows[i] # mem[y]
      BY <1>3, <1>4, NowRow
    <3> QED
      BY <1>4, <3>1
  <2> QED
    BY <2>1, <2>2
<1> DEFINE v == mem[y]
<1>5. /\ WithRows(v) \in Seq(Nat) /\ IsInjective(WithRows(v))
      /\ \A b : b \in ToSet(WithRows(v)) <=> Owned2(v, b)
  <2>1. v # 0 =>
              /\ \A i, j \in DOMAIN heap[v].rows : heap[v].rows[i] = heap[v].rows[j] => i = j \/ heap[v].rows[i] = 0
              /\ \A i \in DOMAIN heap[v].rows : heap[v].rows[i] # v
    BY <1>4
  <2>2. v \in 0..Len(heap)
    BY <1>0
  <2> HIDE DEF v
  <2> QED
    BY <1>0, <2>1, <2>2, WithRowsIs
<1>6. ASSUME NEW b, Owned2(mem[y], b)
      PROVE  b # 0 /\ heap[b].alive /\ (Own(A)[y] # "frame" => ~heap[b].frame)
  <2>1. mem[y] # 0
    BY <1>6 DEF Owned2
  <2>2. CASE b = mem[y]
    BY <1>0, <2>1, <2>2 DEF Fits, Sorts
  <2>3. CASE b # mem[y]
    <3>1. PICK i \in DOMAIN heap[mem[y]].rows : b = heap[mem[y]].rows[i] /\ b # 0
      BY <1>6, <2>3 DEF Owned2
    <3>2. heap[b].alive /\ ~heap[b].frame
      BY <1>3, <2>1, <3>1, NowRow
    <3> QED
      BY <3>1, <3>2
  <2> QED
    BY <2>2, <2>3
<1> QED
  BY <1>5, <1>6 DEF WholeOf

-----------------------------------------------------------------------------
\* A statement that is executed at a point where A is known.

Took(B) == Sound(B, mem', heap', turn', index') /\ pc' = pc + 1
Safe ==
  /\ \A b \in Touched \ {0} : heap[b].alive
  /\ IsInjective(Released)
  /\ c.op # "fini" => \A b \in ToSet(Released) : ~heap[b].frame

\* The block that a location is in is alive.
LEMMA HolderFine ==
  ASSUME NEW A, Now(A), NEW l, Located(A, l) \/ \E x : l = <<x>>
  PROVE  Holder(l) # 0 => heap[Holder(l)].alive
<1>1. CASE \E x : l = <<x>>
  BY <1>1 DEF Holder
<1>2. CASE Located(A, l)
  <2>1. l[1] \in DOMAIN Own(A)
    BY <1>2, LocLen
  <2> QED
    BY <2>1, NowAlive DEF Holder
<1> QED
  BY <1>1, <1>2

\* What a safe statement comes down to: what it touches is alive, and it releases
\* nothing twice.
LEMMA SafeWhen ==
  ASSUME \A l \in Locations : Holder(l) # 0 => heap[Holder(l)].alive,
         \A b \in ToSet(Released) : heap[b].alive,
         IsInjective(Released), c.op # "fini" => \A b \in ToSet(Released) : ~heap[b].frame,
         c.op = "copy" => \A b \in ToSet(WithRows(Value(c.to)) \o WithRows(Value(c.from))) : heap[b].alive
  PROVE  Safe
BY DEF Safe, Touched

\* Only releases, calls and the end of a frame array release anything.
LEMMA QuietReleases ==
  ASSUME c.op \notin {"free", "fini", "call"}
  PROVE  Released = << >> /\ IsInjective(Released) /\ \A b : b \notin ToSet(Released)
<1>1. Released = << >>
  BY DEF Released
<1> QED
  BY <1>1 DEF IsInjective, ToSet

\* Statements that release nothing.
LEMMA QuietSafe ==
  ASSUME NEW A, Now(A), c.op \notin {"free", "fini", "call", "copy"}, c.args = << >>,
         \A l \in {c.to, c.from} : l = << >> \/ Located(A, l) \/ \E x : l = <<x>>
  PROVE  Safe
<1>1. ToSet(c.args) = {}
  BY DEF ToSet
<1>2. \A l \in Locations : Holder(l) # 0 => heap[Holder(l)].alive
  BY <1>1, HolderFine DEF Locations
<1>3. IsInjective(Released) /\ \A b : b \notin ToSet(Released)
  BY QuietReleases
<1> QED
  BY <1>2, <1>3, SafeWhen

\* A sequence of one.
LEMMA SingleIs == ASSUME NEW x PROVE Len(<<x>>) = 1 /\ <<x>>[1] = x /\ <<x>> # << >>
OBVIOUS

-----------------------------------------------------------------------------
\* A new block goes to a name that owned nothing, ...
LEMMA CreatesStep ==
  ASSUME NEW A, Now(A), NEW B, Creates(c, A, B), Create
  PROVE  Took(B)
<1>1. PICK x \in Names :
        /\ c.to = <<x>> /\ IsFree(A, x) /\ c.kind \in {"leaf", "tree"} /\ (c.op = "frame" => c.kind = "tree")
        /\ B = Owns(A, x, IF c.op = "frame" THEN "frame" ELSE c.kind)
  BY DEF Creates
<1>2. heap' = Made(heap, c.kind, c.op = "frame") /\ mem' = [mem EXCEPT ![x] = Len(heap) + 1]
      /\ turn' = turn /\ index' = index /\ pc' = pc + 1
  BY <1>1, SingleIs DEF Create, MemWith, Go
<1> DEFINE fr == c.op = "frame"
           kd == c.kind
<1>3. fr \in BOOLEAN /\ kd \in {"leaf", "tree"} /\ (fr => kd = "tree") /\ IsFree(A, x)
      /\ B = Owns(A, x, IF fr THEN "frame" ELSE kd)
  BY <1>1
<1>4. heap' = Made(heap, kd, fr)
  BY <1>2
<1> HIDE DEF fr, kd
<1>5. Sound(Owns(A, x, IF fr THEN "frame" ELSE kd), [mem EXCEPT ![x] = Len(heap) + 1], Made(heap, kd, fr), turn, index)
  BY <1>3, MadeSound DEF Now
<1> QED
  BY <1>2, <1>3, <1>4, <1>5 DEF Took
\* ... and no released block is touched for it.
LEMMA CreatesSafe ==
  ASSUME NEW A, Now(A), NEW B, Creates(c, A, B)
  PROVE  Safe
BY QuietSafe DEF Creates

\* A temporary gets a copy of an owner's pointer, ...
LEMMA TwinStep ==
  ASSUME NEW A, Now(A), NEW B, MakesTwin(c, A, B), Store
  PROVE  Took(B)
<1>1. PICK x \in Names : c.to = <<x>> /\ IsFree(A, x) /\ B = Twins(A, x, c.from)
  BY DEF MakesTwin
<1>2. c.op = "mov" /\ Located(A, c.from) /\ OutsideHole(A, c.from)
  BY DEF MakesTwin
<1>3. ~FollowsNull
  BY DEF Store, Runs
<1>4. Leads2(A, mem, c.from) /\ Value(c.from) = ValueAt(mem, heap, index, c.from)
  BY <1>2, <1>3, FollowsIs, ValueIs
<1>5. mem' = [mem EXCEPT ![x] = ValueAt(mem, heap, index, c.from)] /\ heap' = heap
      /\ turn' = turn /\ index' = index /\ pc' = pc + 1
  BY <1>1, <1>2, <1>4, SingleIs DEF Store, MemWith, HeapWith, Go
<1>6. Sound(Twins(A, x, c.from), [mem EXCEPT ![x] = ValueAt(mem, heap, index, c.from)], heap, turn, index)
  BY <1>1, <1>2, <1>4, TwinSound DEF Now
<1> QED
  BY <1>1, <1>5, <1>6 DEF Took
\* ... and what it is read from is alive.
LEMMA TwinSafe ==
  ASSUME NEW A, Now(A), NEW B, MakesTwin(c, A, B)
  PROVE  Safe
BY QuietSafe DEF MakesTwin

\* A block passes from one name to another, ...
LEMMA HandStep ==
  ASSUME NEW A, Now(A), NEW B, HandsOver(c, A, B), Store
  PROVE  Took(B)
<1>1. PICK x \in Names, y \in DOMAIN Own(A) :
        c.to = <<x>> /\ IsFree(A, x) /\ c.from = <<y>> /\ B = Owns(Without(A, {y}), x, Own(A)[y])
  BY DEF HandsOver
<1>2. c.op = "mov" /\ HoleOf(A) = << >>
  BY DEF HandsOver
<1>3. Value(c.from) = mem[y]
  BY <1>1, SingleIs DEF Value
<1>4. mem' = [mem EXCEPT ![x] = mem[y]] /\ heap' = heap /\ turn' = turn /\ index' = index /\ pc' = pc + 1
  <2>1. mem' = MemWith(c.to, Value(c.from)) /\ heap' = HeapWith(heap, c.to, Value(c.from))
        /\ turn' = turn /\ index' = index /\ pc' = pc + 1
    BY <1>2 DEF Store, Go
  <2>2. MemWith(<<x>>, mem[y]) = [mem EXCEPT ![x] = mem[y]] /\ HeapWith(heap, <<x>>, mem[y]) = heap
    BY SingleIs DEF MemWith, HeapWith
  <2> QED
    BY <1>1, <1>3, <2>1, <2>2
<1>5. Sound(Owns(Without(A, {y}), x, Own(A)[y]), [mem EXCEPT ![x] = mem[y]], heap, turn, index)
  BY <1>1, <1>2, HandSound DEF Now
<1> QED
  BY <1>1, <1>4, <1>5 DEF Took
\* ... and what it is read from is alive.
LEMMA HandSafe ==
  ASSUME NEW A, Now(A), NEW B, HandsOver(c, A, B)
  PROVE  Safe
BY QuietSafe DEF HandsOver

\* The hole gets the block of another owner, ...
LEMMA FillStep ==
  ASSUME NEW A, Now(A), NEW B, FillsHole(c, A, B), Store
  PROVE  Took(B)
<1>1. /\ c.op = "mov" /\ HoleOf(A) # << >> /\ c.to = HoleOf(A) /\ Fill(A) = << >>
      /\ Located(A, c.from) /\ SortAt(A, c.from) = "leaf" /\ B = Hole(A, HoleOf(A), c.from)
  BY DEF FillsHole
<1>2. ~FollowsNull
  BY DEF Store, Runs
<1>3. Leads2(A, mem, c.from) /\ Value(c.from) = ValueAt(mem, heap, index, c.from)
  BY <1>1, <1>2, FollowsIs, ValueIs
<1>4. Located(A, c.to)
  BY <1>1, HoleLeads DEF Now, Leads2
<1> DEFINE v == ValueAt(mem, heap, index, c.from)
<1>5. mem' = MemPut(mem, HoleOf(A), v) /\ heap' = HeapPut(mem, heap, index, HoleOf(A), v)
      /\ turn' = turn /\ index' = index /\ pc' = pc + 1
  BY <1>1, <1>3, <1>4, ValueIs DEF Store, Go
<1>6. Sound(Hole(A, HoleOf(A), c.from), MemPut(mem, HoleOf(A), v), HeapPut(mem, heap, index, HoleOf(A), v), turn, index)
  BY <1>1, <1>3, FillSound DEF Now
<1> QED
  BY <1>1, <1>5, <1>6 DEF Took
\* ... and both places are in blocks that are alive.
LEMMA FillSafe ==
  ASSUME NEW A, Now(A), NEW B, FillsHole(c, A, B)
  PROVE  Safe
<1>1. Located(A, c.to)
  BY HoleLeads DEF Now, Leads2, FillsHole
<1> QED
  BY <1>1, QuietSafe DEF FillsHole

\* An owner is reset: its twin owns the block from here on, ...
LEMMA EmptyStep ==
  ASSUME NEW A, Now(A), NEW B, EmptiesTwin(c, A, B), Store
  PROVE  Took(B)
<1>1. /\ c.op = "null" /\ Located(A, c.to) /\ OutsideHole(A, c.to) /\ SortAt(A, c.to) # "frame" /\ Fill(A) = << >>
  BY DEF EmptiesTwin
<1>2. PICK t \in DOMAIN Twin(A) :
        /\ Twin(A)[t] = c.to /\ Undisturbed(A, c.to, t)
        /\ B = Owns(Point(Own(A), Less(Twin(A), {t}), HoleOf(A), Fill(A), Turns(A)), t, SortAt(A, c.to))
  BY DEF EmptiesTwin
<1>3. Leads2(A, mem, c.to)
  BY <1>1, FollowsIs DEF Store, Runs
<1>4. t \in Names /\ t \notin DOMAIN Own(A)
  BY DEF Now, Sound, TwinsAgree
<1>5. mem' = MemPut(mem, c.to, 0) /\ heap' = HeapPut(mem, heap, index, c.to, 0)
      /\ turn' = turn /\ index' = index /\ pc' = pc + 1
  BY <1>1, ValueIs DEF Store, Go
<1> DEFINE l == c.to
<1>6. Twin(A)[t] = l /\ Undisturbed(A, l, t) /\ Leads2(A, mem, l) /\ OutsideHole(A, l) /\ SortAt(A, l) # "frame"
      /\ B = Owns(Point(Own(A), Less(Twin(A), {t}), HoleOf(A), Fill(A), Turns(A)), t, SortAt(A, l))
      /\ mem' = MemPut(mem, l, 0) /\ heap' = HeapPut(mem, heap, index, l, 0)
  BY <1>1, <1>2, <1>3, <1>5
<1> HIDE DEF l
<1>7. Sound(B, mem', heap', turn, index)
  BY <1>1, <1>4, <1>6, EmptiedSound DEF Now
<1> QED
  BY <1>5, <1>7 DEF Took
\* ... and the place that is reset is in a block that is alive.
LEMMA EmptySafe ==
  ASSUME NEW A, Now(A), NEW B, EmptiesTwin(c, A, B)
  PROVE  Safe
BY QuietSafe DEF EmptiesTwin

\* The owner of what fills the hole is reset, ...
LEMMA FilledStep ==
  ASSUME NEW A, Now(A), NEW B, EmptiesFill(c, A, B), Store
  PROVE  Took(B)
<1>1. /\ c.op = "null" /\ HoleOf(A) # << >> /\ Fill(A) = c.to /\ Located(A, c.to) /\ OfOwners(A)
      /\ \A u \in DOMAIN Twin(A) : Twin(A)[u] # c.to
      /\ B = Hole(A, << >>, << >>)
  BY DEF EmptiesFill
<1>2. c.to # << >>
  BY <1>1, LocLen
<1>3. mem' = MemPut(mem, Fill(A), 0) /\ heap' = HeapPut(mem, heap, index, Fill(A), 0)
      /\ turn' = turn /\ index' = index /\ pc' = pc + 1
  BY <1>1, ValueIs DEF Store, Go
<1>4. Sound(Hole(A, << >>, << >>), mem', heap', turn, index)
  <2>1. Fill(A) # << >> /\ \A u \in DOMAIN Twin(A) : Twin(A)[u] # Fill(A)
    BY <1>1, <1>2
  <2> QED
    BY <1>1, <2>1, <1>3, FilledSound DEF Now
<1> QED
  BY <1>1, <1>3, <1>4 DEF Took
\* ... and the place that is reset is in a block that is alive.
LEMMA FilledSafe ==
  ASSUME NEW A, Now(A), NEW B, EmptiesFill(c, A, B)
  PROVE  Safe
BY QuietSafe DEF EmptiesFill

\* Where nothing is released the heap stays.
LEMMA FreedNone == ASSUME NEW A, Now(A) PROVE Freed(heap, {}) = heap
BY NowTyped DEF Freed

\* A copy changes no pointer.
LEMMA CopyStep ==
  ASSUME NEW A, Now(A), NEW B, Copies(c, A, B), FreeOrCopy
  PROVE  Took(B)
<1>1. c.op = "copy" /\ B = Point(Own(A), Twin(A), HoleOf(A), Fill(A), {})
  BY DEF Copies
<1>2. ToSet(Released) = {}
  BY <1>1, QuietReleases
<1>3. heap' = heap /\ mem' = mem /\ turn' = turn /\ index' = index /\ pc' = pc + 1
  BY <1>2, FreedNone DEF FreeOrCopy, Go
<1>4. Own(B) = Own(A) /\ Twin(B) = Twin(A) /\ HoleOf(B) = HoleOf(A) /\ Fill(B) = Fill(A) /\ Turns(B) = {}
  BY <1>1, PointIs
<1>5. TurnsIn(B, turn) /\ turn \in [Nests -> Nat]
  BY <1>4, NowTyped DEF TurnsIn
<1>6. Sound(B, mem, heap, turn, index)
  BY <1>4, <1>5, WeakSound DEF Now
<1> QED
  BY <1>3, <1>6 DEF Took

\* What a location outside the hole releases.
LEMMA RowWhole ==
  ASSUME NEW A, Now(A), NEW y \in DOMAIN Own(A), mem[y] # 0, NEW i \in DOMAIN heap[mem[y]].rows,
         <<mem[y], i>> \notin HolePlace(A, mem, index), NEW v, v = heap[mem[y]].rows[i]
  PROVE  /\ IsInjective(WithRows(v))
         /\ \A b : b \in ToSet(WithRows(v)) <=> b = v /\ b # 0
         /\ \A b \in ToSet(WithRows(v)) : heap[b].alive /\ ~heap[b].frame
<1>1. v \in 0..Len(heap) /\ (v # 0 => heap[v].alive /\ heap[v].rows = << >> /\ ~heap[v].frame)
  BY NowRow
<1>2. heap \in Seq(BlocksIn(Len(heap)))
  BY NowTyped
<1>3. v # 0 => DOMAIN heap[v].rows = {}
  BY <1>1
<1>4. /\ \A b : b \in ToSet(WithRows(v)) <=> Owned2(v, b)
      /\ IsInjective(WithRows(v))
  BY <1>1, <1>2, <1>3, WithRowsIs
<1>5. \A b : Owned2(v, b) <=> b = v /\ b # 0
  BY <1>3 DEF Owned2
<1> QED
  BY <1>1, <1>4, <1>5, SMTT(30)

\* A row that is read, by its expression or by the turn of the loop.
LEMMA LocWhole ==
  ASSUME NEW A, Now(A), NEW l, Leads2(A, mem, l), OutsideHole(A, l)
  PROVE  /\ IsInjective(WithRows(Value(l)))
         /\ \A b \in ToSet(WithRows(Value(l))) : heap[b].alive
         /\ Len(l) = 2 => /\ \A b : b \in ToSet(WithRows(Value(l))) <=> b = Value(l) /\ b # 0
                          /\ \A b \in ToSet(WithRows(Value(l))) : ~heap[b].frame
<1>1. Located(A, l) /\ (Len(l) = 1 \/ Len(l) = 2) /\ l[1] \in DOMAIN Own(A)
  BY LocLen DEF Leads2
<1>2. CASE Len(l) = 1
  <2>1. Value(l) = mem[l[1]]
    BY <1>2 DEF Value
  <2>2. OutsideHole(A, <<l[1]>>)
    BY DEF OutsideHole
  <2>3. WholeOf(l[1])
    BY <1>1, <2>2, WholeFacts
  <2> QED
    BY <1>2, <2>1, <2>3 DEF WholeOf
<1>3. CASE Len(l) = 2
  <2>1. LocIs(A, mem, heap, index, l)
    BY LocFacts DEF Now
  <2>2. mem[l[1]] # 0 /\ heap[mem[l[1]]].rows \in [Slots -> 0..Len(heap)] /\ index[l[2]] \in Slots
    BY <1>3, <2>1 DEF LocIs, LocRow, Leads2
  <2>3. Value(l) = heap[mem[l[1]]].rows[index[l[2]]]
    BY <1>1, <1>3, LocLen, SlotIs DEF Value
  <2>4. <<mem[l[1]], index[l[2]]>> \notin HolePlace(A, mem, index)
    <3>1. PlaceOf(mem, index, l) \notin HolePlace(A, mem, index)
      BY PlaceOutside DEF Now
    <3> QED
      BY <1>3, <3>1 DEF PlaceOf
  <2>5. index[l[2]] \in DOMAIN heap[mem[l[1]]].rows
    BY <2>2
  <2> DEFINE y == l[1]
             i == index[l[2]]
  <2>6. /\ y \in DOMAIN Own(A) /\ mem[y] # 0 /\ i \in DOMAIN heap[mem[y]].rows
        /\ <<mem[y], i>> \notin HolePlace(A, mem, index) /\ Value(l) = heap[mem[y]].rows[i]
    BY <1>1, <2>2, <2>3, <2>4, <2>5
  <2> HIDE DEF y, i
  <2> QED
    BY <1>3, <2>6, RowWhole
<1> QED
  BY <1>1, <1>2, <1>3

\* Both sides of a copy are alive, with all their rows.
LEMMA CopySafe ==
  ASSUME NEW A, Now(A), NEW B, Copies(c, A, B), ~FollowsNull
  PROVE  Safe
<1>1. c.op = "copy" /\ c.args = << >> /\ OutsideHole(A, c.to)
  BY DEF Copies
<1>2. PICK z \in DOMAIN Own(A) : c.to = <<z>>
  BY DEF Copies
<1>3. Leads2(A, mem, c.to)
  BY <1>2, FollowsIs, SingleIs DEF Located, Leads2
<1>4. \A b \in ToSet(WithRows(Value(c.to))) : heap[b].alive
  BY <1>1, <1>3, LocWhole
<1>5. /\ Holder(c.from) # 0 => heap[Holder(c.from)].alive
      /\ \A b \in ToSet(WithRows(Value(c.from))) : heap[b].alive
  <2>1. CASE Located(A, c.from) /\ OutsideHole(A, c.from)
    <3>1. Leads2(A, mem, c.from)
      BY <2>1, FollowsIs
    <3> QED
      BY <2>1, <3>1, LocWhole, HolderFine
  <2>2. ASSUME NEW x \in Names, NEW y \in DOMAIN Own(A), StandsFor(A, x, y), HasRows(A, y), HoleOf(A) = << >>,
               c.from = <<x, "#">>, c.nest \in Turns(A)
        PROVE  /\ Holder(c.from) # 0 => heap[Holder(c.from)].alive
               /\ \A b \in ToSet(WithRows(Value(c.from))) : heap[b].alive
    <3>0. c.from[1] = x /\ c.from[2] = "#" /\ Len(c.from) = 2 /\ c.from # << >>
      BY <2>2
    <3>1. mem[x] = mem[y]
      <4>1. x \in DOMAIN Twin(A) /\ Twin(A)[x] = <<y>> => mem[x] = mem[y]
        BY SingleIs DEF Now, Sound, TwinsAgree, ValueAt
      <4> QED
        BY <2>2, <4>1 DEF StandsFor
    <3>2. Holder(c.from) = mem[y]
      BY <3>0, <3>1 DEF Holder
    <3>3. mem[y] # 0
      <4>1. c.from \in Locations
        BY <3>0 DEF Locations
      <4> QED
        BY <3>0, <3>2, <4>1 DEF FollowsNull
    <3>4. heap[mem[y]].alive /\ Fits(heap[mem[y]], Own(A)[y])
      BY <3>3, NowAlive
    <3>5. turn[c.nest] \in Slots
      BY <2>2 DEF Now, Sound, TurnsIn
    <3>6. turn[c.nest] \in DOMAIN heap[mem[y]].rows
      BY <2>2, <3>4, <3>5 DEF Fits, HasRows
    <3>7. <<mem[y], turn[c.nest]>> \notin HolePlace(A, mem, index)
      BY <2>2 DEF HolePlace
    <3>8. Value(c.from) = heap[mem[y]].rows[turn[c.nest]]
      BY <3>0, <3>1 DEF Value, SlotOf
    <3>9. \A b \in ToSet(WithRows(Value(c.from))) : heap[b].alive
      BY <3>3, <3>6, <3>7, <3>8, RowWhole
    <3> QED
      BY <3>2, <3>4, <3>9
  <2> QED
    BY <2>1, <2>2 DEF Copies
<1>6. \A b \in ToSet(WithRows(Value(c.to)) \o WithRows(Value(c.from))) : heap[b].alive
  <2>1. WithRows(Value(c.to)) \in Seq(Nat) /\ WithRows(Value(c.from)) \in Seq(Nat)
    <3>1. heap \in Seq(BlocksIn(Len(heap))) /\ mem[z] \in 0..Len(heap)
      BY NowTyped, NowAlive
    <3>2. Value(c.to) = mem[z]
      BY <1>2, SingleIs DEF Value
    <3>3. Value(c.from) \in 0..Len(heap)
      <4>1. CASE Located(A, c.from) /\ OutsideHole(A, c.from)
        <5>1. LocIs(A, mem, heap, index, c.from)
          BY <4>1, FollowsIs, LocFacts DEF Now
        <5> QED
          BY <4>1, <5>1, ValueIs DEF LocIs
      <4>2. ASSUME NEW x \in Names, NEW y \in DOMAIN Own(A), StandsFor(A, x, y), HasRows(A, y), HoleOf(A) = << >>,
                   c.from = <<x, "#">>, c.nest \in Turns(A)
            PROVE  Value(c.from) \in 0..Len(heap)
        <5>0. c.from[1] = x /\ c.from[2] = "#" /\ Len(c.from) = 2 /\ c.from # << >>
          BY <4>2
        <5>1. mem[x] = mem[y]
          <6>1. x \in DOMAIN Twin(A) /\ Twin(A)[x] = <<y>> => mem[x] = mem[y]
            BY SingleIs DEF Now, Sound, TwinsAgree, ValueAt
          <6> QED
            BY <4>2, <6>1 DEF StandsFor
        <5>2. mem[y] # 0
          <6>1. c.from \in Locations
            BY <5>0 DEF Locations
          <6> QED
            BY <5>0, <5>1, <6>1 DEF FollowsNull, Holder
        <5>3. turn[c.nest] \in Slots
          BY <4>2 DEF Now, Sound, TurnsIn
        <5>4. heap[mem[y]].rows \in [Slots -> 0..Len(heap)]
          BY <4>2, <5>2, OwnerRows DEF Now
        <5> QED
          BY <5>0, <5>1, <5>3, <5>4 DEF Value, SlotOf
      <4> QED
        BY <4>1, <4>2 DEF Copies
    <3> QED
      BY <3>1, <3>2, <3>3, WithRowsIs
  <2>2. ToSet(WithRows(Value(c.to)) \o WithRows(Value(c.from)))
          = ToSet(WithRows(Value(c.to))) \cup ToSet(WithRows(Value(c.from)))
    BY <2>1, JoinedIs
  <2> QED
    BY <1>4, <1>5, <2>2
<1>7. \A l \in Locations : Holder(l) # 0 => heap[Holder(l)].alive
  <2>1. ToSet(c.args) = {}
    BY <1>1 DEF ToSet
  <2>2. Holder(c.to) = 0
    BY <1>2, SingleIs DEF Holder
  <2> QED
    BY <1>5, <2>1, <2>2 DEF Locations
<1>8. IsInjective(Released) /\ \A b : b \notin ToSet(Released)
  BY <1>1, QuietReleases
<1> QED
  BY <1>1, <1>6, <1>7, <1>8, SafeWhen

-----------------------------------------------------------------------------
\* What the release of an owner releases, and what that leaves.
LEMMA OwnerReleases ==
  ASSUME NEW A, Now(A), NEW B, FreesOwner(c, A, B)
  PROVE  \E x \in DOMAIN Own(A) :
           /\ c.to = <<x>> /\ (c.op = "free" => Own(A)[x] # "frame") /\ B = Without(A, {x})
           /\ Released = WithRows(mem[x]) /\ WholeOf(x)
           /\ (c.op = "free" => \A b \in ToSet(Released) : ~heap[b].frame)
<1>1. PICK x \in DOMAIN Own(A) : c.to = <<x>> /\ (c.op = "free" => Own(A)[x] # "frame") /\ B = Without(A, {x})
  BY DEF FreesOwner
<1>2. c.op \in {"free", "fini"} /\ OutsideHole(A, <<x>>)
  BY DEF FreesOwner, OutsideHole
<1>3. Released = WithRows(mem[x])
  BY <1>1, <1>2, SingleIs DEF Released, Value
<1>4. WholeOf(x) /\ (Own(A)[x] # "frame" => \A b \in ToSet(WithRows(mem[x])) : ~heap[b].frame)
  BY <1>2, WholeFacts
<1> QED
  BY <1>1, <1>3, <1>4

\* The parts of x are what is released with it.
LEMMA PartsAre ==
  ASSUME NEW x, NEW b, b # 0
  PROVE  b \in Parts(mem, heap, x) <=> Owned2(mem[x], b)
BY DEF Parts, Owned2

\* The release of an owner leads to a point without it, ...
LEMMA OwnerFreedStep ==
  ASSUME NEW A, Now(A), NEW B, FreesOwner(c, A, B), FreeOrCopy
  PROVE  Took(B)
<1>1. PICK x \in DOMAIN Own(A) : B = Without(A, {x}) /\ Released = WithRows(mem[x]) /\ WholeOf(x)
  BY OwnerReleases
<1>2. \A b : b # 0 => (b \in ToSet(Released) <=> \E y \in {x} : b \in Parts(mem, heap, y))
  BY <1>1, PartsAre DEF WholeOf
<1>3. heap' = Freed(heap, ToSet(Released)) /\ mem' = mem /\ turn' = turn /\ index' = index /\ pc' = pc + 1
  BY DEF FreeOrCopy, Go
<1>4. HoleOf(A) = << >> /\ {x} \subseteq DOMAIN Own(A)
  BY DEF FreesOwner
<1>5. Sound(Without(A, {x}), mem, Freed(heap, ToSet(Released)), turn, index)
  BY <1>2, <1>4, FreedSound DEF Now
<1> QED
  BY <1>1, <1>3, <1>5 DEF Took
\* ... and releases blocks that are alive, each once.
LEMMA OwnerFreedSafe ==
  ASSUME NEW A, Now(A), NEW B, FreesOwner(c, A, B)
  PROVE  Safe
<1>1. PICK x \in DOMAIN Own(A) :
        /\ c.to = <<x>> /\ Released = WithRows(mem[x]) /\ WholeOf(x)
        /\ (c.op = "free" => \A b \in ToSet(Released) : ~heap[b].frame)
  BY OwnerReleases
<1>2. c.op \in {"free", "fini"} /\ c.from = << >> /\ c.args = << >>
  BY DEF FreesOwner
<1>3. \A l \in Locations : Holder(l) # 0 => heap[Holder(l)].alive
  <2>1. ToSet(c.args) = {}
    BY <1>2 DEF ToSet
  <2> QED
    BY <1>1, <1>2, <2>1, SingleIs DEF Locations, Holder
<1> QED
  BY <1>1, <1>2, <1>3, SafeWhen DEF WholeOf

\* The release of a row makes the row a hole, ...
LEMMA RowFreedStep ==
  ASSUME NEW A, Now(A), NEW B, FreesRow(c, A, B), FreeOrCopy
  PROVE  Took(B)
<1>1. /\ c.op = "free" /\ HoleOf(A) = << >> /\ OfOwners(A)
      /\ Located(A, c.to) /\ Len(c.to) = 2 /\ B = Hole(A, c.to, << >>)
  BY DEF FreesRow
<1>2. Leads2(A, mem, c.to) /\ OutsideHole(A, c.to)
  BY <1>1, FollowsIs DEF FreeOrCopy, Runs, OutsideHole
<1>3. Released = WithRows(Value(c.to)) /\ Value(c.to) = ValueAt(mem, heap, index, c.to)
  BY <1>1, ValueIs DEF Released
<1>4. \A b : b \in ToSet(Released) <=> b = ValueAt(mem, heap, index, c.to) /\ b # 0
  BY <1>1, <1>2, <1>3, LocWhole
<1>5. heap' = Freed(heap, ToSet(Released)) /\ mem' = mem /\ turn' = turn /\ index' = index /\ pc' = pc + 1
  BY DEF FreeOrCopy, Go
<1> DEFINE F == ToSet(Released)
<1>6. \A b : b # 0 => (b \in F <=> b = ValueAt(mem, heap, index, c.to))
  BY <1>4
<1> HIDE DEF F
<1>7. Sound(Hole(A, c.to, << >>), mem, Freed(heap, F), turn, index)
  BY <1>1, <1>2, <1>6, RowFreedSound DEF Now
<1> QED
  BY <1>1, <1>5, <1>7 DEF Took, F
\* ... and its block is alive.
LEMMA RowFreedSafe ==
  ASSUME NEW A, Now(A), NEW B, FreesRow(c, A, B), ~FollowsNull
  PROVE  Safe
<1>1. /\ c.op = "free" /\ HoleOf(A) = << >> /\ c.from = << >> /\ c.args = << >>
      /\ Located(A, c.to) /\ Len(c.to) = 2
  BY DEF FreesRow
<1>2. Leads2(A, mem, c.to) /\ OutsideHole(A, c.to)
  BY <1>1, FollowsIs DEF OutsideHole
<1>3. Released = WithRows(Value(c.to))
  BY <1>1 DEF Released
<1>4. /\ IsInjective(Released) /\ \A b \in ToSet(Released) : heap[b].alive /\ ~heap[b].frame
  BY <1>1, <1>2, <1>3, LocWhole
<1>5. \A l \in Locations : Holder(l) # 0 => heap[Holder(l)].alive
  <2>1. ToSet(c.args) = {}
    BY <1>1 DEF ToSet
  <2> QED
    BY <1>1, <2>1, HolderFine DEF Locations
<1> QED
  BY <1>1, <1>4, <1>5, SafeWhen

\* The rows of an owner outside the hole are not in the hole.
LEMMA RowsOutside ==
  ASSUME NEW A, Now(A), NEW y \in DOMAIN Own(A), OutsideHole(A, <<y>>), mem[y] # 0, NEW i
  PROVE  <<mem[y], i>> \notin HolePlace(A, mem, index)
<1>1. CASE HoleOf(A) = << >>
  BY <1>1 DEF HolePlace
<1>2. CASE HoleOf(A) # << >>
  <2>1. HoleOf(A)[1] # y
    BY <1>2 DEF OutsideHole
  <2>2. HoleOf(A)[1] \in DOMAIN Own(A)
    BY <1>2, HoleIn DEF Now
  <2>3. mem[HoleOf(A)[1]] # mem[y]
    BY <2>1, <2>2, HeldFacts DEF Now
  <2> QED
    BY <1>2, <2>3 DEF HolePlace
<1> QED
  BY <1>1, <1>2

\* Two owners have nothing in common.
LEMMA OwnersApart ==
  ASSUME NEW A, Now(A), NEW y \in DOMAIN Own(A), OutsideHole(A, <<y>>),
         NEW z \in DOMAIN Own(A), OutsideHole(A, <<z>>), y # z, NEW b, Owned2(mem[y], b), Owned2(mem[z], b)
  PROVE  FALSE
<1>0. mem[y] # 0 /\ mem[z] # 0 /\ mem[y] # mem[z] /\ b # 0
  BY HeldFacts DEF Owned2, Now
<1>1. ASSUME NEW u \in DOMAIN Own(A), OutsideHole(A, <<u>>), mem[u] # 0,
             NEW i \in DOMAIN heap[mem[u]].rows, NEW w \in DOMAIN Own(A), heap[mem[u]].rows[i] = mem[w]
      PROVE  mem[w] = 0
  <2> DEFINE p == <<mem[u], i>>
  <2>1. p \in RowPlaces(heap) \ HolePlace(A, mem, index)
    <3>1. mem[u] \in Alive(heap)
      BY <1>1, HeldFacts DEF Now
    <3> QED
      BY <1>1, <3>1, RowsOutside DEF RowPlaces
  <2>2. At(mem, heap, p) = heap[mem[u]].rows[i]
    <3>1. p[1] = mem[u] /\ p[2] = i
      OBVIOUS
    <3> QED
      BY <1>1, <3>1 DEF At
  <2> QED
    BY <1>1, <2>1, <2>2, HeldFacts DEF Now
<1>2. ASSUME b = mem[y], NEW j \in DOMAIN heap[mem[z]].rows, b = heap[mem[z]].rows[j] PROVE FALSE
  BY <1>0, <1>1, <1>2
<1>3. ASSUME b = mem[z], NEW j \in DOMAIN heap[mem[y]].rows, b = heap[mem[y]].rows[j] PROVE FALSE
  BY <1>0, <1>1, <1>3
<1>4. ASSUME NEW i \in DOMAIN heap[mem[y]].rows, b = heap[mem[y]].rows[i],
             NEW j \in DOMAIN heap[mem[z]].rows, b = heap[mem[z]].rows[j]
      PROVE  FALSE
  <2>1. <<mem[y], i>> \notin HolePlace(A, mem, index) /\ <<mem[z], j>> \notin HolePlace(A, mem, index)
    BY <1>0, RowsOutside
  <2> QED
    BY <1>0, <1>4, <2>1, NowRows
<1> QED
  BY <1>0, <1>2, <1>3, <1>4 DEF Owned2

\* What a call is given.
Given(A, S) ==
  /\ S \subseteq DOMAIN Own(A)
  /\ \A x \in S : Own(A)[x] # "frame" /\ OutsideHole(A, <<x>>)
  /\ HoleOf(A) # << >> => HoleOf(A)[1] \notin S /\ Fill(A) = << >>
GivesBack(S) ==
  /\ IsInjective(Released)
  /\ \A b : b \in ToSet(Released) <=> \E x \in S : Owned2(mem[x], b)
  /\ \A b \in ToSet(Released) : heap[b].alive /\ ~heap[b].frame
  /\ \A l \in ToSet(c.args) : \E x : l = <<x>>

\* The arguments that a call is given are of different owners.
LEMMA CallGives ==
  ASSUME NEW A, Now(A), c.op = "call", Passes(c, A)
  PROVE  Given(A, Passed(c)) /\ GivesBack(Passed(c))
<1>1. PICK n \in 0..2 : c.args \in [1..n -> {<<x>> : x \in DOMAIN Own(A)}]
  BY DEF Passes
<1> DEFINE X(i) == c.args[i][1]
           ss == [i \in DOMAIN c.args |-> WithRows(Value(c.args[i]))]
<1>2. DOMAIN c.args = 1..n /\ \A i \in 1..n : X(i) \in DOMAIN Own(A) /\ c.args[i] = <<X(i)>>
  <2>1. DOMAIN c.args = 1..n
    BY <1>1
  <2>2. ASSUME NEW i \in 1..n PROVE X(i) \in DOMAIN Own(A) /\ c.args[i] = <<X(i)>>
    <3>1. PICK x \in DOMAIN Own(A) : c.args[i] = <<x>>
      BY <1>1
    <3> QED
      BY <3>1
  <2> QED
    BY <2>1, <2>2
<1>3. Passed(c) = {X(i) : i \in 1..n}
  BY <1>2 DEF Passed
<1>4. \A i \in 1..n : Own(A)[X(i)] # "frame"
  BY <1>2 DEF Passes
<1>5. \A i, j \in 1..n : X(i) = X(j) => i = j
  BY <1>2 DEF Passes
<1>6. HoleOf(A) # << >> => HoleOf(A)[1] \notin Passed(c) /\ Fill(A) = << >>
  BY DEF Passes
<1>7. \A i \in 1..n : OutsideHole(A, <<X(i)>>)
  <2>1. ASSUME NEW i \in 1..n PROVE OutsideHole(A, <<X(i)>>)
    <3>1. X(i) \in Passed(c)
      BY <1>3
    <3>2. <<X(i)>>[1] = X(i)
      BY SingleIs
    <3> HIDE DEF X
    <3> QED
      BY <1>6, <3>1, <3>2 DEF OutsideHole
  <2> QED
    BY <2>1
<1>8. DOMAIN ss = 1..n /\ \A i \in 1..n : ss[i] = WithRows(mem[X(i)])
  <2>1. \A i \in 1..n : Value(c.args[i]) = mem[X(i)]
    <3>1. \A i \in 1..n : Len(c.args[i]) = 1
      BY <1>2, SingleIs
    <3> QED
      BY <3>1 DEF Value
  <2> QED
    BY <1>2, <2>1
<1>9. Released = FlattenSeq(ss)
  BY DEF Released
<1> HIDE DEF ss, X
<1>10. \A i \in 1..n : WholeOf(X(i)) /\ \A b \in ToSet(WithRows(mem[X(i)])) : ~heap[b].frame
  BY <1>2, <1>4, <1>7, WholeFacts
<1>11. ss \in Seq(Seq(Nat)) /\ Len(ss) = n
  <2>1. \A i \in 1..n : ss[i] \in Seq(Nat)
    BY <1>8, <1>10 DEF WholeOf
  <2>2. ss = [i \in 1..n |-> ss[i]]
    BY <1>8 DEF ss
  <2>3. ss \in [1..n -> Seq(Nat)]
    BY <2>1, <2>2
  <2> QED
    BY <2>3
<1>12. \A i \in 1..n : IsInjective(ss[i])
  BY <1>8, <1>10 DEF WholeOf
<1>13. ASSUME NEW i \in 1..n, NEW j \in 1..n, i # j PROVE ToSet(ss[i]) \cap ToSet(ss[j]) = {}
  <2>1. SUFFICES ASSUME NEW b \in ToSet(ss[i]), b \in ToSet(ss[j]) PROVE FALSE
    OBVIOUS
  <2>2. Owned2(mem[X(i)], b) /\ Owned2(mem[X(j)], b)
    BY <1>8, <1>10, <2>1 DEF WholeOf
  <2>3. X(i) # X(j)
    BY <1>5, <1>13
  <2> QED
    BY <1>2, <1>7, <2>2, <2>3, OwnersApart
<1>14. IsInjective(Released) /\ \A b : b \in ToSet(Released) <=> \E i \in 1..n : b \in ToSet(ss[i])
  BY <1>9, <1>11, <1>12, <1>13, FlattenedIs
<1>15. \A b : b \in ToSet(Released) <=> \E x \in Passed(c) : Owned2(mem[x], b)
  <2>1. \A b : \A i \in 1..n : b \in ToSet(ss[i]) <=> Owned2(mem[X(i)], b)
    BY <1>8, <1>10 DEF WholeOf
  <2> QED
    BY <1>3, <1>14, <2>1
<1>16. \A b \in ToSet(Released) : heap[b].alive /\ ~heap[b].frame
  BY <1>8, <1>10, <1>14 DEF WholeOf
<1>17. \A l \in ToSet(c.args) : \E x : l = <<x>>
  BY <1>2 DEF ToSet
<1>18. Given(A, Passed(c))
  BY <1>2, <1>3, <1>4, <1>6, <1>7 DEF Given
<1> QED
  BY <1>14, <1>15, <1>16, <1>17, <1>18 DEF GivesBack

\* A call is given blocks that are alive, each once.
LEMMA CallSafe ==
  ASSUME NEW A, Now(A), NEW B, CallsFor(c, A, B)
  PROVE  Safe
<1>1. c.op = "call" /\ Passes(c, A) /\ c.from = << >>
  BY DEF CallsFor, Passes
<1>2. GivesBack(Passed(c))
  BY <1>1, CallGives
<1>3. c.to = << >> \/ Located(A, c.to) \/ \E x : c.to = <<x>>
  BY HoleLeads DEF CallsFor, Now, Leads2
<1>4. \A l \in Locations : Holder(l) # 0 => heap[Holder(l)].alive
  BY <1>1, <1>2, <1>3, HolderFine DEF Locations, GivesBack
<1> QED
  BY <1>1, <1>2, <1>4, SafeWhen DEF GivesBack

\* After a call what it was given is gone and what it returned has an owner.
LEMMA CallStep ==
  ASSUME NEW A, Now(A), NEW B, CallsFor(c, A, B), Calls
  PROVE  Took(B)
<1>1. c.op = "call" /\ Passes(c, A)
  BY DEF CallsFor
<1> DEFINE S == Passed(c)
           h == Freed(heap, ToSet(Released))
           A2 == Without(A, S)
<1>2. Given(A, S) /\ GivesBack(S)
  BY <1>1, CallGives
<1>3. \A b : b # 0 => (b \in ToSet(Released) <=> \E x \in S : b \in Parts(mem, heap, x))
  BY <1>2, PartsAre DEF GivesBack
<1>4. turn' = turn /\ index' = index /\ pc' = pc + 1
  BY DEF Calls, Go
<1>5. IF c.to = << >> THEN heap' = h /\ mem' = mem
      ELSE /\ heap' = HeapWith(Made(h, c.kind, FALSE), c.to, Len(h) + 1)
           /\ mem' = MemWith(c.to, Len(h) + 1)
  BY DEF Calls
<1> DEFINE F == ToSet(Released)
<1> HIDE DEF S, h
<1>6. Sound(A2, mem, h, turn, index)
  <2> HIDE DEF F
  <2>1. \A b : b # 0 => (b \in F <=> \E x \in S : b \in Parts(mem, heap, x))
    BY <1>3 DEF F
  <2>2. Sound(Without(A, S), mem, Freed(heap, F), turn, index)
    BY <1>2, <2>1, FreedSound DEF Now, Given
  <2> QED
    BY <2>2 DEF F, h
<1>7. LeftOf(A, S, A2)
  BY WithoutIs
<1> HIDE DEF A2
<1>8. CASE c.to = << >> /\ B = Without(A, S)
  BY <1>4, <1>5, <1>6, <1>8 DEF Took, A2
<1>9. ASSUME c.kind \in {"leaf", "tree"}, NEW x \in Names, c.to = <<x>>, IsFree(A, x), B = Owns(Without(A, S), x, c.kind)
      PROVE  Took(B)
  <2>1. IsFree(A2, x)
    BY <1>7, <1>9 DEF IsFree, LeftOf
  <2>2. heap' = Made(h, c.kind, FALSE) /\ mem' = [mem EXCEPT ![x] = Len(h) + 1]
    BY <1>5, <1>9, SingleIs DEF HeapWith, MemWith
  <2> DEFINE kd == c.kind
             fr == FALSE
  <2>3. kd \in {"leaf", "tree"} /\ fr \in BOOLEAN /\ (fr => kd = "tree")
    BY <1>9
  <2> HIDE DEF kd, fr
  <2>4. Sound(Owns(A2, x, IF fr THEN "frame" ELSE kd), [mem EXCEPT ![x] = Len(h) + 1], Made(h, kd, fr), turn, index)
    BY <1>6, <2>1, <2>3, MadeSound
  <2> QED
    BY <1>4, <1>9, <2>2, <2>4 DEF Took, A2, kd, fr
<1>10. ASSUME HoleOf(A) # << >>, c.to = HoleOf(A), Fill(A) = << >>, c.kind = "leaf",
              B = Hole(Without(A, S), << >>, << >>)
       PROVE  Took(B)
  <2>1. HoleOf(A2) = HoleOf(A)
    BY <1>7 DEF LeftOf
  <2>2. Located(A, c.to) /\ c.to # << >>
    BY <1>10, HoleLeads DEF Now, Leads2
  <2>v. /\ \A v : MemWith(c.to, v) = MemPut(mem, c.to, v)
        /\ \A g, v : HeapWith(g, c.to, v) = HeapPut(mem, g, index, c.to, v)
    BY <2>2, ValueIs, Zenon
  <2>3. heap' = HeapPut(mem, Made(h, "leaf", FALSE), index, c.to, Len(h) + 1) /\ mem' = MemPut(mem, c.to, Len(h) + 1)
    <3>1. heap' = HeapWith(Made(h, c.kind, FALSE), c.to, Len(h) + 1) /\ mem' = MemWith(c.to, Len(h) + 1)
      BY <1>5, <2>2
    <3> QED
      BY <1>10, <2>v, <3>1
  <2>4. Sound(Hole(A2, << >>, << >>), MemPut(mem, HoleOf(A2), Len(h) + 1),
              HeapPut(mem, Made(h, "leaf", FALSE), index, HoleOf(A2), Len(h) + 1), turn, index)
    BY <1>6, <1>10, <2>1, NewFillSound
  <2> QED
    BY <1>4, <1>10, <2>1, <2>3, <2>4 DEF Took, A2
<1> QED
  BY <1>8, <1>9, <1>10 DEF CallsFor, S

-----------------------------------------------------------------------------
\* One statement.
LEMMA EffectSafe ==
  ASSUME NEW A, Now(A), NEW B, Effect(c, A, B), ~FollowsNull
  PROVE  Safe
BY CreatesSafe, CopySafe, TwinSafe, HandSafe, FillSafe, EmptySafe, FilledSafe, OwnerFreedSafe, RowFreedSafe, CallSafe
   DEF Effect

EffectOps == {"new", "frame", "copy", "mov", "null", "free", "fini", "call"}
\* The statements that change what is owned.
LEMMA EffectOp ==
  ASSUME NEW A, NEW B, NEW c1, Effect(c1, A, B)
  PROVE  c1.op \in EffectOps
BY DEF Effect, EffectOps, Creates, Copies, MakesTwin, HandsOver, FillsHole, EmptiesTwin, EmptiesFill, FreesOwner,
       FreesRow, CallsFor

\* A statement's effect on the point is its effect on the memory.
LEMMA EffectStep ==
  ASSUME NEW A, Now(A), NEW B, Effect(c, A, B), Create \/ Store \/ FreeOrCopy \/ Calls
  PROVE  Took(B)
<1>1. CASE Creates(c, A, B)
  <2>1. Create
    BY <1>1 DEF Creates, Create, Store, FreeOrCopy, Calls, Runs
  <2> QED
    BY <1>1, <2>1, CreatesStep
<1>2. CASE Copies(c, A, B)
  <2>1. FreeOrCopy
    BY <1>2 DEF Copies, Create, Store, FreeOrCopy, Calls, Runs
  <2> QED
    BY <1>2, <2>1, CopyStep
<1>3. CASE MakesTwin(c, A, B) \/ HandsOver(c, A, B) \/ FillsHole(c, A, B) \/ EmptiesTwin(c, A, B) \/ EmptiesFill(c, A, B)
  <2>1. Store
    BY <1>3 DEF MakesTwin, HandsOver, FillsHole, EmptiesTwin, EmptiesFill, Create, Store, FreeOrCopy, Calls, Runs
  <2> QED
    BY <1>3, <2>1, TwinStep, HandStep, FillStep, EmptyStep, FilledStep
<1>4. CASE FreesOwner(c, A, B) \/ FreesRow(c, A, B)
  <2>1. FreeOrCopy
    BY <1>4 DEF FreesOwner, FreesRow, Create, Store, FreeOrCopy, Calls, Runs
  <2> QED
    BY <1>4, <2>1, OwnerFreedStep, RowFreedStep
<1>5. CASE CallsFor(c, A, B)
  <2>1. Calls
    BY <1>5 DEF CallsFor, Create, Store, FreeOrCopy, Calls, Runs
  <2> QED
    BY <1>5, <2>1, CallStep
<1> QED
  BY <1>1, <1>2, <1>3, <1>4, <1>5 DEF Effect

-----------------------------------------------------------------------------
\* Where jumps go.

\* What a statement makes of the constructs around it.
LEMMA FlowKeeps ==
  ASSUME NEW c1, NEW A, NEW C, NEW B, NEW D, Flow(c1, A, C, B, D), NEW n
  PROVE  /\ n \in DOMAIN C /\ ~(c1.op = "end" /\ c1.nest = n) => n \in DOMAIN D
         /\ n \in DOMAIN C /\ Way(C[n]) # "fresh" /\ n \in DOMAIN D => D[n] = C[n]
         /\ n \in DOMAIN D /\ Way(D[n]) = "loop" /\ ~(n \in DOMAIN C /\ C[n] = D[n])
            => Tests(c1, A, C, B, D) /\ c1.nest = n
         /\ c1.op = "test" /\ c1.nest = n => n \in DOMAIN C /\ Way(C[n]) = "fresh"
         /\ c1.op = "end" => Ends(c1, A, C, B, D)
         /\ c1.op = "else" => Elses(c1, A, C, B, D)
<1> DEFINE G == /\ n \in DOMAIN C /\ ~(c1.op = "end" /\ c1.nest = n) => n \in DOMAIN D
                /\ n \in DOMAIN C /\ Way(C[n]) # "fresh" /\ n \in DOMAIN D => D[n] = C[n]
                /\ n \in DOMAIN D /\ Way(D[n]) = "loop" /\ ~(n \in DOMAIN C /\ C[n] = D[n])
                   => Tests(c1, A, C, B, D) /\ c1.nest = n
                /\ c1.op = "test" /\ c1.nest = n => n \in DOMAIN C /\ Way(C[n]) = "fresh"
                /\ c1.op = "end" => Ends(c1, A, C, B, D)
                /\ c1.op = "else" => Elses(c1, A, C, B, D)
<1>0. \A w, a, b : Way(Entry(w, a, b)) = w
  BY DEF Way, Entry
<1>1. CASE D = C /\ c1.op \notin {"test", "end", "else"}
  BY <1>1
<1>2. CASE Effect(c1, A, B) /\ D = C
  BY <1>1, <1>2, EffectOp DEF EffectOps
<1>3. CASE Ifs(c1, A, C, B, D)
  <2>1. c1.op = "if" /\ c1.nest \notin DOMAIN C /\ D = With(C, c1.nest, Entry("branch", A, A))
    BY <1>3 DEF Ifs
  <2>2. /\ DOMAIN D = DOMAIN C \cup {c1.nest} /\ D[c1.nest] = Entry("branch", A, A)
        /\ \A k \in DOMAIN C : D[k] = C[k]
    BY <2>1 DEF With
  <2> QED
    BY <1>0, <2>1, <2>2
<1>4. CASE Elses(c1, A, C, B, D)
  BY <1>4 DEF Elses
<1>5. CASE Ends(c1, A, C, B, D)
  <2>1. c1.op = "end" /\ c1.nest \in DOMAIN C /\ D = Less(C, {c1.nest})
    BY <1>5 DEF Ends
  <2>2. DOMAIN D = DOMAIN C \ {c1.nest} /\ \A k \in DOMAIN D : D[k] = C[k]
    BY <2>1 DEF Less
  <2> QED
    BY <1>5, <2>1, <2>2
<1>6. CASE Begins(c1, A, C, B, D)
  <2>1. c1.op = "loop" /\ c1.nest \notin DOMAIN C /\ \E out : D = With(C, c1.nest, Entry("fresh", A, out))
    BY <1>6 DEF Begins
  <2>2. PICK out : D = With(C, c1.nest, Entry("fresh", A, out))
    BY <2>1
  <2>3. /\ DOMAIN D = DOMAIN C \cup {c1.nest} /\ D[c1.nest] = Entry("fresh", A, out)
        /\ \A k \in DOMAIN C : D[k] = C[k]
    BY <2>1, <2>2 DEF With
  <2> QED
    BY <1>0, <2>1, <2>3
<1>7. CASE Tests(c1, A, C, B, D)
  <2>1. /\ c1.op = "test" /\ c1.nest \in DOMAIN C /\ Way(C[c1.nest]) = "fresh"
        /\ D = With(C, c1.nest, Entry("loop", Top(C[c1.nest]), Out(C[c1.nest])))
    BY <1>7 DEF Tests
  <2>2. /\ DOMAIN D = DOMAIN C
        /\ \A k \in DOMAIN C : k # c1.nest => D[k] = C[k]
    BY <2>1 DEF With
  <2> QED
    BY <1>7, <2>1, <2>2
<1>8. CASE Steps(c1, A, C, B, D) \/ BreaksOff(c1, A, C, B, D) \/ Repeats(c1, A, C, B, D) \/ Exits(c1, A, C, B, D)
  BY <1>1, <1>8 DEF Steps, BreaksOff, Repeats, Exits
<1>9. G
  BY <1>2, <1>3, <1>4, <1>5, <1>6, <1>7, <1>8 DEF Flow
<1> QED
  BY <1>9

\* The code is complete: its constructs have ended, and it does not run off its end.
Whole(p, q, also, A) ==
  /\ Noted(code, owners, also, A, p, q)
  /\ q[Len(code) + 1] = Nothing
  /\ code # << >> /\ code[Len(code)].op \in {"break", "continue", "return"}

\* Complete code has a point before and behind each statement, and no construct is
\* around it.
LEMMA WholeIs ==
  ASSUME NEW p, NEW q, NEW also, NEW A, Whole(p, q, also, A)
  PROVE  /\ Len(code) \in Nat /\ DOMAIN code = 1..Len(code)
         /\ \A i \in 1..Len(code) : Flow(code[i], p[i], q[i], p[i + 1], q[i + 1])
         /\ DOMAIN q[1] = {} /\ DOMAIN q[Len(code) + 1] = {}
<1>1. IsSeq(code) /\ \A i \in 1..Len(code) : Flow(code[i], p[i], q[i], p[i + 1], q[i + 1])
  BY DEF Whole, Noted
<1>2. Len(code) \in Nat /\ DOMAIN code = 1..Len(code)
  <2>1. Len(code) \in Nat /\ code = [i \in 1..Len(code) |-> code[i]]
    BY <1>1 DEF IsSeq
  <2>2. DOMAIN [i \in 1..Len(code) |-> code[i]] = 1..Len(code)
    OBVIOUS
  <2> QED
    BY <2>1, <2>2
<1>3. DOMAIN q[1] = {} /\ DOMAIN q[Len(code) + 1] = {}
  BY DEF Whole, Noted, Nothing
<1> QED
  BY <1>1, <1>2, <1>3

\* From a statement inside construct n, an end of n follows, and till then what is known of n stays.
LEMMA AheadIs ==
  ASSUME NEW p, NEW q, NEW also, NEW A, Whole(p, q, also, A), pc \in DOMAIN code,
         NEW n, n \in DOMAIN q[pc + 1], Way(q[pc + 1][n]) # "fresh",
         NEW ops, "end" \in ops, ops \subseteq {"else", "end"}
  PROVE  LET r == Ahead(ops, n)
         IN  /\ r \in DOMAIN code /\ r + 1 \in DOMAIN code
             /\ code[r].op \in ops /\ code[r].nest = n
             /\ n \in DOMAIN q[r] /\ q[r][n] = q[pc + 1][n]
             /\ code[r].op = "end" => p[r + 1] = Out(q[pc + 1][n])
             /\ code[r].op = "else" => p[r + 1] = Top(q[pc + 1][n])
<1>1. /\ Len(code) \in Nat /\ DOMAIN code = 1..Len(code)
      /\ \A i \in 1..Len(code) : Flow(code[i], p[i], q[i], p[i + 1], q[i + 1])
      /\ DOMAIN q[1] = {} /\ DOMAIN q[Len(code) + 1] = {}
  BY WholeIs
<1> DEFINE Found == {r \in DOMAIN code : r > pc /\ code[r].op \in ops /\ code[r].nest = n}
           T == {j \in pc + 1..Len(code) + 1 : n \notin DOMAIN q[j]}
<1>2. Found # {}
  <2>1. T \in SUBSET Nat /\ Len(code) + 1 \in T
    BY <1>1
  <2>2. PICK j \in T : \A k \in T : j <= k
    <3> HIDE DEF T
    <3> QED
      BY <2>1, LeastNat
  <2>3. j # pc + 1 /\ j \in pc + 1..Len(code) + 1 /\ n \notin DOMAIN q[j]
    OBVIOUS
  <2>4. j - 1 \in pc + 1..Len(code) /\ j - 1 \in 1..Len(code) /\ j - 1 + 1 = j /\ j - 1 < j /\ j - 1 > pc
    BY <1>1, <2>3
  <2>5. n \in DOMAIN q[j - 1]
    <3>1. j - 1 \notin T
      <4> HIDE DEF T
      <4> QED
        BY <1>1, <2>1, <2>2, <2>4
    <3> QED
      BY <1>1, <2>4, <3>1
  <2>6. Flow(code[j - 1], p[j - 1], q[j - 1], p[j], q[j])
    BY <1>1, <2>4
  <2>7. code[j - 1].op = "end" /\ code[j - 1].nest = n
    BY <2>3, <2>5, <2>6, FlowKeeps
  <2> QED
    BY <1>1, <2>4, <2>7
<1>3. PICK r \in Found : \A k \in Found : r <= k
  <2>1. Found \in SUBSET Nat
    BY <1>1
  <2> HIDE DEF Found
  <2> QED
    BY <1>2, <2>1, LeastNat
<1> DEFINE P(x) == /\ x \in {q1 \in DOMAIN code : q1 > pc /\ code[q1].op \in ops /\ code[q1].nest = n}
                   /\ \A k \in pc + 1..x - 1 : ~(code[k].op \in ops /\ code[k].nest = n)
<1>4. P(r)
  <2>1. ASSUME NEW k \in pc + 1..r - 1, code[k].op \in ops, code[k].nest = n PROVE FALSE
    <3>1. k \in DOMAIN code /\ k > pc /\ k < r /\ k \in Nat /\ r \in Nat
      BY <1>1
    <3>2. k \in Found
      BY <2>1, <3>1
    <3> HIDE DEF Found
    <3> QED
      BY <1>3, <3>1, <3>2
  <2> QED
    BY <2>1
<1>5. P(Ahead(ops, n))
  <2>1. Ahead(ops, n) = CHOOSE x : P(x)
    BY DEF Ahead
  <2> HIDE DEF P
  <2> QED
    BY <1>4, <2>1
<1> DEFINE s == Ahead(ops, n)
<1>6. s \in DOMAIN code /\ s > pc /\ code[s].op \in ops /\ code[s].nest = n
      /\ \A k \in pc + 1..s - 1 : ~(code[k].op \in ops /\ code[k].nest = n)
  BY <1>5
<1> HIDE DEF s, P, Found, T
<1> DEFINE U == {j \in pc + 1..s : ~(n \in DOMAIN q[j] /\ q[j][n] = q[pc + 1][n])}
<1>7. U = {}
  <2> SUFFICES ASSUME U # {} PROVE FALSE
    OBVIOUS
  <2>1. U \in SUBSET Nat
    BY <1>1
  <2>2. PICK j \in U : \A k \in U : j <= k
    <3> HIDE DEF U
    <3> QED
      BY <2>1, LeastNat
  <2>3. j \in pc + 1..s /\ j # pc + 1 /\ ~(n \in DOMAIN q[j] /\ q[j][n] = q[pc + 1][n])
    OBVIOUS
  <2>4. j - 1 \in pc + 1..s - 1 /\ j - 1 \in pc + 1..s /\ j - 1 \in 1..Len(code) /\ j - 1 + 1 = j /\ j - 1 < j
    BY <1>1, <1>6, <2>3
  <2>5. n \in DOMAIN q[j - 1] /\ q[j - 1][n] = q[pc + 1][n]
    <3>1. j - 1 \notin U
      <4> HIDE DEF U
      <4> QED
        BY <1>1, <2>1, <2>2, <2>4
    <3> QED
      BY <2>4, <3>1
  <2>6. Flow(code[j - 1], p[j - 1], q[j - 1], p[j], q[j])
    BY <1>1, <2>4
  <2>7. ~(code[j - 1].op = "end" /\ code[j - 1].nest = n)
    BY <1>6, <2>4
  <2>8. n \in DOMAIN q[j] /\ q[j][n] = q[j - 1][n]
    BY <2>5, <2>6, <2>7, FlowKeeps
  <2> QED
    BY <2>3, <2>5, <2>8
<1>8. n \in DOMAIN q[s] /\ q[s][n] = q[pc + 1][n]
  <2>1. s \in pc + 1..s
    BY <1>1, <1>6
  <2> QED
    BY <1>7, <2>1
<1>9. s + 1 \in DOMAIN code
  <2>1. s # Len(code)
    BY <1>6 DEF Whole
  <2> QED
    BY <1>1, <1>6, <2>1
<1>10. Flow(code[s], p[s], q[s], p[s + 1], q[s + 1])
  BY <1>1, <1>6
<1>11. ASSUME code[s].op = "end" PROVE p[s + 1] = Out(q[pc + 1][n])
  <2>1. Ends(code[s], p[s], q[s], p[s + 1], q[s + 1])
    BY <1>10, <1>11, FlowKeeps
  <2> QED
    BY <1>6, <1>8, <2>1 DEF Ends
<1>12. ASSUME code[s].op = "else" PROVE p[s + 1] = Top(q[pc + 1][n])
  <2>1. Elses(code[s], p[s], q[s], p[s + 1], q[s + 1])
    BY <1>10, <1>12, FlowKeeps
  <2> QED
    BY <1>6, <1>8, <2>1 DEF Elses
<1> QED
  BY <1>6, <1>8, <1>9, <1>11, <1>12 DEF s

\* Inside a loop that has been tested, what is known at its test is known of it.
LEMMA TestIs ==
  ASSUME NEW p, NEW q, NEW also, NEW A, Whole(p, q, also, A), pc \in DOMAIN code,
         code[pc].op # "test", NEW n, n \in DOMAIN q[pc], Way(q[pc][n]) = "loop"
  PROVE  TestOf(n) \in DOMAIN code /\ p[TestOf(n)] = Top(q[pc][n])
<1>1. /\ Len(code) \in Nat /\ DOMAIN code = 1..Len(code)
      /\ \A i \in 1..Len(code) : Flow(code[i], p[i], q[i], p[i + 1], q[i + 1])
      /\ DOMAIN q[1] = {}
  BY WholeIs
<1> DEFINE Same(k) == n \in DOMAIN q[k] /\ q[k][n] = q[pc][n]
           T == {j \in 1..pc : \A k \in j..pc : Same(k)}
<1>2. PICK j \in T : \A k \in T : j <= k
  <2>1. \A k \in pc..pc : k = pc
    BY <1>1
  <2>2. pc \in T
    BY <1>1, <2>1
  <2>3. T \in SUBSET Nat
    BY <1>1
  <2> HIDE DEF T
  <2> QED
    BY <2>2, <2>3, LeastNat
<1>3. j \in 1..pc /\ \A k \in j..pc : Same(k)
  OBVIOUS
<1>4. j # 1
  <2>1. j \in j..pc
    BY <1>1, <1>3
  <2> QED
    BY <1>1, <1>3, <2>1
<1> DEFINE t == j - 1
<1>5. t \in 1..pc - 1 /\ t \in 1..Len(code) /\ t + 1 = j /\ t < j
  BY <1>1, <1>3, <1>4
<1>6. ~Same(t)
  <2>1. t \notin T
    <3>1. t \in T => j <= t
      <4> HIDE DEF T, t
      <4> QED
        BY <1>2
    <3>2. T \subseteq Nat
      BY <1>1
    <3> HIDE DEF T
    <3> QED
      BY <1>1, <1>3, <1>5, <3>1
  <2>2. PICK k \in t..pc : ~Same(k)
    BY <1>1, <1>5, <2>1
  <2>3. k = t \/ k \in j..pc
    BY <1>1, <1>5, <2>2
  <2> QED
    BY <1>3, <2>2, <2>3
<1>7. Flow(code[t], p[t], q[t], p[j], q[j])
  <2>1. Flow(code[t], p[t], q[t], p[t + 1], q[t + 1])
    BY <1>1, <1>5
  <2> QED
    BY <1>5, <2>1
<1>8. Same(j)
  <2>1. j \in j..pc
    BY <1>1, <1>3
  <2> QED
    BY <1>3, <2>1
<1> HIDE DEF t, T
<1>9. Tests(code[t], p[t], q[t], p[j], q[j]) /\ code[t].nest = n
  <2>1. n \in DOMAIN q[j] /\ Way(q[j][n]) = "loop" /\ ~(n \in DOMAIN q[t] /\ q[t][n] = q[j][n])
    BY <1>6, <1>8
  <2> QED
    BY <1>7, <2>1, FlowKeeps
<1>10. code[t].op = "test" /\ p[t] = Top(q[pc][n])
  <2>1. /\ code[t].op = "test" /\ Top(q[t][n]) = p[t]
        /\ q[j] = With(q[t], n, Entry("loop", Top(q[t][n]), Out(q[t][n])))
    BY <1>9 DEF Tests
  <2>2. q[j][n] = Entry("loop", Top(q[t][n]), Out(q[t][n]))
    BY <2>1 DEF With
  <2>3. Top(q[j][n]) = p[t]
    BY <2>1, <2>2 DEF Top, Entry
  <2> QED
    BY <1>8, <2>1, <2>3
<1>11. \A r \in t + 1..pc : ~(code[r].op = "test" /\ code[r].nest = n)
  <2> SUFFICES ASSUME NEW r \in t + 1..pc, code[r].op = "test", code[r].nest = n PROVE FALSE
    OBVIOUS
  <2>1. r \in 1..Len(code) /\ r \in j..pc
    BY <1>1, <1>5
  <2>2. Flow(code[r], p[r], q[r], p[r + 1], q[r + 1])
    BY <1>1, <2>1
  <2>3. Way(q[r][n]) = "fresh"
    BY <2>2, FlowKeeps
  <2> QED
    BY <1>3, <2>1, <2>3
<1> DEFINE P(x) == /\ x \in {q1 \in 1..pc : code[q1].op = "test" /\ code[q1].nest = n}
                   /\ \A r \in x + 1..pc : ~(code[r].op = "test" /\ code[r].nest = n)
<1>12. P(t)
  BY <1>1, <1>5, <1>9, <1>10, <1>11
<1>13. P(TestOf(n))
  <2>1. TestOf(n) = CHOOSE x : P(x)
    BY DEF TestOf
  <2> HIDE DEF P
  <2> QED
    BY <1>12, <2>1
<1>14. TestOf(n) = t
  <2> DEFINE s == TestOf(n)
  <2>1. s \in 1..pc /\ code[s].op = "test" /\ code[s].nest = n
        /\ \A r \in s + 1..pc : ~(code[r].op = "test" /\ code[r].nest = n)
    BY <1>13
  <2> HIDE DEF s
  <2>2. s \notin t + 1..pc
    BY <1>11, <2>1
  <2>3. t \notin s + 1..pc
    BY <1>9, <1>10, <2>1
  <2>4. s = t
    BY <1>1, <1>5, <2>1, <2>2, <2>3
  <2> QED
    BY <2>4 DEF s
<1> QED
  BY <1>1, <1>5, <1>10, <1>14

\* What a statement does is told by its kind.
LEMMA FlowIs ==
  ASSUME NEW c1, NEW A, NEW C, NEW B, NEW D, Flow(c1, A, C, B, D)
  PROVE  /\ c1.op \in EffectOps \cup {"if", "else", "end", "loop", "test", "step", "break", "continue", "again", "return"}
         /\ c1.op \in EffectOps => Effect(c1, A, B) /\ D = C
         /\ c1.op = "if" => Ifs(c1, A, C, B, D)
         /\ c1.op = "else" => Elses(c1, A, C, B, D)
         /\ c1.op = "end" => Ends(c1, A, C, B, D)
         /\ c1.op = "loop" => Begins(c1, A, C, B, D)
         /\ c1.op = "test" => Tests(c1, A, C, B, D)
         /\ c1.op = "step" => Steps(c1, A, C, B, D)
         /\ c1.op = "break" => BreaksOff(c1, A, C, B, D)
         /\ c1.op \in {"continue", "again"} => Repeats(c1, A, C, B, D)
         /\ c1.op = "return" => Exits(c1, A, C, B, D)
<1>0. Effect(c1, A, B) => c1.op \in EffectOps
  BY EffectOp
<1>1. /\ Ifs(c1, A, C, B, D) => c1.op = "if"
      /\ Elses(c1, A, C, B, D) => c1.op = "else"
      /\ Ends(c1, A, C, B, D) => c1.op = "end"
      /\ Begins(c1, A, C, B, D) => c1.op = "loop"
      /\ Tests(c1, A, C, B, D) => c1.op = "test"
      /\ Steps(c1, A, C, B, D) => c1.op = "step"
      /\ BreaksOff(c1, A, C, B, D) => c1.op = "break"
      /\ Repeats(c1, A, C, B, D) => c1.op \in {"continue", "again"}
      /\ Exits(c1, A, C, B, D) => c1.op = "return"
  BY DEF Ifs, Elses, Ends, Begins, Tests, Steps, BreaksOff, Repeats, Exits
<1> QED
  BY <1>0, <1>1 DEF Flow, EffectOps

\* Where more is known than a jump's target needs, what the target needs holds.
LEMMA LeadsSound ==
  ASSUME NEW A, NEW X, NEW m, NEW h, NEW tn, NEW ix, NEW tn2 \in [Nests -> Nat],
         Sound(A, m, h, tn, ix), Leads(A, X)
  PROVE  Sound(X, m, h, tn2, ix)
<1>1. /\ Own(X) = Own(A) /\ HoleOf(A) = << >> /\ HoleOf(X) = << >> /\ Turns(X) = {}
      /\ DOMAIN Twin(X) \subseteq DOMAIN Twin(A)
      /\ \A t \in DOMAIN Twin(X) : Twin(X)[t] = Twin(A)[t]
  BY DEF Leads
<1>2. TurnsIn(X, tn2)
  BY <1>1 DEF TurnsIn
<1> QED
  BY <1>1, <1>2, WeakSound

-----------------------------------------------------------------------------
\* Every step of the code leads to a point where what is known there is true.

Here2(p) == pc \in DOMAIN code /\ Now(p[pc])
There(p) == pc' \in DOMAIN code /\ Sound(p[pc'], mem', heap', turn', index')

\* A statement that does not jump has another behind it.
LEMMA Onward ==
  ASSUME NEW p, NEW q, NEW also, NEW A, Whole(p, q, also, A), Here2(p),
         c.op \notin {"break", "continue", "return"}
  PROVE  pc + 1 \in DOMAIN code /\ pc \in Nat
<1>1. pc # Len(code)
  BY DEF Whole, c
<1>2. Len(code) \in Nat /\ DOMAIN code = 1..Len(code)
  BY WholeIs
<1>3. pc \in 1..Len(code) /\ Len(code) \in Nat
  BY <1>2 DEF Here2
<1>4. pc + 1 \in 1..Len(code) /\ pc \in Nat
  BY <1>1, <1>3
<1> QED
  BY <1>2, <1>4

\* A statement that changes what is owned leads to the point behind it.
LEMMA EffectGoes ==
  ASSUME NEW p, NEW q, NEW also, NEW A, Whole(p, q, also, A), Here2(p),
         Create \/ Store \/ FreeOrCopy \/ Calls
  PROVE  There(p)
<1>1. Flow(c, p[pc], q[pc], p[pc + 1], q[pc + 1])
  BY WholeIs DEF Here2, c
<1>2. c.op \in EffectOps
  BY DEF Create, Store, FreeOrCopy, Calls, Runs, EffectOps
<1>3. Effect(c, p[pc], p[pc + 1])
  BY <1>1, <1>2, FlowIs
<1>4. Took(p[pc + 1])
  BY <1>3, EffectStep DEF Here2
<1>5. pc + 1 \in DOMAIN code
  BY <1>2, Onward DEF EffectOps
<1> QED
  BY <1>4, <1>5 DEF Took, There

\* Either way of an if leads to a point that holds.
LEMMA BranchGoes ==
  ASSUME NEW p, NEW q, NEW also, NEW A, Whole(p, q, also, A), Here2(p), Branch
  PROVE  There(p)
<1> DEFINE P == p[pc]
           C == q[pc]
           B == p[pc + 1]
           D == q[pc + 1]
           n == c.nest
<1>1. Flow(c, P, C, B, D)
  BY WholeIs DEF Here2, c
<1>2. c.op \in {"if", "else", "end"} /\ mem' = mem /\ heap' = heap /\ turn' = turn /\ index' = index
  BY DEF Branch, Runs, Goto, Go
<1>3. turn \in [Nests -> Nat] /\ Sound(P, mem, heap, turn, index) /\ pc \in DOMAIN code
  BY NowTyped DEF Here2, Now
<1>4. pc + 1 \in DOMAIN code
  BY <1>2, Onward
<1> SUFFICES pc' \in DOMAIN code /\ Sound(p[pc'], mem, heap, turn, index)
  BY <1>2 DEF There
<1> DEFINE r(ops) == Ahead(ops, n)
<1>5. CASE c.op = "if"
  <2>1. Ifs(c, P, C, B, D)
    BY <1>1, <1>5, FlowIs
  <2>2. Leads(P, P) /\ B = P /\ n \in DOMAIN D /\ D[n] = Entry("branch", P, P)
    BY <2>1 DEF Ifs, With
  <2>3. pc' = pc + 1 \/ pc' = Ahead({"else", "end"}, n) + 1
    BY <1>5 DEF Branch, Goto
  <2>4. CASE pc' = pc + 1
    BY <1>3, <1>4, <2>2, <2>4
  <2>5. CASE pc' = Ahead({"else", "end"}, n) + 1
    <3>1. Way(D[n]) # "fresh" /\ Top(D[n]) = P /\ Out(D[n]) = P
      BY <2>2 DEF Way, Top, Out, Entry
    <3> DEFINE s == Ahead({"else", "end"}, n)
    <3>2. /\ s + 1 \in DOMAIN code /\ code[s].op \in {"else", "end"}
          /\ code[s].op = "end" => p[s + 1] = Out(D[n])
          /\ code[s].op = "else" => p[s + 1] = Top(D[n])
      BY <1>3, <2>2, <3>1, AheadIs
    <3> QED
      BY <1>3, <2>5, <3>1, <3>2
  <2> QED
    BY <2>3, <2>4, <2>5
<1>6. CASE c.op = "else"
  <2>1. Elses(c, P, C, B, D)
    BY <1>1, <1>6, FlowIs
  <2>2. n \in DOMAIN C /\ Way(C[n]) = "branch" /\ Leads(P, Out(C[n])) /\ D = C
    BY <2>1 DEF Elses
  <2>3. pc' = Ahead({"end"}, n) + 1
    BY <1>6 DEF Branch, Goto
  <2> DEFINE s == Ahead({"end"}, n)
  <2>4. n \in DOMAIN D /\ Way(D[n]) # "fresh"
    BY <2>2
  <2>5. s + 1 \in DOMAIN code /\ p[s + 1] = Out(D[n])
    BY <1>3, <2>4, AheadIs
  <2>6. Sound(Out(C[n]), mem, heap, turn, index)
    BY <1>3, <2>2, LeadsSound
  <2> QED
    BY <2>2, <2>3, <2>5, <2>6
<1>7. CASE c.op = "end"
  <2>1. Ends(c, P, C, B, D)
    BY <1>1, <1>7, FlowIs
  <2>2. Leads(P, Out(C[n])) /\ B = Out(C[n])
    BY <2>1 DEF Ends
  <2>3. pc' = pc + 1
    BY <1>7 DEF Branch, Goto
  <2>4. Sound(Out(C[n]), mem, heap, turn, index)
    BY <1>3, <2>2, LeadsSound
  <2> QED
    BY <1>4, <2>2, <2>3, <2>4
<1> QED
  BY <1>2, <1>5, <1>6, <1>7

\* The start of a loop leads to a point that holds.
LEMMA LoopGoes ==
  ASSUME NEW p, NEW q, NEW also, NEW A, Whole(p, q, also, A), Here2(p), EnterLoop
  PROVE  There(p)
<1> DEFINE P == p[pc]
<1>1. Flow(c, P, q[pc], p[pc + 1], q[pc + 1])
  BY WholeIs DEF Here2, c
<1>2. c.op = "loop" /\ mem' = mem /\ heap' = heap /\ turn' = [turn EXCEPT ![c.nest] = 1] /\ index' = index /\ pc' = pc + 1
  BY DEF EnterLoop, Runs, Goto, Go
<1>3. turn \in [Nests -> Nat] /\ Sound(P, mem, heap, turn, index)
  BY NowTyped DEF Here2, Now
<1>4. Begins(c, P, q[pc], p[pc + 1], q[pc + 1])
  BY <1>1, <1>2, FlowIs
<1>5. p[pc + 1] = P /\ c.nest \in Nests
  BY <1>4 DEF Begins
<1>6. turn' \in [Nests -> Nat] /\ \A n \in Nests : turn'[n] = turn[n] \/ turn'[n] = 1
  BY <1>2, <1>3, <1>5
<1>7. 1 \in Slots
  BY SlotsAre
<1>8. TurnsIn(P, turn')
  BY <1>3, <1>6, <1>7 DEF Sound, TurnsIn
<1>9. Sound(P, mem, heap, turn', index)
  BY <1>3, <1>6, <1>8, WeakSound
<1>10. pc + 1 \in DOMAIN code
  BY <1>2, Onward
<1> QED
  BY <1>2, <1>5, <1>9, <1>10 DEF There

\* So does the test of a loop, whether it has turns left or not, ...
LEMMA TestGoes ==
  ASSUME NEW p, NEW q, NEW also, NEW A, Whole(p, q, also, A), Here2(p), Test
  PROVE  There(p)
<1> DEFINE P == p[pc]
           C == q[pc]
           B == p[pc + 1]
           D == q[pc + 1]
           n == c.nest
<1>1. Flow(c, P, C, B, D)
  BY WholeIs DEF Here2, c
<1>2. c.op = "test" /\ mem' = mem /\ heap' = heap /\ index' = index
  BY DEF Test, Runs, Goto, Go
<1>3. turn \in [Nests -> Nat] /\ Sound(P, mem, heap, turn, index) /\ pc \in DOMAIN code
  BY NowTyped DEF Here2, Now
<1>4. Tests(c, P, C, B, D)
  BY <1>1, <1>2, FlowIs
<1>5. /\ n \in Nests /\ n \in DOMAIN C /\ Leads(P, P) /\ Leads(P, Out(C[n]))
      /\ B = Point(Own(P), Twin(P), << >>, << >>, IF c.from # << >> THEN {n} ELSE {})
      /\ D = With(C, n, Entry("loop", Top(C[n]), Out(C[n])))
  BY <1>4 DEF Tests
<1>6. n \in DOMAIN D /\ Way(D[n]) # "fresh" /\ Out(D[n]) = Out(C[n])
  <2>1. n \in DOMAIN D /\ D[n] = Entry("loop", Top(C[n]), Out(C[n]))
    BY <1>5 DEF With
  <2> QED
    BY <2>1 DEF Way, Out, Entry
<1>7. \/ /\ turn[n] \in IF c.from # << >> THEN Slots ELSE 1..MaxTurns
         /\ pc' = pc + 1
         /\ turn' = IF c.from # << >> THEN turn ELSE [turn EXCEPT ![n] = @ + 1]
      \/ /\ pc' = Ahead({"end"}, n) + 1
         /\ turn' = turn
  BY DEF Test, Goto
<1>8. CASE pc' = Ahead({"end"}, n) + 1 /\ turn' = turn
  <2> DEFINE s == Ahead({"end"}, n)
  <2>1. s + 1 \in DOMAIN code /\ p[s + 1] = Out(D[n])
    BY <1>3, <1>6, AheadIs
  <2>2. Sound(Out(C[n]), mem, heap, turn, index)
    BY <1>3, <1>5, LeadsSound
  <2> QED
    BY <1>2, <1>6, <1>8, <2>1, <2>2 DEF There
<1>9. CASE /\ turn[n] \in IF c.from # << >> THEN Slots ELSE 1..MaxTurns
           /\ pc' = pc + 1
           /\ turn' = IF c.from # << >> THEN turn ELSE [turn EXCEPT ![n] = @ + 1]
  <2>1. Own(B) = Own(P) /\ Twin(B) = Twin(P) /\ HoleOf(B) = << >> /\ Turns(B) = (IF c.from # << >> THEN {n} ELSE {})
    BY <1>5, PointIs
  <2>2. HoleOf(P) = << >>
    BY <1>5 DEF Leads
  <2>3. turn' \in [Nests -> Nat]
    BY <1>3, <1>5, <1>9
  <2>4. TurnsIn(B, turn')
    BY <1>5, <1>9, <2>1 DEF TurnsIn
  <2>5. Sound(B, mem, heap, turn', index)
    BY <1>3, <2>1, <2>2, <2>3, <2>4, WeakSound
  <2>6. pc + 1 \in DOMAIN code
    BY <1>2, Onward
  <2> QED
    BY <1>2, <1>9, <2>5, <2>6 DEF There
<1> QED
  BY <1>7, <1>8, <1>9

\* ... a jump to the end or the next turn, ...
LEMMA JumpGoes ==
  ASSUME NEW p, NEW q, NEW also, NEW A, Whole(p, q, also, A), Here2(p), Jumps
  PROVE  There(p)
<1> DEFINE P == p[pc]
           C == q[pc]
           D == q[pc + 1]
           n == c.nest
<1>1. Flow(c, P, C, p[pc + 1], D)
  BY WholeIs DEF Here2, c
<1>2. c.op \in {"break", "continue", "again"} /\ mem' = mem /\ heap' = heap /\ turn' = turn /\ index' = index
      /\ pc' = IF c.op = "break" THEN Ahead({"end"}, n) + 1 ELSE TestOf(n)
  BY DEF Jumps, Runs, Goto, Go
<1>3. turn \in [Nests -> Nat] /\ Sound(P, mem, heap, turn, index) /\ pc \in DOMAIN code
  BY NowTyped DEF Here2, Now
<1>4. CASE c.op = "break"
  <2>1. n \in DOMAIN C /\ Way(C[n]) = "loop" /\ Leads(P, Out(C[n])) /\ D = C
    BY <1>1, <1>4, FlowIs DEF BreaksOff
  <2>2. n \in DOMAIN D /\ Way(D[n]) # "fresh"
    BY <2>1
  <2> DEFINE s == Ahead({"end"}, n)
  <2>3. s + 1 \in DOMAIN code /\ p[s + 1] = Out(D[n])
    BY <1>3, <2>2, AheadIs
  <2>4. Sound(Out(C[n]), mem, heap, turn, index)
    BY <1>3, <2>1, LeadsSound
  <2> QED
    BY <1>2, <1>4, <2>1, <2>3, <2>4 DEF There
<1>5. CASE c.op # "break"
  <2>1. n \in DOMAIN C /\ Way(C[n]) = "loop" /\ Leads(P, Top(C[n]))
    BY <1>1, <1>2, <1>5, FlowIs DEF Repeats
  <2>2. TestOf(n) \in DOMAIN code /\ p[TestOf(n)] = Top(C[n])
    BY <1>2, <1>3, <2>1, TestIs DEF c
  <2>3. Sound(Top(C[n]), mem, heap, turn, index)
    BY <1>3, <2>1, LeadsSound
  <2> QED
    BY <1>2, <1>5, <2>2, <2>3 DEF There
<1> QED
  BY <1>4, <1>5

\* ... and the statements that only go on.
LEMMA AdvanceGoes ==
  ASSUME NEW p, NEW q, NEW also, NEW A, Whole(p, q, also, A), Here2(p), Advance
  PROVE  There(p)
<1> DEFINE P == p[pc]
<1>1. Flow(c, P, q[pc], p[pc + 1], q[pc + 1])
  BY WholeIs DEF Here2, c
<1>2. c.op = "step" /\ mem' = mem /\ heap' = heap /\ turn' = [turn EXCEPT ![c.nest] = @ + 1] /\ index' = index /\ pc' = pc + 1
  BY DEF Advance, Runs, Goto, Go
<1>3. turn \in [Nests -> Nat] /\ Sound(P, mem, heap, turn, index)
  BY NowTyped DEF Here2, Now
<1>4. p[pc + 1] = P /\ Turns(P) = {} /\ c.nest \in Nests
  BY <1>1, <1>2, FlowIs DEF Steps
<1>5. turn' \in [Nests -> Nat] /\ TurnsIn(P, turn')
  BY <1>2, <1>3, <1>4 DEF TurnsIn
<1>6. Sound(P, mem, heap, turn', index)
  BY <1>3, <1>5, WeakSound
<1>7. pc + 1 \in DOMAIN code
  BY <1>2, Onward
<1> QED
  BY <1>2, <1>4, <1>6, <1>7 DEF There

-----------------------------------------------------------------------------
\* What a statement at a point where A is known makes of the properties.

\* A block that a row holds has no rows.
LEMMA HeldOnce ==
  ASSUME NEW A, Now(A), HoleOf(A) = << >>, NEW b \in Alive(heap)
  PROVE  \/ \E x \in DOMAIN Own(A) : b = mem[x]
         \/ \E x \in DOMAIN Own(A) : Owned2(mem[x], b)
<1>1. Each(HeldAt(A, mem, heap, index), Alive(heap)) /\ HolePlace(A, mem, index) = {}
  BY DEF Now, Sound, HolePlace
<1>2. ASSUME NEW a \in Alive(heap)
      PROVE  \/ \E x \in DOMAIN Own(A) : a = mem[x]
             \/ /\ DOMAIN heap[a].rows = {}
                /\ \E g \in Alive(heap) : \E i \in DOMAIN heap[g].rows : a = heap[g].rows[i]
  <2>1. PICK p \in Places(A, mem, heap, index) : At(mem, heap, p) = a
    BY <1>1 DEF Each, HeldAt
  <2>2. a # 0 /\ 0 \notin Alive(heap)
    BY HeldFacts DEF Now
  <2>3. CASE \E x \in DOMAIN Own(A) : p = <<0, x>>
    BY <2>1, <2>3 DEF At
  <2>4. CASE p \in RowPlaces(heap)
    <3>1. PICK g \in Alive(heap) : \E i \in DOMAIN heap[g].rows : p = <<g, i>>
      BY <2>4 DEF RowPlaces
    <3>2. PICK i \in DOMAIN heap[g].rows : p = <<g, i>>
      BY <3>1
    <3>3. a = heap[g].rows[i]
      BY <2>1, <2>2, <3>2 DEF At
    <3>4. Fits(heap[a], "leaf")
      BY <1>1, <2>1, <2>2, <2>4 DEF Now, Sound, RowsFit
    <3>5. DOMAIN heap[a].rows = {}
      BY <3>4 DEF Fits
    <3> QED
      BY <3>3, <3>5
  <2> QED
    BY <2>1, <2>3, <2>4 DEF Places
<1>3. CASE \E x \in DOMAIN Own(A) : b = mem[x]
  BY <1>3
<1>4. CASE \E g \in Alive(heap) : \E i \in DOMAIN heap[g].rows : b = heap[g].rows[i]
  <2>1. PICK g \in Alive(heap) : \E i \in DOMAIN heap[g].rows : b = heap[g].rows[i]
    BY <1>4
  <2>2. DOMAIN heap[g].rows # {}
    BY <2>1
  <2>3. PICK x \in DOMAIN Own(A) : g = mem[x]
    BY <1>2, <2>2
  <2>4. b # 0 /\ g # 0
    BY HeldFacts DEF Now
  <2> QED
    BY <2>1, <2>3, <2>4 DEF Owned2
<1> QED
  BY <1>2, <1>3, <1>4

\* What is returned is all there is.
LEMMA Leftover ==
  ASSUME NEW A, Now(A), HoleOf(A) = << >>, NEW v,
         \/ DOMAIN Own(A) = {} /\ v = 0
         \/ \E x \in Names : DOMAIN Own(A) = {x} /\ v = mem[x]
  PROVE  {b \in DOMAIN heap : heap[b].alive} = ToSet(WithRows(v)) /\ v \in 0..Len(heap)
<1>1. CASE DOMAIN Own(A) = {} /\ v = 0
  <2>1. Alive(heap) = {}
    BY <1>1, HeldOnce
  <2>2. WithRows(v) = << >> /\ \A b : b \notin ToSet(<< >>)
    BY <1>1 DEF WithRows, ToSet
  <2>3. v \in 0..Len(heap)
    BY <1>1, NowTyped
  <2> QED
    BY <2>1, <2>2, <2>3 DEF Alive
<1>2. CASE \E x \in Names : DOMAIN Own(A) = {x} /\ v = mem[x]
  <2>1. PICK x \in Names : DOMAIN Own(A) = {x} /\ v = mem[x]
    BY <1>2
  <2>2. WholeOf(x) /\ mem[x] \in 0..Len(heap)
    BY <2>1, WholeFacts, NowAlive DEF OutsideHole
  <2>3. ASSUME NEW b \in Alive(heap) PROVE Owned2(mem[x], b)
    <3>1. b = mem[x] \/ Owned2(mem[x], b)
      BY <2>1, HeldOnce
    <3>2. b # 0
      BY HeldFacts DEF Now
    <3> QED
      BY <3>1, <3>2 DEF Owned2
  <2>4. ASSUME NEW b, Owned2(mem[x], b) PROVE b \in DOMAIN heap /\ heap[b].alive
    <3>1. mem[x] # 0 /\ mem[x] \in DOMAIN heap /\ heap[mem[x]].alive
      BY <2>1, <2>4, NowAlive DEF Owned2
    <3>2. CASE b = mem[x]
      BY <3>1, <3>2, SMTT(30)
    <3>3. ASSUME NEW i \in DOMAIN heap[mem[x]].rows, b = heap[mem[x]].rows[i], b # 0 PROVE b \in DOMAIN heap /\ heap[b].alive
      <4>1. <<mem[x], i>> \notin HolePlace(A, mem, index)
        BY DEF HolePlace
      <4> QED
        BY <2>1, <3>1, <3>3, <4>1, NowRow
    <3> QED
      BY <2>4, <3>2, <3>3 DEF Owned2
  <2>5. \A b : b \in ToSet(WithRows(mem[x])) <=> b \in DOMAIN heap /\ heap[b].alive
    BY <2>2, <2>3, <2>4 DEF WholeOf, Alive
  <2> QED
    BY <2>1, <2>2, <2>5
<1> QED
  BY <1>1, <1>2

\* A return leaves no block alive but what is returned.
LEMMA ReturnGoes ==
  ASSUME NEW p, NEW q, NEW also, NEW A, Whole(p, q, also, A), Here2(p), Returns
  PROVE  NothingLeaks' /\ final' \in 0..Len(heap) /\ phase' = "returned" /\ UNCHANGED <<svars, pc, mem, heap, turn, index>>
<1>1. Flow(c, p[pc], q[pc], p[pc + 1], q[pc + 1])
  BY WholeIs DEF Here2, c
<1>2. /\ c.op = "return" /\ final' = (IF c.from = << >> THEN 0 ELSE mem[c.from[1]]) /\ phase' = "returned"
      /\ UNCHANGED <<svars, pc, mem, heap, turn, index>>
  BY DEF Returns, Runs
<1>3. Exits(c, p[pc], q[pc], p[pc + 1], q[pc + 1])
  BY <1>1, <1>2, FlowIs
<1>4. HoleOf(p[pc]) = << >>
  BY <1>3 DEF Exits
<1>5. \/ DOMAIN Own(p[pc]) = {} /\ final' = 0
      \/ \E x \in Names : DOMAIN Own(p[pc]) = {x} /\ final' = mem[x]
  <2>1. CASE c.from = << >> /\ DOMAIN Own(p[pc]) = {}
    BY <1>2, <2>1
  <2>2. CASE \E x \in Names : c.from = <<x>> /\ DOMAIN Own(p[pc]) = {x}
    BY <1>2, <2>2, SingleIs
  <2> QED
    BY <1>3, <2>1, <2>2 DEF Exits
<1>6. {b \in DOMAIN heap : heap[b].alive} = ToSet(WithRows(final')) /\ final' \in 0..Len(heap)
  BY <1>4, <1>5, Leftover DEF Here2
<1>7. WithRows(final') = WithRows(final)'
  BY <1>2 DEF WithRows
<1>8. {b \in DOMAIN heap' : heap'[b].alive} = ToSet(WithRows(final)')
  BY <1>2, <1>6, <1>7
<1>9. NothingLeaks'
  BY <1>8 DEF NothingLeaks, ToSet
<1> QED
  BY <1>2, <1>6, <1>9

-----------------------------------------------------------------------------
\* Statements that only go on elsewhere read and release nothing.
LEMMA SafeHere ==
  ASSUME NEW p, NEW q, NEW also, NEW A, Whole(p, q, also, A), Here2(p), ~FollowsNull
  PROVE  Safe
<1>1. Flow(c, p[pc], q[pc], p[pc + 1], q[pc + 1])
  BY WholeIs DEF Here2, c
<1>2. CASE c.op \in EffectOps
  <2>1. Effect(c, p[pc], p[pc + 1])
    BY <1>1, <1>2, FlowIs
  <2> QED
    BY <2>1, EffectSafe DEF Here2
<1>3. CASE c.op = "test"
  <2>1. IsInjective(Released) /\ \A b : b \notin ToSet(Released)
    BY <1>3, QuietReleases
  <2>2. Touched = {}
    BY <1>3, <2>1 DEF Touched
  <2> QED
    BY <2>1, <2>2 DEF Safe
<1>4. CASE c.op \in {"if", "else", "end", "loop", "step", "break", "continue", "again", "return"}
  <2>1. c.to = << >> /\ c.args = << >> /\ (c.from = << >> \/ \E x : c.from = <<x>>)
    BY <1>1, <1>4, FlowIs, ZenonT(30) DEF Ifs, Elses, Ends, Begins, Steps, BreaksOff, Repeats, Exits, Bare
  <2> QED
    BY <1>4, <2>1, QuietSafe DEF Here2
<1> QED
  BY <1>1, <1>2, <1>3, <1>4, FlowIs

\* While a loop has turns left its range is where it was and alive.
LEMMA RangeHere ==
  ASSUME NEW p, NEW q, NEW also, NEW A, Whole(p, q, also, A), Here2(p)
  PROVE  RangeStays
<1> SUFFICES ASSUME c.op = "test", c.to # << >>
             PROVE  mem[c.to[1]] = mem[c.from[1]] /\ (mem[c.from[1]] # 0 => heap[mem[c.from[1]]].alive)
  BY DEF RangeStays
<1> DEFINE P == p[pc]
<1>1. Flow(c, P, q[pc], p[pc + 1], q[pc + 1])
  BY WholeIs DEF Here2, c
<1>2. PICK f \in DOMAIN Twin(P), y \in DOMAIN Own(P) : c.from = <<f>> /\ c.to = <<y>> /\ Twin(P)[f] = <<y>>
  <2>1. Tests(c, P, q[pc], p[pc + 1], q[pc + 1])
    BY <1>1, FlowIs
  <2> QED
    BY <2>1 DEF Tests
<1>3. mem[f] = ValueAt(mem, heap, index, Twin(P)[f])
  BY DEF Here2, Now, Sound, TwinsAgree
<1>4. mem[f] = mem[y]
  BY <1>2, <1>3, SingleIs DEF ValueAt
<1>5. mem[y] # 0 => heap[mem[y]].alive
  BY NowAlive DEF Here2
<1> QED
  BY <1>2, <1>4, <1>5, SingleIs

Also == {job.named} \ {""}
\* Between statements of the source no two owners have a block in common.
LEMMA OwnerHere ==
  ASSUME NEW p, NEW q, NEW A, Whole(p, q, Also, A), Here2(p)
  PROVE  OneOwner
<1> DEFINE rows == UNION {{<<b, i>> : i \in DOMAIN heap[b].rows} : b \in {b \in DOMAIN heap : heap[b].alive}}
           held(h) == IF Len(h) = 1 THEN mem[h[1]] ELSE heap[h[1]].rows[h[2]]
           named(m) == {<<x>> : x \in m.vars \cup Also}
           P == p[pc]
<1>0. SUFFICES ASSUME NEW m, m \in ToSet(owners), m.at = pc, NEW b, b \in DOMAIN heap
               PROVE  Cardinality({h \in named(m) \cup rows : held(h) = b}) = IF heap[b].alive THEN 1 ELSE 0
  BY ZenonT(30) DEF OneOwner, Also
<1>1. HoleOf(P) = << >> /\ DOMAIN Own(P) = m.vars \cup Also
  BY <1>0 DEF Whole, Noted
<1>2. Each(HeldAt(P, mem, heap, index), Alive(heap)) /\ HolePlace(P, mem, index) = {}
  BY <1>1 DEF Here2, Now, Sound, HolePlace
<1>3. rows = RowPlaces(heap)
  BY DEF RowPlaces, Alive
<1>4. b # 0 /\ 0 \notin Alive(heap)
  <2>1. DOMAIN heap = 1..Len(heap) /\ 0 \notin Alive(heap) /\ Len(heap) \in Nat
    BY HeldFacts DEF Here2, Now
  <2>2. 0 \notin 1..Len(heap)
    OBVIOUS
  <2>3. b # 0
    BY <1>0, <2>1, <2>2, Zenon
  <2> QED
    BY <2>1, <2>3
<1>5. ASSUME NEW h \in named(m) \cup rows
      PROVE  \E l \in Places(P, mem, heap, index) :
               /\ At(mem, heap, l) = held(h)
               /\ (h = <<l[2]>> /\ l[1] = 0) \/ (h = l /\ l[1] # 0)
  <2>1. CASE h \in named(m)
    <3>1. PICK x \in DOMAIN Own(P) : h = <<x>>
      BY <1>1, <2>1
    <3>2. <<0, x>> \in Places(P, mem, heap, index) /\ At(mem, heap, <<0, x>>) = mem[x]
      BY DEF Places, At
    <3>3. held(h) = mem[x]
      BY <3>1, SingleIs
    <3> DEFINE l == <<0, x>>
    <3>4. l[1] = 0 /\ l[2] = x
      OBVIOUS
    <3> HIDE DEF l, held
    <3> QED
      BY <3>1, <3>2, <3>3, <3>4 DEF l
  <2>2. CASE h \in rows
    <3>1. h \in Places(P, mem, heap, index)
      BY <1>2, <1>3, <2>2 DEF Places
    <3>2. PICK g \in Alive(heap) : \E i \in DOMAIN heap[g].rows : h = <<g, i>>
      <4>1. h \in RowPlaces(heap)
        BY <1>3, <2>2
      <4> QED
        BY <4>1 DEF RowPlaces
    <3>3. PICK i \in DOMAIN heap[g].rows : h = <<g, i>>
      BY <3>2
    <3>4. Len(h) = 2 /\ h[1] = g /\ h[2] = i /\ g # 0
      BY <1>4, <3>3
    <3>5. At(mem, heap, h) = held(h)
      <4>1. held(h) = heap[g].rows[i]
        BY <3>4
      <4>2. At(mem, heap, h) = heap[g].rows[i]
        <5> HIDE DEF held
        <5> QED
          BY <3>4 DEF At
      <4> HIDE DEF held
      <4> QED
        BY <4>1, <4>2
    <3> HIDE DEF held
    <3> QED
      BY <3>1, <3>4, <3>5
  <2> QED
    BY <2>1, <2>2
<1>6. ASSUME NEW l \in Places(P, mem, heap, index)
      PROVE  \E h \in named(m) \cup rows : held(h) = At(mem, heap, l)
  <2>1. CASE \E x \in DOMAIN Own(P) : l = <<0, x>>
    <3>1. PICK x \in DOMAIN Own(P) : l = <<0, x>>
      BY <2>1
    <3>2. held(<<x>>) = mem[x] /\ At(mem, heap, <<0, x>>) = mem[x]
      BY SingleIs DEF At
    <3>3. <<x>> \in named(m)
      BY <1>1
    <3> HIDE DEF held, named
    <3> QED
      BY <3>1, <3>2, <3>3
  <2>2. CASE l \in RowPlaces(heap)
    <3>2. PICK g \in Alive(heap) : \E i \in DOMAIN heap[g].rows : l = <<g, i>>
      BY <2>2 DEF RowPlaces
    <3>3. PICK i \in DOMAIN heap[g].rows : l = <<g, i>>
      BY <3>2
    <3>4. Len(l) = 2 /\ l[1] = g /\ l[2] = i /\ g # 0
      BY <1>4, <3>3
    <3>5. At(mem, heap, l) = held(l)
      <4>1. held(l) = heap[g].rows[i]
        BY <3>4
      <4>2. At(mem, heap, l) = heap[g].rows[i]
        <5> HIDE DEF held
        <5> QED
          BY <3>4 DEF At
      <4> HIDE DEF held
      <4> QED
        BY <4>1, <4>2
    <3> HIDE DEF held, named
    <3> QED
      BY <1>3, <2>2, <3>5
  <2> QED
    BY <2>1, <2>2 DEF Places
<1> DEFINE H == {h \in named(m) \cup rows : held(h) = b}
<1> HIDE DEF held, named, rows
<1>7. CASE heap[b].alive
  <2>1. b \in Alive(heap)
    BY <1>0, <1>7 DEF Alive
  <2>2. PICK l \in Places(P, mem, heap, index) : At(mem, heap, l) = b
    BY <1>2, <2>1 DEF Each, HeldAt
  <2>3. PICK h \in named(m) \cup rows : held(h) = b
    BY <1>6, <2>2
  <2>4. ASSUME NEW g \in named(m) \cup rows, held(g) = b PROVE g = h
    <3>1. PICK lg \in Places(P, mem, heap, index) :
            At(mem, heap, lg) = held(g) /\ ((g = <<lg[2]>> /\ lg[1] = 0) \/ (g = lg /\ lg[1] # 0))
      BY <1>5
    <3>2. PICK lh \in Places(P, mem, heap, index) :
            At(mem, heap, lh) = held(h) /\ ((h = <<lh[2]>> /\ lh[1] = 0) \/ (h = lh /\ lh[1] # 0))
      BY <1>5
    <3>3. lg = lh
      <4>1. At(mem, heap, lg) = b /\ At(mem, heap, lh) = b
        BY <2>3, <2>4, <3>1, <3>2
      <4> QED
        BY <1>2, <1>4, <4>1 DEF Each, HeldAt
    <3>4. lh[1] = 0 \/ lh[1] # 0
      OBVIOUS
    <3> QED
      BY <3>1, <3>2, <3>3
  <2>5. H = {h}
    BY <2>3, <2>4
  <2>6. Cardinality({h}) = 1
    BY FS_Singleton
  <2> QED
    BY <1>7, <2>5, <2>6
<1>8. CASE ~heap[b].alive
  <2>1. ASSUME NEW h \in H PROVE FALSE
    <3>1. PICK l \in Places(P, mem, heap, index) : At(mem, heap, l) = b
      BY <1>5
    <3>2. b \in Alive(heap)
      BY <1>2, <1>4, <3>1 DEF Each, HeldAt
    <3> QED
      BY <1>8, <3>2 DEF Alive
  <2>2. H = {}
    BY <2>1
  <2>3. Cardinality({}) = 0
    BY FS_EmptySet
  <2> QED
    BY <1>8, <2>2, <2>3
<1> QED
  BY <1>7, <1>8

-----------------------------------------------------------------------------
\* The function is called.

NewBlocks == [alive : BOOLEAN, frame : BOOLEAN, rows : {<< >>} \cup [Slots -> Nat]]

\* A new block may be put behind new blocks.
LEMMA MadeIn ==
  ASSUME NEW h \in Seq(NewBlocks), NEW kind \in {"leaf", "tree"}
  PROVE  Made(h, kind, FALSE) \in Seq(NewBlocks)
<1>1. Leaf \in NewBlocks
  BY DEF Leaf, Block, NewBlocks
<1>2. CASE kind = "leaf"
  BY <1>1, <1>2 DEF Made
<1>3. CASE kind = "tree"
  <2>1. PICK n \in Nat \ {0} : Slots = 1..n
    BY SlotsAre
  <2> DEFINE b == Block(FALSE, [i \in Slots |-> Len(h) + 1 + i])
             ls == [i \in Slots |-> Leaf]
  <2>2. b \in NewBlocks
    <3>1. [i \in Slots |-> Len(h) + 1 + i] \in [Slots -> Nat]
      BY <2>1
    <3> QED
      BY <3>1 DEF Block, NewBlocks
  <2>3. ls \in Seq(NewBlocks)
    <3>1. ls \in [1..n -> NewBlocks]
      BY <1>1, <2>1
    <3> HIDE DEF ls
    <3> QED
      BY <2>1, <3>1
  <2>4. Made(h, kind, FALSE) = h \o <<b>> \o ls
    BY <1>3 DEF Made
  <2> HIDE DEF b, ls
  <2>5. h \o <<b>> \in Seq(NewBlocks)
    BY <2>2
  <2>6. (h \o <<b>>) \o ls \in Seq(NewBlocks)
    <3> DEFINE J == h \o <<b>>
    <3> HIDE DEF J
    <3>1. J \o ls \in Seq(NewBlocks)
      BY <2>3, <2>5 DEF J
    <3> QED
      BY <3>1 DEF J
  <2> QED
    BY <2>4, <2>6
<1> QED
  BY <1>2, <1>3

\* What is known after the first k parameters, and the variables then.
Param(k) == job.params[k]
Params(k) == {Param(i) : i \in 1..k}
AtParam(k) == Point([x \in Params(k) |-> KindOf(x)], Nothing, << >>, << >>, {})
Start == AtParam(Len(job.params))
Numbered(x, k) == CHOOSE i \in 1..k : Param(i) = x
VarsAt(h, k) == [x \in Names |-> IF x \in Params(k) THEN Len(h[Numbered(x, k) - 1]) + 1 ELSE 0]

\* A job's parameters are different variables.
LEMMA ParamsAre ==
  ASSUME job \in Jobs
  PROVE  /\ Len(job.params) \in Nat /\ DOMAIN job.params = 1..Len(job.params)
         /\ \A i \in 1..Len(job.params) : Param(i) \in ToSet(Leaves) \cup ToSet(Trees)
         /\ \A i, j \in 1..Len(job.params) : Param(i) = Param(j) => i = j
         /\ ToSet(job.params) = Params(Len(job.params))
<1>1. job.params \in Seq(ToSet(Leaves) \cup ToSet(Trees)) /\ IsInjective(job.params)
  BY JobsAssumption
<1> DEFINE ps == job.params
           T == ToSet(Leaves) \cup ToSet(Trees)
<1> HIDE DEF T
<1>2. ps \in Seq(T) /\ IsInjective(ps)
  BY <1>1 DEF T
<1> HIDE DEF ps
<1>3. Len(ps) \in Nat /\ DOMAIN ps = 1..Len(ps) /\ \A i \in 1..Len(ps) : ps[i] \in T
  BY <1>2
<1>4. \A i, j \in 1..Len(ps) : ps[i] = ps[j] => i = j
  BY <1>2, <1>3 DEF IsInjective
<1>5. ToSet(ps) = {ps[i] : i \in 1..Len(ps)}
  BY <1>3 DEF ToSet
<1> QED
  BY <1>3, <1>4, <1>5 DEF ps, T, Param, Params

\* A variable is of one of the two kinds.
LEMMA KindsOf == ASSUME NEW x PROVE KindOf(x) \in {"leaf", "tree"}
BY DEF KindOf

\* Before the first parameter nothing is owned.
LEMMA StartSound ==
  ASSUME NEW tn \in [Nests -> Nat], NEW ix \in [Keys -> Slots]
  PROVE  Sound(AtParam(0), [x \in Names |-> 0], << >>, tn, ix)
<1> DEFINE A == AtParam(0)
           m == [x \in Names |-> 0]
           h == << >>
<1>1. Own(A) = [x \in Params(0) |-> KindOf(x)] /\ Twin(A) = Nothing /\ HoleOf(A) = << >> /\ Turns(A) = {}
  BY PointIs DEF AtParam
<1>2. DOMAIN Own(A) = {} /\ DOMAIN Twin(A) = {}
  <2>1. 1..0 = {}
    OBVIOUS
  <2>2. Params(0) = {}
    BY <2>1 DEF Params
  <2>3. DOMAIN Nothing = {}
    BY DEF Nothing
  <2>4. DOMAIN [x \in Params(0) |-> KindOf(x)] = Params(0)
    OBVIOUS
  <2> QED
    BY <1>1, <2>2, <2>3, <2>4
<1>3. Len(h) = 0 /\ DOMAIN h = {} /\ h \in Seq(BlocksIn(Len(h)))
  OBVIOUS
<1>4. m \in [Names -> 0..Len(h)]
  BY <1>3
<1>5. Alive(h) = {} /\ RowPlaces(h) = {}
  BY <1>3 DEF Alive, RowPlaces
<1> HIDE DEF A, m, h
<1>6. Typed(m, h, tn, ix)
  BY <1>3, <1>4 DEF Typed
<1>7. Places(A, m, h, ix) = {}
  BY <1>2, <1>5 DEF Places
<1>8. Each(HeldAt(A, m, h, ix), Alive(h))
  BY <1>5, <1>7 DEF Each, HeldAt
<1>9. Sorted(A) /\ OwnersFit(A, m, h) /\ RowsFit(A, m, h, ix) /\ TwinsAgree(A, m, h, ix) /\ HoleAgrees(A, m, h, ix) /\ TurnsIn(A, tn)
  BY <1>1, <1>2, <1>5 DEF Sorted, OwnersFit, RowsFit, TwinsAgree, HoleAgrees, TurnsIn
<1>10. Sound(A, m, h, tn, ix)
  BY <1>6, <1>8, <1>9 DEF Sound
<1> QED
  BY <1>10 DEF A, m, h

\* A parameter's number is its place among the parameters.
LEMMA NumberedIs ==
  ASSUME job \in Jobs, NEW k \in 0..Len(job.params), NEW i \in 1..k
  PROVE  Numbered(Param(i), k) = i /\ Param(i) \in Params(k)
<1> DEFINE P(j) == j \in 1..k /\ Param(j) = Param(i)
<1>1. P(i)
  OBVIOUS
<1>2. P(Numbered(Param(i), k))
  <2>1. Numbered(Param(i), k) = CHOOSE j : P(j)
    BY DEF Numbered
  <2> HIDE DEF P
  <2> QED
    BY <1>1, <2>1
<1>3. Len(job.params) \in Nat /\ \A a, b \in 1..Len(job.params) : Param(a) = Param(b) => a = b
  BY ParamsAre
<1> DEFINE n == Numbered(Param(i), k)
<1>4. n \in 1..k /\ Param(n) = Param(i)
  BY <1>2
<1> HIDE DEF n
<1>5. n \in 1..Len(job.params) /\ i \in 1..Len(job.params)
  BY <1>3, <1>4
<1>6. n = i
  BY <1>3, <1>4, <1>5
<1> QED
  BY <1>6 DEF n, Params

\* The parameter after those.
LEMMA NextParam ==
  ASSUME job \in Jobs, NEW k \in 1..Len(job.params), NEW h
  PROVE  /\ AtParam(k) = Owns(AtParam(k - 1), Param(k), KindOf(Param(k)))
         /\ VarsAt(h, k) = [VarsAt(h, k - 1) EXCEPT ![Param(k)] = Len(h[k - 1]) + 1]
         /\ IsFree(AtParam(k - 1), Param(k))
<1>0. /\ Len(job.params) \in Nat /\ \A a, b \in 1..Len(job.params) : Param(a) = Param(b) => a = b
      /\ \A a \in 1..Len(job.params) : Param(a) \in ToSet(Leaves) \cup ToSet(Trees)
  BY ParamsAre
<1>1. \A i : i \in 1..k <=> i \in 1..k - 1 \/ i = k
  BY <1>0
<1>2. Params(k) = Params(k - 1) \cup {Param(k)}
  BY <1>1 DEF Params
<1>3. Param(k) \notin Params(k - 1)
  <2> SUFFICES ASSUME NEW i \in 1..k - 1, Param(i) = Param(k) PROVE FALSE
    BY DEF Params
  <2>1. i \in 1..Len(job.params) /\ i # k
    BY <1>0
  <2> QED
    BY <1>0, <2>1
<1> DEFINE f == [x \in Params(k - 1) |-> KindOf(x)]
           y == Param(k)
<1>4. With(f, y, KindOf(y)) = [x \in Params(k) |-> KindOf(x)]
  <2>1. DOMAIN f = Params(k - 1) /\ \A x \in Params(k - 1) : f[x] = KindOf(x)
    OBVIOUS
  <2> HIDE DEF f, y
  <2>2. \A x \in Params(k - 1) \cup {y} : (IF x = y THEN KindOf(y) ELSE f[x]) = KindOf(x)
    BY <2>1
  <2> QED
    BY <1>2, <2>1, <2>2 DEF With, y
<1>5. /\ Own(AtParam(k - 1)) = f /\ Twin(AtParam(k - 1)) = Nothing /\ HoleOf(AtParam(k - 1)) = << >>
      /\ Fill(AtParam(k - 1)) = << >> /\ Turns(AtParam(k - 1)) = {}
  BY PointIs DEF AtParam
<1>6. AtParam(k) = Owns(AtParam(k - 1), y, KindOf(y))
  BY <1>4, <1>5 DEF Owns, AtParam
<1>7. Param(k) \in Names
  BY <1>0 DEF Names
<1>8. IsFree(AtParam(k - 1), Param(k))
  <2>1. DOMAIN f = Params(k - 1) /\ DOMAIN Nothing = {}
    BY DEF Nothing
  <2> HIDE DEF f
  <2> QED
    BY <1>3, <1>5, <1>7, <2>1 DEF IsFree
<1>9. VarsAt(h, k) = [VarsAt(h, k - 1) EXCEPT ![Param(k)] = Len(h[k - 1]) + 1]
  <2> DEFINE g(j, x) == IF x \in Params(j) THEN Len(h[Numbered(x, j) - 1]) + 1 ELSE 0
  <2>1. g(k, Param(k)) = Len(h[k - 1]) + 1
    <3>1. Numbered(Param(k), k) = k /\ Param(k) \in Params(k)
      BY <1>0, NumberedIs
    <3> QED
      BY <3>1
  <2>2. ASSUME NEW x \in Names, x # Param(k) PROVE g(k, x) = g(k - 1, x)
    <3>1. CASE x \in Params(k - 1)
      <4>1. PICK i \in 1..k - 1 : x = Param(i)
        BY <3>1 DEF Params
      <4>2. i \in 1..k /\ k \in 0..Len(job.params) /\ k - 1 \in 0..Len(job.params)
        BY <1>0
      <4>3. Numbered(x, k) = i /\ Numbered(x, k - 1) = i /\ x \in Params(k)
        BY <4>1, <4>2, NumberedIs
      <4> QED
        BY <3>1, <4>3
    <3>2. CASE x \notin Params(k - 1)
      <4>1. x \notin Params(k)
        BY <1>2, <2>2, <3>2
      <4> QED
        BY <3>2, <4>1
    <3> QED
      BY <3>1, <3>2
  <2>3. VarsAt(h, k) = [x \in Names |-> g(k, x)] /\ VarsAt(h, k - 1) = [x \in Names |-> g(k - 1, x)]
    BY DEF VarsAt
  <2> HIDE DEF g
  <2>4. [[x \in Names |-> g(k - 1, x)] EXCEPT ![Param(k)] = Len(h[k - 1]) + 1] = [x \in Names |-> g(k, x)]
    BY <1>7, <2>1, <2>2
  <2> QED
    BY <2>3, <2>4
<1> QED
  BY <1>6, <1>8, <1>9

\* When a function is called its parameters hold blocks of their own.
LEMMA EnterGoes ==
  ASSUME job \in Jobs, turn \in [Nests -> Nat], Enter
  PROVE  Sound(Start, mem', heap', turn', index') /\ pc' = 1
<1> DEFINE N == Len(job.params)
           S == Seq(NewBlocks)
           E(g) == [i \in 0..N |-> IF i = 0 THEN << >> ELSE Made(g[i - 1], KindOf(job.params[i]), FALSE)]
           h == CHOOSE g : g = E(g)
<1>0. /\ N \in Nat /\ DOMAIN job.params = 1..N
      /\ \A i \in 1..N : Param(i) \in ToSet(Leaves) \cup ToSet(Trees)
  BY ParamsAre
<1>1. h = E(h)
  <2> DEFINE step == [an1 \in S \X (1..N) |-> Made(an1[1], KindOf(Param(an1[2])), FALSE)]
  <2>1. step \in [S \X (1..N) -> S]
    BY MadeIn, KindsOf
  <2>2. << >> \in S
    OBVIOUS
  <2> HIDE DEF step, S
  <2>3. PICK f : Recursion(f, N, S, << >>, step)
    <3> HIDE DEF N
    <3> QED
      BY <1>0, <2>1, <2>2, RecursionExists
  <2> HIDE DEF N
  <2>4. f \in [0..N -> S] /\ f[0] = << >> /\ \A n \in 1..N : f[n] = step[<<f[n - 1], n>>]
    BY <2>3 DEF Recursion
  <2>5. \A n \in 1..N : f[n] = Made(f[n - 1], KindOf(job.params[n]), FALSE)
    <3> SUFFICES ASSUME NEW n \in 1..N PROVE f[n] = Made(f[n - 1], KindOf(job.params[n]), FALSE)
      OBVIOUS
    <3>1. n - 1 \in 0..N
      BY <1>0
    <3>2. f[n - 1] \in S
      BY <2>4, <3>1
    <3>3. <<f[n - 1], n>> \in S \X (1..N)
      BY <3>2
    <3>4. step[<<f[n - 1], n>>] = Made(f[n - 1], KindOf(Param(n)), FALSE)
      BY <3>3 DEF step
    <3> QED
      BY <2>4, <3>4 DEF Param
  <2>6. f = E(f)
    <3>1. \A i \in 0..N : i # 0 => i \in 1..N
      BY <1>0
    <3>2. \A i \in 0..N : f[i] = IF i = 0 THEN << >> ELSE Made(f[i - 1], KindOf(job.params[i]), FALSE)
      BY <2>4, <2>5, <3>1
    <3>3. f = [i \in 0..N |-> f[i]]
      BY <2>4
    <3> QED
      BY <3>2, <3>3
  <2> HIDE DEF E
  <2> QED
    BY <2>6
<1>2. /\ heap' = h[N]
      /\ mem' = [x \in Names |-> IF \E i \in DOMAIN job.params : job.params[i] = x
                                 THEN Len(h[(CHOOSE i \in DOMAIN job.params : job.params[i] = x) - 1]) + 1
                                 ELSE 0]
      /\ index' \in [Keys -> Slots] /\ turn' = turn /\ pc' = 1
  BY DEF Enter
<1> HIDE DEF h
<1>3. h[0] = << >> /\ \A k \in 1..N : h[k] = Made(h[k - 1], KindOf(Param(k)), FALSE)
  <2>1. 0 \in 0..N /\ \A k \in 1..N : k \in 0..N /\ k # 0
    BY <1>0
  <2>2. \A k \in 0..N : E(h)[k] = IF k = 0 THEN << >> ELSE Made(h[k - 1], KindOf(job.params[k]), FALSE)
    OBVIOUS
  <2> HIDE DEF E
  <2>3. \A k \in 0..N : h[k] = IF k = 0 THEN << >> ELSE Made(h[k - 1], KindOf(job.params[k]), FALSE)
    BY <1>1, <2>2
  <2> QED
    BY <2>1, <2>3 DEF Param
<1> HIDE DEF N, E
<1> DEFINE ix == index'
           G(k) == Sound(AtParam(k), VarsAt(h, k), h[k], turn, ix)
<1>4. G(0)
  <2>1. VarsAt(h, 0) = [x \in Names |-> 0]
    <3>1. 1..0 = {}
      OBVIOUS
    <3>2. Params(0) = {}
      BY <3>1 DEF Params
    <3> QED
      BY <3>2 DEF VarsAt
  <2> QED
    BY <1>2, <1>3, <2>1, StartSound
<1>5. ASSUME NEW k \in 1..N, G(k - 1) PROVE G(k)
  <2>1. /\ AtParam(k) = Owns(AtParam(k - 1), Param(k), KindOf(Param(k)))
        /\ VarsAt(h, k) = [VarsAt(h, k - 1) EXCEPT ![Param(k)] = Len(h[k - 1]) + 1]
        /\ IsFree(AtParam(k - 1), Param(k))
    BY NextParam DEF N
  <2>2. h[k] = Made(h[k - 1], KindOf(Param(k)), FALSE)
    BY <1>3
  <2> DEFINE A == AtParam(k - 1)
             m == VarsAt(h, k - 1)
             H == h[k - 1]
             x == Param(k)
             kd == KindOf(Param(k))
             fr == FALSE
  <2>3. kd \in {"leaf", "tree"} /\ fr \in BOOLEAN /\ (fr => kd = "tree") /\ IsFree(A, x) /\ Sound(A, m, H, turn, ix)
    BY <1>5, <2>1, KindsOf
  <2>4. AtParam(k) = Owns(A, x, IF fr THEN "frame" ELSE kd) /\ VarsAt(h, k) = [m EXCEPT ![x] = Len(H) + 1]
        /\ h[k] = Made(H, kd, fr)
    BY <2>1, <2>2
  <2> HIDE DEF A, m, H, x, kd, fr, ix
  <2>5. Sound(Owns(A, x, IF fr THEN "frame" ELSE kd), [m EXCEPT ![x] = Len(H) + 1], Made(H, kd, fr), turn, ix)
    BY <2>3, MadeSound
  <2> QED
    BY <2>4, <2>5
<1>6. G(N)
  <2> DEFINE T == {k \in 0..N : ~G(k)}
  <2> HIDE DEF G
  <2> SUFFICES ASSUME T # {} PROVE FALSE
    BY <1>0
  <2>1. T \in SUBSET Nat
    OBVIOUS
  <2>2. PICK k \in T : \A j \in T : k <= j
    <3> HIDE DEF T
    <3> QED
      BY <2>1, LeastNat
  <2>3. k \in 0..N /\ ~G(k) /\ k # 0
    BY <1>4
  <2>4. k \in 1..N /\ k - 1 \in 0..N /\ k - 1 < k
    BY <1>0, <2>3
  <2>5. k - 1 \notin T
    <3> HIDE DEF T
    <3> QED
      BY <1>0, <2>1, <2>2, <2>4
  <2> QED
    BY <1>5, <2>3, <2>4, <2>5
<1>7. mem' = VarsAt(h, N)
  <2>1. \A x : (\E i \in 1..N : job.params[i] = x) <=> x \in Params(N)
    BY DEF Params, Param
  <2>2. \A x : (CHOOSE i \in 1..N : job.params[i] = x) = Numbered(x, N)
    BY DEF Numbered, Param
  <2> QED
    BY <1>0, <1>2, <2>1, <2>2, SMTT(20) DEF VarsAt
<1> QED
  BY <1>2, <1>6, <1>7 DEF Start, N
=============================================================================
