----------------------------- MODULE OwnedRun ------------------------------
(***************************************************************************)
(* A function run as Ownership has emitted it: what its variables point    *)
(* to, and the blocks on the heap.  A tree's block points to its rows; a   *)
(* pointer is 0 for NULL.  Conditions go either way.  A callee frees what  *)
(* it is given, as this function must, and returns a block of its own.     *)
(***************************************************************************)
EXTENDS Ownership

CONSTANTS
  Slots,      \* rows of a tree: 1..n
  MaxTurns    \* bound on the turns of a `while`

\* Rows are counted from 1; "#" is the row that a `for` has come to.
ASSUME SlotsAssumption ==
  /\ IsFiniteSet(Slots) /\ Slots # {} /\ Slots = 1..Cardinality(Slots)
  /\ "#" \notin Keys

VARIABLES
  pc,
  mem,      \* variable -> pointer
  heap,     \* the blocks ever made: alive or not, in the frame or not, their rows
  turn,     \* nest -> turns taken by the loop there
  index,    \* what the index expressions are
  final     \* what the function has returned, 0 for nothing

rvars == <<pc, mem, heap, turn, index, final>>
vars == <<job, scopes, open, code, owners, phase, pc, mem, heap, turn, index, final>>

-----------------------------------------------------------------------------
Block(frame, rows) == [alive |-> TRUE, frame |-> frame, rows |-> rows]
Leaf == Block(FALSE, << >>)

\* New blocks behind those of h; the first of them is what is asked for.
Made(h, kind, frame) ==
  IF kind = "leaf" THEN Append(h, Leaf)
  ELSE h \o <<Block(frame, [i \in Slots |-> Len(h) + 1 + i])>> \o [i \in Slots |-> Leaf]

c == code[pc]
SlotOf(k) == IF k = "#" THEN turn[c.nest] ELSE index[k]

\* The block that holds l's pointer, if one does; what l holds.
Holder(l) == IF Len(l) = 2 THEN mem[l[1]] ELSE 0
Value(l) == IF Len(l) = 1 THEN mem[l[1]] ELSE heap[mem[l[1]]].rows[SlotOf(l[2])]

WithRows(b) ==
  IF b = 0 THEN << >>
  ELSE <<b>> \o FlattenSeq([i \in DOMAIN heap[b].rows |->
                               IF heap[b].rows[i] = 0 THEN << >> ELSE <<heap[b].rows[i]>>])

\* The locations a statement reads or writes, and the blocks it releases. A
\* frame array that has released its rows is out of scope itself.
Locations == {l \in {c.to, c.from} \cup ToSet(c.args) : l # << >>}
FollowsNull ==
  IF \E l \in Locations : Len(l) = 2 /\ Holder(l) = 0 THEN TRUE
  ELSE c.op = "copy" /\ \E l \in {c.to, c.from} :
         IF Value(l) = 0 THEN TRUE ELSE 0 \in ToSet(heap[Value(l)].rows)

Released ==
  CASE c.op \in {"free", "fini"} -> WithRows(Value(c.to))
    [] c.op = "call" -> FlattenSeq([i \in DOMAIN c.args |-> WithRows(Value(c.args[i]))])
    [] OTHER -> << >>

Touched ==
  {Holder(l) : l \in {l \in Locations : c.op # "test"}}
  \cup ToSet(Released)
  \cup IF c.op = "copy" THEN ToSet(WithRows(Value(c.to)) \o WithRows(Value(c.from))) ELSE {}

Freed(h, blocks) == [b \in DOMAIN h |-> IF b \in blocks THEN [h[b] EXCEPT !.alive = FALSE] ELSE h[b]]

\* h and m with a pointer stored at l.
MemWith(l, p) == IF Len(l) = 1 THEN [mem EXCEPT ![l[1]] = p] ELSE mem
HeapWith(h, l, p) == IF Len(l) = 2 THEN [h EXCEPT ![mem[l[1]]].rows[SlotOf(l[2])] = p] ELSE h

Ahead(op, n) ==    \* the next statement of a kind at a depth
  CHOOSE q \in {q \in DOMAIN code : q > pc /\ code[q].op \in op /\ code[q].nest = n} :
    \A r \in pc + 1..q - 1 : ~(code[r].op \in op /\ code[r].nest = n)
TestOf(n) ==
  CHOOSE q \in {q \in 1..pc : code[q].op = "test" /\ code[q].nest = n} :
    \A r \in q + 1..pc : ~(code[r].op = "test" /\ code[r].nest = n)

-----------------------------------------------------------------------------
Names == ToSet(Leaves) \cup ToSet(Trees) \cup RangeVars \cup {Temp(i) : i \in 1..3}

RInit ==
  /\ Init
  /\ pc = 0
  /\ mem = [x \in Names |-> 0]
  /\ heap = << >>
  /\ turn = [n \in 1..3 |-> 0]
  /\ index = [k \in Keys |-> 1]
  /\ final = 0

KeysUsed == {l[2] : l \in {l \in UNION {{code[q].to, code[q].from} : q \in DOMAIN code} : Len(l) = 2}}

\* The function is called with a block for each of its parameters.
Enter ==
  /\ phase = "entry"
  /\ LET h[i \in 0..Len(job.params)] ==
           IF i = 0 THEN << >> ELSE Made(h[i - 1], KindOf(job.params[i]), FALSE)
     IN  /\ heap' = h[Len(job.params)]
         /\ mem' = [x \in Names |->
                      IF \E i \in DOMAIN job.params : job.params[i] = x
                      THEN Len(h[(CHOOSE i \in DOMAIN job.params : job.params[i] = x) - 1]) + 1
                      ELSE 0]
  /\ index' \in {f \in [Keys -> Slots] : \A k \in Keys \ KeysUsed : f[k] = 1}
  /\ pc' = 1
  /\ phase' = "run"
  /\ UNCHANGED <<svars, turn, final>>

Runs(ops) == phase = "run" /\ c.op \in ops /\ ~FollowsNull
Goto(q) == pc' = q /\ UNCHANGED <<mem, heap>>
Go == UNCHANGED <<svars, phase, index, final>>

Create ==
  /\ Runs({"new", "frame"})
  /\ heap' = Made(heap, c.kind, c.op = "frame")
  /\ mem' = MemWith(c.to, Len(heap) + 1)
  /\ pc' = pc + 1
  /\ UNCHANGED turn /\ Go

Store ==
  /\ Runs({"mov", "null"})
  /\ LET p == IF c.op = "mov" THEN Value(c.from) ELSE 0
     IN  mem' = MemWith(c.to, p) /\ heap' = HeapWith(heap, c.to, p)
  /\ pc' = pc + 1
  /\ UNCHANGED turn /\ Go

FreeOrCopy ==
  /\ Runs({"free", "fini", "copy"})
  /\ heap' = Freed(heap, ToSet(Released))
  /\ pc' = pc + 1
  /\ UNCHANGED <<mem, turn>> /\ Go

Calls ==
  /\ Runs({"call"})
  /\ LET h == Freed(heap, ToSet(Released))
     IN  IF c.to = << >> THEN heap' = h /\ mem' = mem
         ELSE /\ heap' = HeapWith(Made(h, c.kind, FALSE), c.to, Len(h) + 1)
              /\ mem' = MemWith(c.to, Len(h) + 1)
  /\ pc' = pc + 1
  /\ UNCHANGED turn /\ Go

Branch ==
  /\ Runs({"if", "else", "end"})
  /\ CASE c.op = "if"   -> Goto(pc + 1) \/ Goto(Ahead({"else", "end"}, c.nest) + 1)
       [] c.op = "else" -> Goto(Ahead({"end"}, c.nest) + 1)
       [] c.op = "end"  -> Goto(pc + 1)
  /\ UNCHANGED turn /\ Go

EnterLoop ==
  /\ Runs({"loop"})
  /\ Goto(pc + 1)
  /\ turn' = [turn EXCEPT ![c.nest] = 1]
  /\ Go

\* A `for` takes one turn for each row, a `while` as many as it likes.
Test ==
  /\ Runs({"test"})
  /\ LET n == c.nest
         counted == c.from # << >>
     IN  \/ /\ turn[n] \in IF counted THEN Slots ELSE 1..MaxTurns
            /\ Goto(pc + 1)
            /\ turn' = IF counted THEN turn ELSE [turn EXCEPT ![n] = @ + 1]
         \/ /\ counted => turn[n] \notin Slots
            /\ Goto(Ahead({"end"}, n) + 1)
            /\ UNCHANGED turn
  /\ Go

Jumps ==
  /\ Runs({"break", "continue", "again"})
  /\ Goto(IF c.op = "break" THEN Ahead({"end"}, c.nest) + 1 ELSE TestOf(c.nest))
  /\ UNCHANGED turn /\ Go

Advance ==
  /\ Runs({"step"})
  /\ Goto(pc + 1)
  /\ turn' = [turn EXCEPT ![c.nest] = @ + 1]
  /\ Go

Returns ==
  /\ Runs({"return"})
  /\ final' = IF c.from = << >> THEN 0 ELSE mem[c.from[1]]
  /\ phase' = "returned"
  /\ UNCHANGED <<svars, pc, mem, heap, turn, index>>

\* A program that reads what a variable has given away ends here.
Crash ==
  /\ phase = "run"
  /\ FollowsNull
  /\ phase' = "crashed"
  /\ UNCHANGED <<svars, rvars>>

Run == \/ Enter \/ Create \/ Store \/ FreeOrCopy \/ Calls \/ Branch \/ EnterLoop
       \/ Test \/ Jumps \/ Advance \/ Returns \/ Crash

Next == (phase = "walk" /\ Walk /\ UNCHANGED rvars) \/ Run
RSpec == RInit /\ [][Next]_vars

-----------------------------------------------------------------------------
Pointers == 0..Len(heap)

\* Types; each open construct has the scopes it needs, a `for` one more.
TypeOK ==
  /\ job \in Jobs
  /\ phase \in {"walk", "entry", "run", "returned", "crashed"}
  /\ Len(scopes) = 1 + Len(open) + Cardinality({n \in DOMAIN open : open[n].kind = "for"})
  /\ \A v \in ScopeVars : v \in [name : Names, owned : BOOLEAN]
  /\ mem \in [Names -> Pointers] /\ final \in Pointers
  /\ \A b \in DOMAIN heap : heap[b].rows \in {<< >>} \cup [Slots -> Pointers]
  /\ turn \in [1..3 -> Nat] /\ index \in [Keys -> Slots]
  /\ phase = "run" => pc \in DOMAIN code

Executes == phase = "run" /\ ~FollowsNull

\* No statement reads, writes or releases a block that has been released.
TouchesAlive == Executes => \A b \in Touched \ {0} : heap[b].alive

\* No statement, a call with all it is given included, releases a block twice,
\* and `free` is for the heap.
ReleasesOnce ==
  Executes => /\ IsInjective(Released)
              /\ c.op # "fini" => \A b \in ToSet(Released) : ~heap[b].frame

\* What is left when the function returns is what its caller takes over.
NothingLeaks ==
  phase = "returned" => {b \in DOMAIN heap : heap[b].alive} = ToSet(WithRows(final))

\* Where a statement of the source starts, each block has one owner: a variable
\* in scope or a row of a block. No owner holds what has been released.
OneOwner ==
  phase = "run" =>
    \A m \in ToSet(owners) : m.at = pc =>
      LET named == {<<x>> : x \in m.vars \cup ({job.named} \ {""})}
          rows == UNION {{<<b, i>> : i \in DOMAIN heap[b].rows} : b \in {b \in DOMAIN heap : heap[b].alive}}
          held(h) == IF Len(h) = 1 THEN mem[h[1]] ELSE heap[h[1]].rows[h[2]]
      IN  \A b \in DOMAIN heap :
            Cardinality({h \in named \cup rows : held(h) = b}) = IF heap[b].alive THEN 1 ELSE 0

\* The array a `for` walks stays its variable's, and alive, to the last turn.
RangeStays ==
  phase = "run" /\ c.op = "test" /\ c.to # << >> =>
    mem[c.to[1]] = mem[c.from[1]] /\ (mem[c.from[1]] # 0 => heap[mem[c.from[1]]].alive)
=============================================================================
