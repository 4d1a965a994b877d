--------------------------- MODULE BuildMgrProofs ----------------------------
(***************************************************************************)
(* What holds of runs of palan for any number of modules, imports and      *)
(* runs: discovery is complete before the first palan-sa, ld is given the  *)
(* whole program, the outcome is the one PalanRun promises, and a run on   *)
(* its own links and runs what it has built.                               *)
(***************************************************************************)
EXTENDS BuildMgr, LeastNats, FiniteSetTheorems

\* No module is a target twice.
Once(s) == \A i, j \in DOMAIN s : s[i] = s[j] => i = j

\* (Added, after the first n of new.)
AddedUpto(old, new, n, all) ==
  /\ all \in Seq(Modules) /\ Len(all) >= Len(old)
  /\ \A j \in 1..Len(old) : all[j] = old[j]
  /\ Once(old) => Once(all)
  /\ Items(all) = Items(old) \cup {new[k] : k \in 1..n}

\* One turn of the loop over an import list (main.cpp 148-151) appends what is not there yet.
LEMMA AppendOnce ==
  ASSUME NEW old \in Seq(Modules), NEW new \in Seq(Modules), NEW n \in 1..Len(new),
         NEW all, AddedUpto(old, new, n - 1, all)
  PROVE  AddedUpto(old, new, n, IF new[n] \in Items(all) THEN all ELSE Append(all, new[n]))
<1>1. all \in Seq(Modules) /\ new[n] \in Modules
  BY DEF AddedUpto
<1>2. {new[k] : k \in 1..n} = {new[k] : k \in 1..(n - 1)} \cup {new[n]}
  OBVIOUS
<1>3. CASE new[n] \in Items(all)
  BY <1>2, <1>3 DEF AddedUpto
<1>4. CASE new[n] \notin Items(all)
  <2> DEFINE next == Append(all, new[n])
  <2>1. next \in Seq(Modules) /\ Len(next) = Len(all) + 1 /\ next[Len(all) + 1] = new[n]
        /\ \A j \in 1..Len(all) : next[j] = all[j]
    BY <1>1
  <2>2. Items(next) = Items(all) \cup {new[n]}
    BY <1>1, <2>1 DEF Items
  <2>3. Once(all) => Once(next)
    BY <1>1, <1>4, <2>1 DEF Once, Items
  <2>4. \A j \in 1..Len(old) : next[j] = old[j]
    BY <2>1 DEF AddedUpto
  <2>5. Len(next) >= Len(old)
    BY <2>1 DEF AddedUpto
  <2> HIDE DEF next
  <2>6. AddedUpto(old, new, n, next)
    BY <2>1, <2>2, <2>3, <2>4, <2>5, <1>2 DEF AddedUpto
  <2> QED
    BY <2>6, <1>4 DEF next
<1> QED
  BY <1>3, <1>4

\* Added keeps the targets there are, in place, and adds those of the imports that are new, once.
LEMMA AddedAdds ==
  ASSUME NEW old \in Seq(Modules), NEW new \in Seq(Modules)
  PROVE  AddedUpto(old, new, Len(new), Added(old, new))
<1> DEFINE N == Len(new)
           Next1(s, n) == IF new[n] \in Items(s) THEN s ELSE Append(s, new[n])
           step == [sn \in Seq(Modules) \X (1..N) |-> Next1(sn[1], sn[2])]
           Is(f) == f = [n \in 0..N |-> IF n = 0 THEN old ELSE Next1(f[n - 1], n)]
           add == CHOOSE f : Is(f)
<1>1. Added(old, new) = add[N]
  BY DEF Added
<1>2. N \in Nat /\ step \in [Seq(Modules) \X (1..N) -> Seq(Modules)]
  OBVIOUS
<1> HIDE DEF step
<1>3. PICK f : Recursion(f, N, Seq(Modules), old, step)
  <2> HIDE DEF N
  <2> QED
    BY <1>2, RecursionExists
<1>4. Is(f)
  <2>1. \A n \in 1..N : f[n] = Next1(f[n - 1], n)
    <3> HIDE DEF Next1
    <3>1. \A s \in Seq(Modules), n \in 1..N : step[<<s, n>>] = Next1(s, n)
      BY DEF step
    <3> SUFFICES ASSUME NEW n \in 1..N PROVE f[n] = Next1(f[n - 1], n)
      OBVIOUS
    <3>2. n - 1 \in 0..N /\ f[n - 1] \in Seq(Modules)
      <4> HIDE DEF N, Is, add
      <4> QED
        BY <1>2, <1>3 DEF Recursion
    <3> QED
      BY <1>3, <3>1, <3>2 DEF Recursion
  <2> HIDE DEF Next1
  <2>2. \A n \in 0..N : f[n] = IF n = 0 THEN old ELSE Next1(f[n - 1], n)
    BY <1>2, <1>3, <2>1 DEF Recursion
  <2> QED
    BY <1>3, <2>2 DEF Recursion
<1> HIDE DEF Next1
<1>5. Is(add)
  BY <1>4
<1> HIDE DEF add
<1>6. add[0] = old /\ \A n \in 1..N : add[n] = Next1(add[n - 1], n)
  BY <1>2, <1>5
<1> DEFINE T == {n \in 0..N : ~AddedUpto(old, new, n, add[n])}
<1>7. T = {}
  <2> SUFFICES ASSUME T # {} PROVE FALSE
    OBVIOUS
  <2>1. T \in SUBSET Nat
    BY <1>2
  <2>2. PICK n \in T : \A k \in T : n <= k
    <3> HIDE DEF T
    <3> QED
      BY <2>1, LeastNat
  <2>3. CASE n = 0
    <3>1. AddedUpto(old, new, 0, old)
      BY DEF AddedUpto
    <3> QED
      BY <3>1, <2>3, <1>6
  <2>4. CASE n # 0
    <3>1. n \in 1..N /\ n - 1 \in 0..N
      BY <2>4
    <3>2. n - 1 \notin T
      <4> HIDE DEF T
      <4> QED
        BY <2>1, <2>2
    <3>3. AddedUpto(old, new, n - 1, add[n - 1])
      BY <3>1, <3>2
    <3>4. AddedUpto(old, new, n, Next1(add[n - 1], n))
      <4> USE DEF Next1
      <4> QED
        BY <3>1, <3>3, AppendOnce, Zenon
    <3>5. AddedUpto(old, new, n, add[n])
      BY <3>1, <3>4, <1>6
    <3> QED
      BY <3>5
  <2> QED
    BY <2>3, <2>4
<1> QED
  BY <1>1, <1>2, <1>7

-----------------------------------------------------------------------------
(***************************************************************************)
(* What is reached is the least set of modules that imports stay in.       *)
(***************************************************************************)
LEMMA ReachedHas == ASSUME NEW imports, NEW m \in Modules PROVE m \in ReachedBy(imports, m)
BY DEF ReachedBy

\* What a reached module imports is reached.
LEMMA ReachedImports ==
  ASSUME NEW imports \in [Modules -> Seq(Modules)], NEW m \in Modules, NEW k \in ReachedBy(imports, m)
  PROVE  Items(imports[k]) \subseteq ReachedBy(imports, m)
<1>1. k \in Modules /\ Items(imports[k]) \subseteq Modules
  BY DEF ReachedBy, Items
<1>2. ASSUME NEW n \in Items(imports[k]), NEW ms \in SUBSET Modules, m \in ms, Imported(imports, ms)
      PROVE  n \in ms
  <2>1. k \in ms
    BY <1>2 DEF ReachedBy
  <2> QED
    BY <2>1, <1>2 DEF Imported
<1> QED
  BY <1>1, <1>2 DEF ReachedBy

\* A set that has a module and all that its members import has what the module reaches.
LEMMA ReachedLeast ==
  ASSUME NEW imports, NEW ms \in SUBSET Modules, NEW m \in ms, Imported(imports, ms)
  PROVE  ReachedBy(imports, m) \subseteq ms
BY DEF ReachedBy

-----------------------------------------------------------------------------
Contents == Left \cup {"current", "wrong"} \cup Runs
Stages == ToolStages \cup {"imports", "entry", "aggregate", "run", "exited"}

Typed ==
  /\ program \in Programs
  /\ disk \in [WorkFiles -> Contents]
  /\ stage \in [Runs -> Stages]
  /\ at \in [Runs -> Nat \ {0}]
  /\ targets \in [Runs -> Seq(Modules)] /\ asts \in [Runs -> Seq(Modules)]
  /\ objs \in [Runs -> Seq(WorkFiles)]
  /\ inHand \in [Runs -> {Nothing, "current", "wrong"} \cup Runs]
  /\ binary \in [Runs -> SUBSET WorkFiles]
  /\ status \in [Runs -> {-1, 0, 1, 127, Aborted, 255}]
  /\ \A r \in Runs : stage[r] # "exited" => status[r] = -1

(***************************************************************************)
(* The invariant of a run: its parts are stated of the values of the run's *)
(* variables, so that a step of another run plainly keeps them.            *)
(***************************************************************************)
\* The imports of the first n targets are targets.
ImportsIn(imports, ts, n) == \A j \in 1..n : Items(imports[ts[j]]) \subseteq Items(ts)

\* Discovery: the targets are distinct modules the source reaches, and an ast is
\* made of each in turn; when it is over, no import is left out.
FoundIn(imports, src, s, i, ts, ps) ==
  /\ Len(ts) >= 1 /\ ts[1] = src /\ Once(ts) /\ Items(ts) \subseteq ReachedBy(imports, src)
  /\ i <= Len(ts) /\ Len(ps) <= Len(ts)
  /\ \A j \in 1..Len(ps) : ps[j] = ts[j]
  /\ s = "gen-ast" => Len(ps) = i - 1
  /\ s = "imports" => Len(ps) = i
  /\ s \in {"gen-ast", "imports"} => ImportsIn(imports, ts, i - 1)
  /\ s \notin {"gen-ast", "imports", "exited"} => Len(ps) = Len(ts) /\ ImportsIn(imports, ts, Len(ts))
Found(r) == FoundIn(program.imports, SourceOf[r], stage[r], at[r], targets[r], asts[r])

\* obj_files: an object of each target compiled so far, then the entry's and the allocators'.
Objects(ts, os, n) == Len(os) = n /\ \A j \in 1..Len(ts) : j <= n => os[j] = <<ts[j], "o">>
GivenIn(src, alloc, s, i, ts, os, shapes) ==
  LET n == Len(ts)
      entry == os[n + 1] = <<src, "entry.o">>
  IN  /\ s \in {"gen-ast", "imports"} => Objects(ts, os, 0)
      /\ s \in {"sa", "codegen", "as"} => Objects(ts, os, i - 1)
      /\ s \in {"entry", "entry.s", "entry.o"} => Objects(ts, os, n)
      /\ s = "aggregate" => Objects(ts, os, n + 1) /\ entry
      /\ s \in {"alloc.pa", "alloc.ast", "alloc.sa", "alloc.s", "alloc.o"} => Objects(ts, os, n + 1) /\ entry /\ shapes # {}
      /\ s = "ld" => IF shapes = {} THEN Objects(ts, os, n + 1) /\ entry
                     ELSE Objects(ts, os, n + 2) /\ entry /\ os[n + 2] = <<alloc, "o">>
Given(r) == GivenIn(SourceOf[r], Allocators(r), stage[r], at[r], targets[r], objs[r], Shapes(r))

\* A binary is linked once, from the modules the source reaches.
BoundIn(reached, s, code, bin) ==
  /\ bin = {} \/ (s \in {"run", "exited"} /\ {m \in Modules : <<m, "o">> \in bin} = reached)
  /\ s = "run" \/ code = 0 => bin # {}
Bound(r) == BoundIn(Reached(SourceOf[r]), stage[r], status[r], binary[r])

\* An ast that was written stays, whoever writes it again.
AstsThere(r) == \A m \in Items(asts[r]) : disk[<<m, "ast">>] # "absent"

BInv == Typed /\ \A r \in Runs : Found(r) /\ Given(r) /\ Bound(r) /\ AstsThere(r)

-----------------------------------------------------------------------------
\* What a step of one run leaves alone.
Others(r, q) ==
  /\ stage'[q] = stage[q] /\ at'[q] = at[q] /\ targets'[q] = targets[q] /\ asts'[q] = asts[q]
  /\ objs'[q] = objs[q] /\ inHand'[q] = inHand[q] /\ binary'[q] = binary[q] /\ status'[q] = status[q]

\* It writes one file at most, the one its tool is to write.
Disked(r) ==
  \/ disk' = disk
  \/ stage[r] \in ToolStages /\ \E c \in Contents \ {"absent"} : disk' = [disk EXCEPT ![Writes(r)] = c]

\* A tool writes into the working directory.
LEMMA WritesWorkFile ==
  ASSUME Typed, NEW r \in Runs, Found(r), stage[r] \in ToolStages
  PROVE  Writes(r) \in WorkFiles
<1>1. SourceOf[r] \in Modules
  BY BuildAssumption
<1>2. targets[r][at[r]] \in Modules
  BY DEF Typed, Found, FoundIn
<1>3. stage[r] \in {"sa", "codegen", "as"} => Module(r) \in Modules
  BY DEF Typed, Found, FoundIn, Module
<1> QED
  BY <1>1, <1>2, <1>3 DEF Writes, WorkFiles, Units, Exts, ToolStages, Allocators, Binary

\* A tool that succeeds puts what it has in hand where it writes.
LEMMA WrittenDisked ==
  ASSUME Typed, NEW r \in Runs, NEW s \in ToolStages, Written(r, s)
  PROVE  Disked(r)
<1>1. stage[r] \in ToolStages /\ inHand[r] \in Contents \ {"absent"}
  BY BuildAssumption DEF Typed, Contents, Left, Nothing, Written
<1>2. disk' = [disk EXCEPT ![Writes(r)] = inHand[r]]
  BY DEF Written
<1> QED
  BY <1>1, <1>2 DEF Disked

\* A step changes one work file at most, which is there afterwards.
LEMMA StepDisk == ASSUME Typed, NEW r \in Runs, Step(r) PROVE Disked(r)
<1>1. CASE UNCHANGED disk
  BY <1>1 DEF Disked
<1>2. CASE ToolWrites(r)
  <2>1. stage[r] \in ToolStages /\ disk' = [disk EXCEPT ![Writes(r)] = "torn"]
    BY <1>2 DEF ToolWrites
  <2>2. "torn" \in Contents \ {"absent"}
    BY DEF Contents, Left
  <2> QED
    BY <2>1, <2>2 DEF Disked
<1>3. CASE \E s \in ToolStages : Written(r, s)
  BY <1>3, WrittenDisked
<1>4. AstWritten(r) \/ SaWritten(r) \/ AsmWritten(r) \/ ObjectWritten(r) \/ EntryStubWritten(r)
        \/ EntryWritten(r) \/ AllocatorsDone(r) \/ Linked(r) => \E s \in ToolStages : Written(r, s)
  BY DEF AstWritten, SaWritten, AsmWritten, ObjectWritten, EntryStubWritten, EntryWritten, AllocatorsDone, Linked, ToolStages
<1>5. AllocatorsWritten(r) => \E s \in ToolStages : Written(r, s)
  BY DEF AllocatorsWritten, AllocStages, ToolStages
<1>6. SourceMissing(r) \/ ToolFails(r) \/ ParseThrows(r) \/ ImportsRead(r) \/ EntryRead(r) \/ Aggregate(r)
        \/ ProgramRun(r) => UNCHANGED disk
  BY DEF SourceMissing, ToolFails, ParseThrows, ImportsRead, EntryRead, Aggregate, ProgramRun
<1> QED
  BY <1>1, <1>2, <1>3, <1>4, <1>5, <1>6 DEF Step

\* A step is of one run that has not ended; it leaves the variables of the others alone.
LEMMA StepFrame ==
  ASSUME Typed, NEW r \in Runs, Step(r)
  PROVE  /\ program' = program /\ stage[r] # "exited"
         /\ \A q \in Runs \ {r} : Others(r, q)
<1> USE DEF Typed, Others
<1>1. CASE SourceMissing(r)
  BY <1>1 DEF SourceMissing, Exit
<1>2. CASE ToolWrites(r)
  BY <1>2 DEF ToolWrites, ToolStages
<1>3. CASE ToolFails(r)
  BY <1>3 DEF ToolFails, Exit, ToolStages
<1>4. CASE AstWritten(r)
  BY <1>4 DEF AstWritten, Written, Go
<1>5. CASE ParseThrows(r)
  BY <1>5 DEF ParseThrows, Exit
<1>6. CASE ImportsRead(r)
  BY <1>6 DEF ImportsRead, Go
<1>7. CASE SaWritten(r)
  BY <1>7 DEF SaWritten, Written, Go
<1>8. CASE AsmWritten(r)
  BY <1>8 DEF AsmWritten, Written, Go
<1>9. CASE ObjectWritten(r)
  BY <1>9 DEF ObjectWritten, Written, Go
<1>10. CASE EntryRead(r)
  BY <1>10 DEF EntryRead, Go
<1>11. CASE EntryStubWritten(r)
  BY <1>11 DEF EntryStubWritten, Written, Go
<1>12. CASE EntryWritten(r)
  BY <1>12 DEF EntryWritten, Written, Go
<1>13. CASE Aggregate(r)
  BY <1>13 DEF Aggregate, Go
<1>14. CASE AllocatorsWritten(r)
  BY <1>14 DEF AllocatorsWritten, Written, Go, AllocStages
<1>15. CASE AllocatorsDone(r)
  BY <1>15 DEF AllocatorsDone, Written, Go
<1>16. CASE Linked(r)
  BY <1>16 DEF Linked, Written
<1>17. CASE ProgramRun(r)
  BY <1>17 DEF ProgramRun, Exit
<1> QED
  BY <1>1, <1>2, <1>3, <1>4, <1>5, <1>6, <1>7, <1>8, <1>9, <1>10, <1>11, <1>12, <1>13, <1>14, <1>15, <1>16, <1>17 DEF Step
-----------------------------------------------------------------------------
\* Each step keeps the types.
LEMMA MadeTyped ==
  ASSUME NEW r \in Runs PROVE Made(r) \in {"current", "wrong"} \cup Runs
<1> DEFINE read == {Disk(f) : f \in Reads(r)}
<1>1. ASSUME NEW c \in Runs \cup {"current"}, read = {c} PROVE (CHOOSE d \in read : TRUE) = c
  BY <1>1
<1> QED
  BY <1>1 DEF Made

\* A step keeps the types.
LEMMA StepTyped ==
  ASSUME Typed, NEW r \in Runs, Found(r), Step(r)
  PROVE  Typed'
<1>0. program' \in Programs /\ disk' \in [WorkFiles -> Contents]
  <2>1. disk' \in [WorkFiles -> Contents]
    <3>1. CASE disk' = disk
      BY <3>1 DEF Typed
    <3>2. CASE stage[r] \in ToolStages /\ \E c \in Contents \ {"absent"} : disk' = [disk EXCEPT ![Writes(r)] = c]
      BY <3>2, WritesWorkFile DEF Typed
    <3> QED
      BY <3>1, <3>2, StepDisk DEF Disked
  <2> QED
    BY <2>1, StepFrame DEF Typed
<1>00. stage[r] \in ToolStages => Writes(r) \in WorkFiles
  BY WritesWorkFile
<1> USE DEF Typed
<1>1. CASE SourceMissing(r)
  BY <1>0, <1>00, <1>1 DEF SourceMissing, Exit, ToolStages, Stages
<1>2. CASE ToolWrites(r)
  BY <1>0, <1>2, MadeTyped DEF ToolWrites
<1>3. CASE ToolFails(r)
  BY <1>0, <1>00, <1>3 DEF ToolFails, Exit, ToolStages, Stages
<1>4. CASE AstWritten(r)
  <2>1. targets[r][at[r]] \in Modules
    BY DEF Found, FoundIn
  <2> QED
    BY <1>0, <2>1, <1>4 DEF AstWritten, Written, Go, ToolStages, Stages
<1>5. CASE ParseThrows(r)
  BY <1>0, <1>00, <1>5 DEF ParseThrows, Exit, Aborted, ToolStages, Stages
<1>6. CASE ImportsRead(r)
  <2> DEFINE old == targets[r]
             new == program.imports[targets[r][at[r]]]
             all == Added(old, new)
  <2>1. old \in Seq(Modules) /\ targets[r][at[r]] \in Modules
    BY DEF Found, FoundIn
  <2>2. new \in Seq(Modules)
    BY <2>1, BuildAssumption
  <2>3. all \in Seq(Modules)
    BY <2>1, <2>2, AddedAdds DEF AddedUpto
  <2>4. targets' = [targets EXCEPT ![r] = all]
    BY <1>6 DEF ImportsRead
  <2> HIDE DEF all
  <2>5. at' \in [Runs -> Nat \ {0}]
    BY <1>6 DEF ImportsRead
  <2>6. stage' \in [Runs -> Stages] /\ UNCHANGED <<asts, objs, inHand, binary, status>>
        /\ \A q \in Runs : stage'[q] # "exited" => stage[q] # "exited"
    BY <1>6 DEF ImportsRead, Go, Stages, ToolStages
  <2> QED
    BY <1>0, <2>3, <2>4, <2>5, <2>6
<1>7. CASE SaWritten(r)
  BY <1>0, <1>00, <1>7 DEF SaWritten, Written, Go, ToolStages, Stages
<1>8. CASE AsmWritten(r)
  BY <1>0, <1>00, <1>8 DEF AsmWritten, Written, Go, ToolStages, Stages
<1>9. CASE ObjectWritten(r)
  <2>1. objs' \in [Runs -> Seq(WorkFiles)] /\ inHand' \in [Runs -> {Nothing, "current", "wrong"} \cup Runs]
    BY <1>00, <1>9 DEF ObjectWritten, Written, ToolStages
  <2>0. \/ at' = [at EXCEPT ![r] = @ + 1] /\ stage' = [stage EXCEPT ![r] = "sa"]
        \/ at' = at /\ stage' = [stage EXCEPT ![r] = "entry"]
    BY <1>9 DEF ObjectWritten, Go
  <2>2. at' \in [Runs -> Nat \ {0}]
    BY <2>0, SMTT(30)
  <2>3. stage' \in [Runs -> Stages] /\ \A q \in Runs : stage'[q] # "exited" => stage[q] # "exited"
    <3>1. stage[r] # "exited"
      BY <1>9 DEF ObjectWritten, Written
    <3>2. PICK s \in Stages \ {"exited"} : stage' = [stage EXCEPT ![r] = s]
      BY <2>0 DEF Stages, ToolStages
    <3> QED
      BY <3>1, <3>2
  <2> QED
    BY <1>0, <1>9, <2>1, <2>2, <2>3 DEF ObjectWritten, Go
<1>10. CASE EntryRead(r)
  BY <1>0, <1>00, <1>10 DEF EntryRead, Go, ToolStages, Stages
<1>11. CASE EntryStubWritten(r)
  BY <1>0, <1>00, <1>11 DEF EntryStubWritten, Written, Go, ToolStages, Stages
<1>12. CASE EntryWritten(r)
  BY <1>0, <1>00, <1>12 DEF EntryWritten, Written, Go, ToolStages, Stages
<1>13. CASE Aggregate(r)
  BY <1>0, <1>00, <1>13 DEF Aggregate, Go, ToolStages, Stages
<1>14. CASE AllocatorsWritten(r)
  BY <1>0, <1>00, <1>14 DEF AllocatorsWritten, Written, Go, AllocStages, ToolStages, Stages
<1>15. CASE AllocatorsDone(r)
  BY <1>0, <1>00, <1>15 DEF AllocatorsDone, Written, Go, ToolStages, Stages
<1>16. CASE Linked(r)
  <2>1. Items(objs[r]) \in SUBSET WorkFiles
    BY DEF Items
  <2> QED
    BY <1>0, <2>1, <1>16 DEF Linked, Written, Stages
<1>17. CASE ProgramRun(r)
  BY <1>0, <1>00, <1>17 DEF ProgramRun, Exit, ToolStages, Stages
<1> QED
  BY <1>1, <1>2, <1>3, <1>4, <1>5, <1>6, <1>7, <1>8, <1>9, <1>10, <1>11, <1>12, <1>13, <1>14, <1>15, <1>16, <1>17 DEF Step
-----------------------------------------------------------------------------
\* What the source files say does not change; a run's variables are its own.
LEMMA OthersFound ==
  ASSUME program' = program, NEW q \in Runs, NEW r, Others(r, q), Found(q), Given(q), Bound(q)
  PROVE  Found(q)' /\ Given(q)' /\ Bound(q)'
BY DEF Others, Found, Given, Bound, Reached, Allocators, Shapes

\* An ast has been written.
LEMMA AstFound ==
  ASSUME NEW imports, NEW src, NEW i \in Nat \ {0}, NEW ts \in Seq(Modules), NEW ps \in Seq(Modules),
         FoundIn(imports, src, "gen-ast", i, ts, ps)
  PROVE  FoundIn(imports, src, "imports", i, ts, Append(ps, ts[i]))
<1> DEFINE more == Append(ps, ts[i])
<1>1. Len(ps) = i - 1 /\ i <= Len(ts) /\ \A j \in 1..Len(ps) : ps[j] = ts[j]
  BY DEF FoundIn
<1>2. ts[i] \in Modules
  BY <1>1
<1>3. more \in Seq(Modules) /\ Len(more) = Len(ps) + 1 /\ more[Len(ps) + 1] = ts[i]
      /\ \A j \in 1..Len(ps) : more[j] = ps[j]
  BY <1>2
<1> HIDE DEF more
<1>4. FoundIn(imports, src, "imports", i, ts, more)
  BY <1>1, <1>3 DEF FoundIn
<1> QED
  BY <1>4 DEF more

\* The imports of the i-th target have been added: the loop goes on while there are targets left.
LEMMA ImportsFound ==
  ASSUME NEW imports \in [Modules -> Seq(Modules)], NEW src \in Modules, NEW i \in Nat \ {0},
         NEW ts \in Seq(Modules), NEW ps \in Seq(Modules), FoundIn(imports, src, "imports", i, ts, ps)
  PROVE  LET all == Added(ts, imports[ts[i]])
         IN  /\ i < Len(all) => FoundIn(imports, src, "gen-ast", i + 1, all, ps)
             /\ ~(i < Len(all)) => FoundIn(imports, src, "sa", 1, all, ps)
<1> DEFINE new == imports[ts[i]]
           all == Added(ts, new)
<1>1. /\ Len(ts) >= 1 /\ ts[1] = src /\ Once(ts) /\ Items(ts) \subseteq ReachedBy(imports, src)
      /\ i <= Len(ts) /\ Len(ps) = i /\ ImportsIn(imports, ts, i - 1)
      /\ \A j \in 1..Len(ps) : ps[j] = ts[j]
  BY DEF FoundIn
<1>2. ts[i] \in Items(ts) /\ ts[i] \in Modules /\ new \in Seq(Modules)
  BY <1>1 DEF Items
<1>3. AddedUpto(ts, new, Len(new), all)
  BY <1>2, AddedAdds
<1>4. Items(new) = {new[k] : k \in 1..Len(new)}
  BY <1>2 DEF Items
<1> HIDE DEF all
<1>5. /\ all \in Seq(Modules) /\ Len(all) >= Len(ts) /\ Once(all)
      /\ \A j \in 1..Len(ts) : all[j] = ts[j]
  BY <1>1, <1>3 DEF AddedUpto
<1>6. Items(all) = Items(ts) \cup Items(new)
  BY <1>3, <1>4 DEF AddedUpto
<1>7. Items(new) \subseteq ReachedBy(imports, src)
  <2>1. ts[i] \in ReachedBy(imports, src)
    BY <1>1, <1>2
  <2> QED
    BY <2>1, ReachedImports
<1> HIDE DEF new
<1>8. ImportsIn(imports, all, i)
  <2> SUFFICES ASSUME NEW j \in 1..i PROVE Items(imports[all[j]]) \subseteq Items(all)
    BY DEF ImportsIn
  <2>1. all[j] = ts[j]
    BY <1>1, <1>5
  <2>2. CASE j = i
    BY <2>1, <2>2, <1>6 DEF new
  <2>3. CASE j # i
    <3>1. j \in 1..(i - 1)
      BY <2>3
    <3> QED
      BY <3>1, <2>1, <1>1, <1>6 DEF ImportsIn
  <2> QED
    BY <2>2, <2>3
<1>9. ASSUME NEW j \in 1..Len(ps) PROVE ps[j] = all[j]
  <2>1. j \in 1..Len(ts) /\ ps[j] = ts[j]
    BY <1>1
  <2> QED
    BY <2>1, <1>5
<1>10. Len(all) >= 1 /\ all[1] = src /\ i <= Len(all) /\ Items(all) \subseteq ReachedBy(imports, src)
  BY <1>1, <1>5, <1>6, <1>7, SMTT(30)
<1> USE DEF new
<1>11. CASE i < Len(all)
  <2>1. i + 1 <= Len(all) /\ (i + 1) - 1 = i /\ Len(ps) <= Len(all)
    BY <1>1, <1>5, <1>11, SMTT(30)
  <2> HIDE DEF new
  <2>2. FoundIn(imports, src, "gen-ast", i + 1, all, ps)
    BY <1>1, <1>5, <1>8, <1>9, <1>10, <2>1 DEF FoundIn
  <2> QED
    BY <2>2, <1>11 DEF all, new
<1>12. CASE ~(i < Len(all))
  <2>1. Len(all) = i
    BY <1>5, <1>10, <1>12
  <2> HIDE DEF new
  <2>2. FoundIn(imports, src, "sa", 1, all, ps)
    BY <1>1, <1>5, <1>8, <1>9, <1>10, <2>1 DEF FoundIn
  <2> QED
    BY <2>2, <1>12 DEF all, new
<1> QED
  BY <1>11, <1>12 DEF all

\* Discovery's invariant: the step that reads the imports is the one that matters.
LEMMA StepFound ==
  ASSUME Typed, NEW r \in Runs, Found(r), Step(r)
  PROVE  Found(r)'
<1>0. program' = program
  BY StepFrame
<1> USE DEF Typed
<1>1. CASE SourceMissing(r)
  BY <1>0, <1>1 DEF SourceMissing, Exit, Found, FoundIn
<1>2. CASE ToolWrites(r)
  BY <1>0, <1>2 DEF ToolWrites, ToolStages, Found, FoundIn
<1>3. CASE ToolFails(r)
  BY <1>0, <1>3 DEF ToolFails, Exit, ToolStages, Found, FoundIn
<1>4. CASE AstWritten(r)
  <2>1. stage[r] = "gen-ast" /\ stage'[r] = "imports" /\ at'[r] = at[r] /\ targets'[r] = targets[r]
        /\ asts'[r] = Append(asts[r], targets[r][at[r]])
    BY <1>4 DEF AstWritten, Written, Go
  <2> QED
    BY <1>0, <2>1, AstFound DEF Found
<1>5. CASE ParseThrows(r)
  BY <1>0, <1>5 DEF ParseThrows, Exit, Found, FoundIn
<1>6. CASE ImportsRead(r)
  <2> DEFINE all == Added(targets[r], program.imports[targets[r][at[r]]])
  <2>1. stage[r] = "imports" /\ targets'[r] = all /\ asts'[r] = asts[r]
        /\ \/ at[r] < Len(all) /\ at'[r] = at[r] + 1 /\ stage'[r] = "gen-ast"
           \/ ~(at[r] < Len(all)) /\ at'[r] = 1 /\ stage'[r] = "sa"
    BY <1>6 DEF ImportsRead, Go
  <2>2. program.imports \in [Modules -> Seq(Modules)] /\ SourceOf[r] \in Modules
    BY BuildAssumption
  <2>3. /\ at[r] < Len(all) => FoundIn(program.imports, SourceOf[r], "gen-ast", at[r] + 1, all, asts[r])
        /\ ~(at[r] < Len(all)) => FoundIn(program.imports, SourceOf[r], "sa", 1, all, asts[r])
    <3> HIDE DEF all
    <3>1. FoundIn(program.imports, SourceOf[r], "imports", at[r], targets[r], asts[r])
      BY <2>1 DEF Found
    <3>2. at[r] \in Nat \ {0} /\ targets[r] \in Seq(Modules) /\ asts[r] \in Seq(Modules)
      OBVIOUS
    <3> HIDE DEF Typed
    <3> QED
      BY <2>2, <3>1, <3>2, ImportsFound, Zenon DEF all
  <2> HIDE DEF all
  <2> QED
    BY <1>0, <2>1, <2>3 DEF Found
<1>7. CASE SaWritten(r)
  BY <1>0, <1>7 DEF SaWritten, Written, Go, Found, FoundIn
<1>8. CASE AsmWritten(r)
  BY <1>0, <1>8 DEF AsmWritten, Written, Go, Found, FoundIn
<1>9. CASE ObjectWritten(r)
  BY <1>0, <1>9 DEF ObjectWritten, Written, Go, Found, FoundIn
<1>10. CASE EntryRead(r)
  BY <1>0, <1>10 DEF EntryRead, Go, Found, FoundIn
<1>11. CASE EntryStubWritten(r)
  BY <1>0, <1>11 DEF EntryStubWritten, Written, Go, Found, FoundIn
<1>12. CASE EntryWritten(r)
  BY <1>0, <1>12 DEF EntryWritten, Written, Go, Found, FoundIn
<1>13. CASE Aggregate(r)
  BY <1>0, <1>13 DEF Aggregate, Go, Found, FoundIn
<1>14. CASE AllocatorsWritten(r)
  BY <1>0, <1>14, SMTT(30) DEF AllocatorsWritten, Written, Go, AllocStages, Found, FoundIn
<1>15. CASE AllocatorsDone(r)
  BY <1>0, <1>15 DEF AllocatorsDone, Written, Go, Found, FoundIn
<1>16. CASE Linked(r)
  BY <1>0, <1>16 DEF Linked, Written, Found, FoundIn
<1>17. CASE ProgramRun(r)
  BY <1>0, <1>17 DEF ProgramRun, Exit, Found, FoundIn
<1> QED
  BY <1>1, <1>2, <1>3, <1>4, <1>5, <1>6, <1>7, <1>8, <1>9, <1>10, <1>11, <1>12, <1>13, <1>14, <1>15, <1>16, <1>17 DEF Step
\* The objects' invariant: each object is appended where the next is expected.
LEMMA ObjectsAppend ==
  ASSUME NEW ts \in Seq(Modules), NEW os \in Seq(WorkFiles), NEW n \in Nat, Objects(ts, os, n), NEW x \in WorkFiles,
         n < Len(ts) => x = <<ts[n + 1], "o">>
  PROVE  /\ Objects(ts, Append(os, x), n + 1) /\ Append(os, x)[n + 1] = x
         /\ \A j \in 1..n : Append(os, x)[j] = os[j]
<1> DEFINE more == Append(os, x)
<1>1. Len(os) = n /\ Len(more) = n + 1 /\ more[n + 1] = x /\ \A j \in 1..n : more[j] = os[j]
  BY DEF Objects
<1> HIDE DEF more
<1>2. ASSUME NEW j \in 1..Len(ts), j <= n + 1 PROVE more[j] = <<ts[j], "o">>
  <2>1. CASE j <= n
    BY <1>1, <2>1 DEF Objects
  <2>2. CASE j = n + 1
    BY <1>1, <2>2
  <2> QED
    BY <1>2, <2>1, <2>2
<1>3. Objects(ts, more, n + 1)
  BY <1>1, <1>2 DEF Objects
<1> QED
  BY <1>1, <1>3 DEF more

\* A step keeps which objects obj_files has.
LEMMA StepGiven ==
  ASSUME Typed, NEW r \in Runs, Found(r), Given(r), Step(r)
  PROVE  Given(r)'
<1>0. program' = program
  BY StepFrame
<1>00. stage[r] \in ToolStages => Writes(r) \in WorkFiles
  BY WritesWorkFile
<1> USE DEF Typed
<1>1. CASE SourceMissing(r)
  BY <1>0, <1>1 DEF SourceMissing, Exit, Given, GivenIn, Shapes, Allocators
<1>2. CASE ToolWrites(r)
  BY <1>0, <1>2 DEF ToolWrites, ToolStages, Given, GivenIn, Shapes, Allocators
<1>3. CASE ToolFails(r)
  BY <1>0, <1>3 DEF ToolFails, Exit, ToolStages, Given, GivenIn, Shapes, Allocators
<1>4. CASE AstWritten(r)
  BY <1>0, <1>4 DEF AstWritten, Written, Go, Given, GivenIn, Shapes, Allocators
<1>5. CASE ParseThrows(r)
  BY <1>0, <1>5, SMTT(30) DEF ParseThrows, Exit, Given, GivenIn, Shapes, Allocators
<1>6. CASE ImportsRead(r)
  BY <1>0, <1>6 DEF ImportsRead, Go, Given, GivenIn, Objects, Shapes, Allocators
<1>7. CASE SaWritten(r)
  BY <1>0, <1>7 DEF SaWritten, Written, Go, Given, GivenIn, Shapes, Allocators
<1>8. CASE AsmWritten(r)
  BY <1>0, <1>8 DEF AsmWritten, Written, Go, Given, GivenIn, Shapes, Allocators
<1>9. CASE ObjectWritten(r)
  <2>1. /\ stage[r] = "as" /\ objs'[r] = Append(objs[r], Writes(r)) /\ targets'[r] = targets[r] /\ asts'[r] = asts[r]
        /\ \/ at[r] < Len(asts[r]) /\ at'[r] = at[r] + 1 /\ stage'[r] = "sa"
           \/ ~(at[r] < Len(asts[r])) /\ at'[r] = at[r] /\ stage'[r] = "entry"
    BY <1>9 DEF ObjectWritten, Written, Go
  <2>2. Objects(targets[r], objs[r], at[r] - 1)
    BY <2>1 DEF Given, GivenIn
  <2>3. Len(asts[r]) = Len(targets[r]) /\ at[r] <= Len(targets[r]) /\ asts[r][at[r]] = targets[r][at[r]]
    BY <2>1 DEF Found, FoundIn
  <2>4. Writes(r) = <<targets[r][at[r]], "o">> /\ Writes(r) \in WorkFiles
    BY <1>00, <2>1, <2>3 DEF Writes, Module, ToolStages
  <2>5. at[r] - 1 \in Nat /\ (at[r] - 1) + 1 = at[r]
    OBVIOUS
  <2>6. Objects(targets[r], Append(objs[r], Writes(r)), at[r])
    <3>1. Objects(targets[r], Append(objs[r], Writes(r)), (at[r] - 1) + 1)
      BY <2>2, <2>4, <2>5, ObjectsAppend
    <3> QED
      BY <3>1, <2>5
  <2>7. at'[r] - 1 = at[r] \/ at[r] = Len(targets[r])
    BY <2>1, <2>3
  <2> QED
    BY <1>0, <2>1, <2>3, <2>6, <2>7 DEF Given, GivenIn
<1>10. CASE EntryRead(r)
  BY <1>0, <1>10 DEF EntryRead, Go, Given, GivenIn, Shapes, Allocators
<1>11. CASE EntryStubWritten(r)
  BY <1>0, <1>11 DEF EntryStubWritten, Written, Go, Given, GivenIn, Shapes, Allocators
<1>12. CASE EntryWritten(r)
  <2> DEFINE n == Len(targets[r])
             more == Append(objs[r], Writes(r))
  <2>1. stage[r] = "entry.o" /\ objs'[r] = more /\ targets'[r] = targets[r] /\ stage'[r] = "aggregate"
    BY <1>12 DEF EntryWritten, Written, Go
  <2>2. Objects(targets[r], objs[r], n) /\ n \in Nat
    BY <2>1 DEF Given, GivenIn
  <2>3. Writes(r) = <<SourceOf[r], "entry.o">> /\ Writes(r) \in WorkFiles
    BY <1>00, <2>1 DEF Writes, ToolStages
  <2>0. targets[r] \in Seq(Modules) /\ objs[r] \in Seq(WorkFiles) /\ ~(n < Len(targets[r]))
    OBVIOUS
  <2>4. Objects(targets[r], more, n + 1) /\ more[n + 1] = Writes(r)
    <3> HIDE DEF n, Typed
    <3> QED
      BY <2>0, <2>2, <2>3, ObjectsAppend
  <2> HIDE DEF more
  <2> QED
    BY <1>0, <2>1, <2>3, <2>4 DEF Given, GivenIn
<1>13. CASE Aggregate(r)
  BY <1>0, <1>13 DEF Aggregate, Go, Given, GivenIn, Shapes, Allocators
<1>14. CASE AllocatorsWritten(r)
  BY <1>0, <1>14, SMTT(30) DEF AllocatorsWritten, Written, Go, AllocStages, Given, GivenIn, Shapes, Allocators
<1>15. CASE AllocatorsDone(r)
  <2> DEFINE n == Len(targets[r])
             more == Append(objs[r], Writes(r))
  <2>1. /\ stage[r] = "alloc.o" /\ objs'[r] = more /\ targets'[r] = targets[r] /\ asts'[r] = asts[r]
        /\ stage'[r] = "ld"
    BY <1>15 DEF AllocatorsDone, Written, Go
  <2>2. Objects(targets[r], objs[r], n + 1) /\ n + 1 \in Nat /\ objs[r][n + 1] = <<SourceOf[r], "entry.o">> /\ Shapes(r) # {}
    BY <2>1 DEF Given, GivenIn
  <2>3. Writes(r) = <<Allocators(r), "o">> /\ Writes(r) \in WorkFiles
    BY <1>00, <2>1 DEF Writes, ToolStages
  <2>4. /\ Objects(targets[r], more, (n + 1) + 1) /\ more[(n + 1) + 1] = Writes(r)
        /\ \A j \in 1..(n + 1) : more[j] = objs[r][j]
    <3>1. targets[r] \in Seq(Modules) /\ objs[r] \in Seq(WorkFiles) /\ ~(n + 1 < Len(targets[r]))
      OBVIOUS
    <3> HIDE DEF n, Typed
    <3> QED
      BY <2>2, <2>3, <3>1, ObjectsAppend, ZenonT(30)
  <2>5. (n + 1) + 1 = n + 2 /\ more[n + 1] = objs[r][n + 1]
    <3>1. n \in Nat
      OBVIOUS
    <3> HIDE DEF n, more, Typed
    <3> QED
      BY <2>4, <3>1
  <2>6. Shapes(r)' = Shapes(r) /\ Allocators(r)' = Allocators(r)
    BY <1>0, <2>1 DEF Shapes, Allocators
  <2> HIDE DEF more
  <2> QED
    BY <1>0, <2>1, <2>2, <2>3, <2>4, <2>5, <2>6 DEF Given, GivenIn
<1>16. CASE Linked(r)
  BY <1>0, <1>16 DEF Linked, Written, Given, GivenIn, Shapes, Allocators
<1>17. CASE ProgramRun(r)
  BY <1>0, <1>17 DEF ProgramRun, Exit, Given, GivenIn, Shapes, Allocators
<1> QED
  BY <1>1, <1>2, <1>3, <1>4, <1>5, <1>6, <1>7, <1>8, <1>9, <1>10, <1>11, <1>12, <1>13, <1>14, <1>15, <1>16, <1>17 DEF Step
\* When discovery is over, the targets are what the source reaches, and each has its ast.
LEMMA AllFound ==
  ASSUME Typed, NEW r \in Runs, Found(r), stage[r] \notin {"gen-ast", "imports", "exited"}
  PROVE  Items(targets[r]) = Reached(SourceOf[r]) /\ Items(asts[r]) = Items(targets[r])
<1> DEFINE ts == targets[r]
<1>1. /\ ts \in Seq(Modules) /\ asts[r] \in Seq(Modules) /\ Len(asts[r]) = Len(ts)
      /\ \A j \in 1..Len(asts[r]) : asts[r][j] = ts[j]
      /\ Len(ts) >= 1 /\ ts[1] = SourceOf[r] /\ ImportsIn(program.imports, ts, Len(ts))
      /\ Items(ts) \subseteq ReachedBy(program.imports, SourceOf[r])
  BY DEF Typed, Found, FoundIn
<1> HIDE DEF ts
<1>2. SourceOf[r] \in Items(ts) /\ Items(ts) \in SUBSET Modules /\ Items(asts[r]) = Items(ts)
  BY <1>1 DEF Items
<1>3. Imported(program.imports, Items(ts))
  <2>1. \A k \in Items(ts) : \E j \in 1..Len(ts) : k = ts[j]
    BY <1>1 DEF Items
  <2> QED
    BY <1>1, <2>1 DEF Imported, ImportsIn
<1>4. ReachedBy(program.imports, SourceOf[r]) \subseteq Items(ts)
  BY <1>2, <1>3, ReachedLeast
<1> QED
  BY <1>1, <1>2, <1>4 DEF Reached, ts

\* Objects of n distinct targets are n.
LEMMA ObjectsDistinct ==
  ASSUME NEW os, NEW n \in Nat, os \in [1..n -> WorkFiles], Once(os)
  PROVE  Cardinality(Items(os)) = n
<1>1. os \in Bijection(1..n, Items(os))
  BY DEF Once, Items, Bijection, Injection, Surjection, IsInjective
<1>2. ExistsBijection(1..n, Items(os))
  BY <1>1 DEF ExistsBijection
<1> QED
  BY <1>2, FS_CountingElements

\* What ld is given.
LEMMA LdWhole ==
  ASSUME Typed, NEW r \in Runs, Found(r), Given(r), stage[r] = "ld"
  PROVE  LET mods == Reached(SourceOf[r])
         IN  /\ Cardinality(Items(objs[r])) = Len(objs[r])
             /\ Items(objs[r]) = {<<m, "o">> : m \in mods} \cup {<<SourceOf[r], "entry.o">>}
                  \cup (IF mods \cap program.shapes # {} THEN {<<Allocators(r), "o">>} ELSE {})
<1> DEFINE ts == targets[r]
           os == objs[r]
           n == Len(ts)
<1>1. Items(ts) = Reached(SourceOf[r]) /\ Shapes(r) = Reached(SourceOf[r]) \cap program.shapes
  BY AllFound DEF Shapes
<1>2. /\ ts \in Seq(Modules) /\ os \in Seq(WorkFiles) /\ n \in Nat /\ Once(ts)
      /\ os[n + 1] = <<SourceOf[r], "entry.o">>
      /\ IF Shapes(r) = {} THEN Objects(ts, os, n + 1)
         ELSE Objects(ts, os, n + 2) /\ os[n + 2] = <<Allocators(r), "o">>
  BY DEF Typed, Found, FoundIn, Given, GivenIn
<1>3. Allocators(r) \notin Modules
  BY BuildAssumption DEF Allocators
<1> HIDE DEF ts, os, n
<1>4. /\ \A j \in 1..n : os[j] = <<ts[j], "o">>
      /\ Len(os) = IF Shapes(r) = {} THEN n + 1 ELSE n + 2
  BY <1>2 DEF Objects, n
<1>5. ts \in [1..n -> Modules] /\ os \in [1..Len(os) -> WorkFiles] /\ Len(os) \in Nat
  BY <1>2 DEF n
<1>6. Once(os)
  <2> SUFFICES ASSUME NEW i \in 1..Len(os), NEW j \in 1..Len(os), os[i] = os[j] PROVE i = j
    BY <1>5 DEF Once
  <2>1. CASE i <= n /\ j <= n
    BY <1>2, <1>4, <1>5, <2>1, SMTT(30) DEF Once
  <2>2. ASSUME NEW k \in 1..Len(os), k <= n, NEW l \in 1..Len(os), n < l PROVE os[k] # os[l]
    <3>1. os[k] = <<ts[k], "o">> /\ ts[k] \in Modules
      BY <1>2, <1>4, <1>5, <2>2
    <3>2. os[l] = <<SourceOf[r], "entry.o">> \/ os[l] = <<Allocators(r), "o">>
      BY <1>2, <1>4, <2>2, SMTT(30)
    <3> QED
      BY <3>1, <3>2, <1>3
  <2>3. CASE n < i /\ n < j
    <3>1. i \in {n + 1, n + 2} /\ j \in {n + 1, n + 2} /\ (n + 2 \in {i, j} => os[n + 2] = <<Allocators(r), "o">>)
      BY <1>2, <1>4, <2>3
    <3> QED
      BY <3>1, <1>2
  <2> QED
    BY <1>2, <2>1, <2>2, <2>3
<1>7. Cardinality(Items(os)) = Len(os)
  BY <1>5, <1>6, ObjectsDistinct
<1>8. Items(os) = {<<ts[j], "o">> : j \in 1..n} \cup {os[j] : j \in (n + 1)..Len(os)}
  <2>1. 1..Len(os) = (1..n) \cup ((n + 1)..Len(os))
    BY <1>2, <1>4
  <2>2. Items(os) = {os[j] : j \in 1..Len(os)}
    BY <1>5 DEF Items
  <2>3. {os[j] : j \in 1..n} = {<<ts[j], "o">> : j \in 1..n}
    BY <1>4
  <2>4. Items(os) = {os[j] : j \in 1..n} \cup {os[j] : j \in (n + 1)..Len(os)}
    BY <2>1, <2>2
  <2> QED
    BY <2>3, <2>4
<1>9. {<<ts[j], "o">> : j \in 1..n} = {<<m, "o">> : m \in Reached(SourceOf[r])}
  BY <1>1, <1>5 DEF Items
<1>10. {os[j] : j \in (n + 1)..Len(os)} = {<<SourceOf[r], "entry.o">>}
          \cup (IF Shapes(r) # {} THEN {<<Allocators(r), "o">>} ELSE {})
  <2>1. CASE Shapes(r) = {}
    <3>1. (n + 1)..Len(os) = {n + 1}
      BY <1>2, <1>4, <2>1
    <3> QED
      BY <3>1, <1>2, <2>1
  <2>2. CASE Shapes(r) # {}
    <3>1. (n + 1)..Len(os) = {n + 1, n + 2}
      BY <1>2, <1>4, <2>2
    <3> QED
      BY <3>1, <1>2, <2>2
  <2> QED
    BY <2>1, <2>2
<1> QED
  BY <1>1, <1>7, <1>8, <1>9, <1>10 DEF os

\* The modules whose objects are in what ld is given are those the source reaches.
LEMMA LdModules ==
  ASSUME Typed, NEW r \in Runs, Found(r), Given(r), stage[r] = "ld"
  PROVE  Items(objs[r]) # {} /\ {m \in Modules : <<m, "o">> \in Items(objs[r])} = Reached(SourceOf[r])
<1>1. Items(objs[r]) = {<<m, "o">> : m \in Reached(SourceOf[r])} \cup {<<SourceOf[r], "entry.o">>}
        \cup (IF Reached(SourceOf[r]) \cap program.shapes # {} THEN {<<Allocators(r), "o">>} ELSE {})
  BY LdWhole
<1>2. Allocators(r) \notin Modules /\ Reached(SourceOf[r]) \subseteq Modules
  BY BuildAssumption DEF Allocators, Reached, ReachedBy
<1>3. ASSUME NEW m \in Modules PROVE <<m, "o">> \in Items(objs[r]) <=> m \in Reached(SourceOf[r])
  BY <1>1, <1>2
<1> QED
  BY <1>1, <1>2, <1>3

\* A step keeps that a binary is linked once, from the modules reached.
LEMMA StepBound ==
  ASSUME Typed, NEW r \in Runs, Found(r), Given(r), Bound(r), Step(r)
  PROVE  Bound(r)'
<1>0. program' = program /\ Reached(SourceOf[r])' = Reached(SourceOf[r])
  BY StepFrame DEF Reached
<1>00. status[r] = 0 => stage[r] = "exited"
  BY DEF Typed
<1>000. stage \in [Runs -> Stages] /\ binary \in [Runs -> SUBSET WorkFiles] /\ status \in [Runs -> {-1, 0, 1, 127, Aborted, 255}]
  BY DEF Typed
<1> USE DEF Bound, BoundIn
<1>1. CASE SourceMissing(r)
  BY <1>0, <1>00, <1>000, <1>1 DEF SourceMissing, Exit
<1>2. CASE ToolWrites(r)
  BY <1>0, <1>00, <1>000, <1>2 DEF ToolWrites, ToolStages
<1>3. CASE ToolFails(r)
  BY <1>0, <1>00, <1>000, <1>3 DEF ToolFails, Exit, ToolStages
<1>4. CASE AstWritten(r)
  BY <1>0, <1>00, <1>000, <1>4 DEF AstWritten, Written, Go
<1>5. CASE ParseThrows(r)
  BY <1>0, <1>00, <1>000, <1>5 DEF ParseThrows, Exit, Aborted
<1>6. CASE ImportsRead(r)
  BY <1>0, <1>00, <1>000, <1>6 DEF ImportsRead, Go
<1>7. CASE SaWritten(r)
  BY <1>0, <1>00, <1>000, <1>7 DEF SaWritten, Written, Go
<1>8. CASE AsmWritten(r)
  BY <1>0, <1>00, <1>000, <1>8 DEF AsmWritten, Written, Go
<1>9. CASE ObjectWritten(r)
  BY <1>0, <1>00, <1>000, <1>9 DEF ObjectWritten, Written, Go
<1>10. CASE EntryRead(r)
  BY <1>0, <1>00, <1>000, <1>10 DEF EntryRead, Go
<1>11. CASE EntryStubWritten(r)
  BY <1>0, <1>00, <1>000, <1>11 DEF EntryStubWritten, Written, Go
<1>12. CASE EntryWritten(r)
  BY <1>0, <1>00, <1>000, <1>12 DEF EntryWritten, Written, Go
<1>13. CASE Aggregate(r)
  BY <1>0, <1>00, <1>000, <1>13 DEF Aggregate, Go
<1>14. CASE AllocatorsWritten(r)
  BY <1>0, <1>00, <1>000, <1>14 DEF AllocatorsWritten, Written, Go, AllocStages
<1>15. CASE AllocatorsDone(r)
  BY <1>0, <1>00, <1>000, <1>15 DEF AllocatorsDone, Written, Go
<1>16. CASE Linked(r)
  <2>1. stage[r] = "ld" /\ stage'[r] \in {"run", "exited"} /\ binary'[r] = Items(objs[r])
    BY <1>000, <1>16 DEF Linked, Written
  <2> QED
    BY <1>0, <2>1, LdModules
<1>17. CASE ProgramRun(r)
  BY <1>0, <1>00, <1>000, <1>17 DEF ProgramRun, Exit
<1> QED
  BY <1>1, <1>2, <1>3, <1>4, <1>5, <1>6, <1>7, <1>8, <1>9, <1>10, <1>11, <1>12, <1>13, <1>14, <1>15, <1>16, <1>17 DEF Step

\* An ast that is there stays there, whoever takes the step.
LEMMA AstsStay ==
  ASSUME Typed, NEW r \in Runs, NEW q \in Runs, Found(q), AstsThere(q), Disked(r), asts'[q] = asts[q],
         stage[r] \in ToolStages => Writes(r) \in WorkFiles
  PROVE  AstsThere(q)'
<1> SUFFICES ASSUME NEW m \in Items(asts[q]) PROVE disk'[<<m, "ast">>] # "absent"
  BY DEF AstsThere
<1>1. disk[<<m, "ast">>] # "absent" /\ <<m, "ast">> \in WorkFiles
  BY DEF AstsThere, Typed, Items, WorkFiles, Units, Exts
<1>2. CASE disk' = disk
  BY <1>1, <1>2
<1>3. CASE stage[r] \in ToolStages /\ \E c \in Contents \ {"absent"} : disk' = [disk EXCEPT ![Writes(r)] = c]
  BY <1>1, <1>3 DEF Typed
<1> QED
  BY <1>2, <1>3 DEF Disked

\* A step of a run writes an ast before it counts it among its ast_files.
LEMMA StepAsts ==
  ASSUME Typed, NEW r \in Runs, Found(r), AstsThere(r), Step(r)
  PROVE  AstsThere(r)'
<1>0. Disked(r) /\ (stage[r] \in ToolStages => Writes(r) \in WorkFiles)
  BY StepDisk, WritesWorkFile
<1>1. CASE AstWritten(r)
  <2> DEFINE m == targets[r][at[r]]
  <2>1. /\ stage[r] = "gen-ast" /\ inHand[r] # Nothing /\ asts'[r] = Append(asts[r], m)
        /\ disk' = [disk EXCEPT ![Writes(r)] = inHand[r]]
    BY <1>1 DEF AstWritten, Written, Typed
  <2>2. m \in Modules /\ asts[r] \in Seq(Modules)
    BY DEF Typed, Found, FoundIn
  <2>3. Writes(r) = <<m, "ast">> /\ Writes(r) \in WorkFiles /\ inHand[r] # "absent"
    BY <1>0, <2>1, BuildAssumption, ZenonT(30) DEF Writes, ToolStages, Typed, Nothing, Left
  <2>4. Items(asts'[r]) = Items(asts[r]) \cup {m}
    BY <2>1, <2>2, SMTT(30) DEF Items
  <2>5. disk'[<<m, "ast">>] # "absent"
    BY <2>1, <2>3 DEF Typed
  <2>6. \A k \in Items(asts[r]) : disk'[<<k, "ast">>] # "absent"
    <3>1. \A k \in Items(asts[r]) : <<k, "ast">> \in WorkFiles
      BY <2>2 DEF Items, WorkFiles, Units, Exts
    <3>2. disk \in [WorkFiles -> Contents]
      BY DEF Typed
    <3> QED
      BY <2>1, <2>3, <3>1, <3>2 DEF AstsThere
  <2> QED
    BY <2>4, <2>5, <2>6 DEF AstsThere
<1>2. CASE ~AstWritten(r)
  <2>1. asts' = asts
    BY <1>2 DEF Step, SourceMissing, ToolWrites, ToolFails, ParseThrows, ImportsRead, SaWritten, AsmWritten,
       ObjectWritten, EntryRead, EntryStubWritten, EntryWritten, Aggregate, AllocatorsWritten, AllocatorsDone,
       Linked, ProgramRun, Exit
  <2> QED
    BY <1>0, <2>1, AstsStay
<1> QED
  BY <1>1, <1>2
-----------------------------------------------------------------------------
\* The invariant holds from the start, of every run.
LEMMA InitBInv == Init => BInv
<1> SUFFICES ASSUME Init PROVE BInv
  OBVIOUS
<1> USE DEF Init
<1>1. \A r \in Runs : <<SourceOf[r]>> \in Seq(Modules) /\ SourceOf[r] \in Modules
  BY BuildAssumption
<1>2. Typed
  <2>1. program \in Programs /\ program.left \in Contents
    BY BuildAssumption DEF Contents
  <2>2. stage \in [Runs -> Stages]
    BY DEF Stages, ToolStages
  <2> QED
    BY <1>1, <2>1, <2>2 DEF Typed, Nothing
<1>3. ASSUME NEW r \in Runs PROVE Found(r) /\ Given(r) /\ Bound(r) /\ AstsThere(r)
  <2>1. SourceOf[r] \in ReachedBy(program.imports, SourceOf[r])
    BY <1>1, ReachedHas
  <2>2. Found(r)
    BY <1>1, <2>1 DEF Found, FoundIn, Once, Items, ImportsIn
  <2>3. Given(r)
    BY DEF Given, GivenIn, Objects
  <2>4. Bound(r) /\ AstsThere(r)
    BY DEF Bound, BoundIn, AstsThere, Items
  <2> QED
    BY <2>2, <2>3, <2>4
<1> QED
  BY <1>2, <1>3 DEF BInv

\* A step keeps the invariant ...
LEMMA StepBInv == ASSUME BInv, NEW r \in Runs, Step(r) PROVE BInv'
<1>0. Typed /\ Found(r) /\ Given(r) /\ Bound(r) /\ AstsThere(r)
  BY DEF BInv
<1>1. Typed'
  BY <1>0, StepTyped
<1>2. Found(r)' /\ Given(r)' /\ Bound(r)' /\ AstsThere(r)'
  BY <1>0, StepFound, StepGiven, StepBound, StepAsts
<1>3. ASSUME NEW q \in Runs, q # r PROVE Found(q)' /\ Given(q)' /\ Bound(q)' /\ AstsThere(q)'
  <2>1. program' = program /\ Others(r, q) /\ Found(q) /\ Given(q) /\ Bound(q) /\ AstsThere(q)
    BY <1>0, <1>3, StepFrame DEF BInv
  <2>2. Disked(r) /\ (stage[r] \in ToolStages => Writes(r) \in WorkFiles) /\ asts'[q] = asts[q]
    BY <1>0, <2>1, StepDisk, WritesWorkFile DEF Others
  <2> QED
    BY <1>0, <2>1, <2>2, OthersFound, AstsStay
<1> QED
  BY <1>1, <1>2, <1>3 DEF BInv

\* ... as a stutter does, ...
LEMMA StaysBInv == ASSUME BInv, UNCHANGED vars PROVE BInv'
<1> USE DEF vars
<1>1. Typed'
  BY DEF BInv, Typed
<1>2. \A q \in Runs : Found(q)' /\ Given(q)' /\ Bound(q)' /\ AstsThere(q)'
  BY DEF BInv, Found, Given, Bound, AstsThere, Reached, Allocators, Shapes
<1> QED
  BY <1>1, <1>2 DEF BInv

\* ... and so any step.
LEMMA NextBInv == BInv /\ [Next]_vars => BInv'
BY StepBInv, StaysBInv DEF Next, AllExited

\* The invariant holds always.
LEMMA AlwaysBInv == Spec => []BInv
BY InitBInv, NextBInv, PTL DEF Spec

\* The invariant has the types ...
LEMMA BInvTypeOK == BInv => TypeOK
<1> SUFFICES ASSUME BInv PROVE TypeOK
  OBVIOUS
<1>1. Typed
  BY DEF BInv
<1>2. ASSUME NEW r \in Runs
      PROVE  /\ asts[r] = SubSeq(targets[r], 1, Len(asts[r]))
             /\ at[r] \in 1..Len(targets[r])
             /\ Items(objs[r]) \cup binary[r] \subseteq WorkFiles
  <2>1. /\ asts[r] \in Seq(Modules) /\ targets[r] \in Seq(Modules) /\ objs[r] \in Seq(WorkFiles)
        /\ at[r] \in Nat \ {0} /\ binary[r] \in SUBSET WorkFiles
    BY <1>1 DEF Typed
  <2>2. /\ at[r] <= Len(targets[r]) /\ Len(asts[r]) <= Len(targets[r])
        /\ \A j \in 1..Len(asts[r]) : asts[r][j] = targets[r][j]
    BY DEF BInv, Found, FoundIn
  <2>3. asts[r] = SubSeq(targets[r], 1, Len(asts[r]))
    BY <2>1, <2>2
  <2> QED
    BY <2>1, <2>2, <2>3 DEF Items
<1> QED
  BY <1>1, <1>2 DEF TypeOK, Typed, Contents, Left, Stages

\* ... and that the asts palan-sa opens are there ...
LEMMA BInvImportsAreFound == BInv /\ program.absolute = {} => ImportsAreFound
<1> SUFFICES ASSUME BInv, program.absolute = {}, NEW r \in Runs, stage[r] = "sa", NEW f \in SaReads(Module(r))
             PROVE  Disk(f) # "absent"
  BY DEF ImportsAreFound
<1>1. Typed /\ Found(r) /\ AstsThere(r)
  BY DEF BInv
<1>2. Items(targets[r]) = Reached(SourceOf[r]) /\ Items(asts[r]) = Items(targets[r])
  BY <1>1, AllFound
<1>3. Module(r) \in Items(asts[r])
  BY <1>1 DEF Typed, Found, FoundIn, Module, Items
<1>4. PICK m \in Items(asts[r]) : f = <<m, "ast">>
  <2>1. CASE f = <<Module(r), "ast">>
    BY <1>3, <2>1
  <2>2. CASE f # <<Module(r), "ast">>
    <3>0. PICK i \in Reached(Module(r)) : \E k \in Items(program.imports[i]) : f = ImportAst(k)
      BY <2>2 DEF SaReads
    <3>1. PICK k \in Items(program.imports[i]) : f = ImportAst(k)
      BY <3>0
    <3>2. f = <<k, "ast">>
      BY <3>1 DEF ImportAst
    <3>3. program.imports \in [Modules -> Seq(Modules)] /\ SourceOf[r] \in Modules
      BY <1>1, BuildAssumption DEF Typed
    <3>4. Reached(SourceOf[r]) \in SUBSET Modules /\ Imported(program.imports, Reached(SourceOf[r]))
      BY <3>3, ReachedImports DEF Reached, ReachedBy, Imported
    <3>5. Reached(Module(r)) \subseteq Reached(SourceOf[r])
      BY <1>2, <1>3, <3>4, ReachedLeast DEF Reached
    <3>6. k \in Reached(SourceOf[r])
      BY <3>1, <3>4, <3>5 DEF Imported
    <3> QED
      BY <1>2, <3>2, <3>6
  <2> QED
    BY <2>1, <2>2
<1>5. m \in Modules
  BY <1>1 DEF Typed, Items
<1>6. f \in WorkFiles
  BY <1>4, <1>5 DEF WorkFiles, Units, Exts
<1> QED
  BY <1>1, <1>4, <1>6 DEF AstsThere, Disk

\* ... and that ld is given the whole program.
LEMMA BInvWholeProgram == BInv => WholeProgram
BY LdWhole DEF BInv, WholeProgram

\* Any runs of palan keep the types of what they share and hold.
THEOREM BuildTyped == Spec => []TypeOK
BY AlwaysBInv, BInvTypeOK, PTL

\* However modules import each other, in cycles or more than once, every ast that a run's
\* palan-sa will open has been written when the first one starts (main's first loop), unless
\* a module is imported by an absolute path.
THEOREM ImportsAlwaysFound == Spec => [](program.absolute = {} => ImportsAreFound)
BY AlwaysBInv, BInvImportsAreFound, PTL

\* ld gets the object of every module the program reaches, each once, the entry's, and the
\* allocators exactly when a module asks for them.
THEOREM AlwaysWholeProgram == Spec => []WholeProgram
BY AlwaysBInv, BInvWholeProgram, PTL

-----------------------------------------------------------------------------
(***************************************************************************)
(* The outcome. Each step of a run is a step of PalanRun or leaves its     *)
(* result alone: a run that has a binary keeps it, one that exits without  *)
(* has failed, and ld's is the only step that makes one.                   *)
(***************************************************************************)
ResultOf(bin, s) ==
  IF bin # {} THEN <<"linked", {m \in Modules : <<m, "o">> \in bin}>>
  ELSE IF s = "exited" THEN <<"failed">> ELSE <<"working">>

\* A step leaves a result as it is or ends the work: failed, or linked from the modules reached.
LEMMA StepResult ==
  ASSUME Typed, NEW r \in Runs, Found(r), Given(r), Bound(r), Step(r)
  PROVE  \/ Result(r)' = Result(r)
         \/ Result(r) = <<"working">> /\ Result(r)' \in {<<"failed">>, <<"linked", Reached(SourceOf[r])>>}
<1>1. Result(r) = ResultOf(binary[r], stage[r]) /\ Result(r)' = ResultOf(binary'[r], stage'[r])
  BY DEF Result, ResultOf
<1>2. stage[r] # "exited" /\ (binary[r] # {} => stage[r] = "run")
  BY StepFrame DEF Bound, BoundIn
<1>3. CASE Linked(r)
  <2>1. stage[r] = "ld" /\ binary'[r] = Items(objs[r])
    BY <1>3 DEF Linked, Written, Typed
  <2>2. binary'[r] # {} /\ {m \in Modules : <<m, "o">> \in binary'[r]} = Reached(SourceOf[r])
    BY <2>1, LdModules
  <2>3. binary[r] = {}
    BY <1>2, <2>1
  <2> QED
    BY <1>1, <1>2, <2>2, <2>3 DEF ResultOf
<1>4. CASE ~Linked(r)
  <2>1. binary' = binary
    BY <1>4 DEF Step, SourceMissing, ToolWrites, ToolFails, AstWritten, ParseThrows, ImportsRead, SaWritten, AsmWritten,
       ObjectWritten, EntryRead, EntryStubWritten, EntryWritten, Aggregate, AllocatorsWritten, AllocatorsDone,
       ProgramRun, Exit
  <2> QED
    BY <1>1, <1>2, <2>1 DEF ResultOf
<1> QED
  BY <1>3, <1>4

\* Runs begin as PalanRun says ...
LEMMA InitPalanRun == Init => P!Init
BY DEF Init, P!Init, Result, Reached, ReachedBy

\* ... and each of their steps is one of it or none.
LEMMA StepPalanRun == ASSUME BInv, NEW r \in Runs, Step(r) PROVE [P!Next]_(P!vars)
<1>1. Typed /\ Found(r) /\ Given(r) /\ Bound(r) /\ program' = program
  BY StepFrame DEF BInv
<1>2. \A q \in Runs : Reached(SourceOf[q])' = Reached(SourceOf[q])
  BY <1>1 DEF Reached
<1>3. \A q \in Runs \ {r} : Result(q)' = Result(q)
  BY <1>1, StepFrame DEF Others, Result
<1>4. \/ Result(r)' = Result(r)
      \/ Result(r) = <<"working">> /\ Result(r)' \in {<<"failed">>, <<"linked", Reached(SourceOf[r])>>}
  BY <1>1, StepResult
<1>5. CASE Result(r)' = Result(r)
  BY <1>2, <1>3, <1>5 DEF P!vars
<1>6. CASE Result(r) = <<"working">> /\ Result(r)' = <<"failed">>
  BY <1>2, <1>3, <1>6 DEF P!Next, P!Fail
<1>7. CASE Result(r) = <<"working">> /\ Result(r)' = <<"linked", Reached(SourceOf[r])>>
  BY <1>2, <1>3, <1>7 DEF P!Next, P!Link
<1> QED
  BY <1>4, <1>5, <1>6, <1>7

\* Every run ends, if it does, failed or linked from what its source needs and nothing else,
\* and the result is final: PalanRun's Init and Next, its fairness aside.
THEOREM KeepsPalanRun == Spec => P!Init /\ [][P!Next]_(P!vars)
<1>1. BInv /\ [Next]_vars => [P!Next]_(P!vars)
  <2>1. ASSUME UNCHANGED vars PROVE UNCHANGED P!vars
    BY <2>1 DEF vars, P!vars, Result, Reached
  <2> QED
    BY <2>1, StepPalanRun DEF Next, AllExited
<1> QED
  BY <1>1, InitPalanRun, AlwaysBInv, PTL DEF Spec
-----------------------------------------------------------------------------
(***************************************************************************)
(* A run on its own. The others have no source, so they write nothing; and  *)
(* what the run's tools read is then what the run itself has had written,  *)
(* whatever was on disk before: an output is never among what is read, or  *)
(* will be, and each tool's input was completed before the tool started.   *)
(***************************************************************************)
AllocSet == {"alloc.pa", "alloc.ast", "alloc.sa", "alloc.s", "alloc.o"}
\* What the tool of a stage makes when nobody interferes.
Makes(r, s) == IF s \in AllocSet \cup {"ld"} THEN r ELSE "current"
\* The stages whose tool reads what the one before it wrote.
Chained == {"codegen", "as", "entry.o", "alloc.ast", "alloc.sa", "alloc.s", "alloc.o"}

Own(r) ==
  /\ inHand[r] # Nothing => stage[r] \in ToolStages /\ SourceExists(r) /\ inHand[r] = Makes(r, stage[r])
  /\ \A m \in Items(asts[r]) : disk[<<m, "ast">>] = "current"
  /\ stage[r] \in Chained => \A f \in Reads(r) : disk[f] = Makes(r, stage[r])
  /\ \A f \in Items(objs[r]) : disk[f] \in {"current", r}
  /\ stage[r] = "run" \/ status[r] = 0 => disk[Binary(r)] = r

\* A run without a source.
Stuck(q) ==
  /\ at[q] = 1 /\ binary[q] = {} /\ inHand[q] = Nothing
  /\ stage[q] = "gen-ast" \/ (stage[q] = "exited" /\ status[q] # 0)

AInv ==
  /\ \A q \in Runs : SourceOf[q] \in program.missing => Stuck(q)
  /\ \A r \in Runs : Alone(r) => Own(r)

\* An output is nothing the run has written before and still needs.
LEMMA WritesApart ==
  ASSUME Typed, NEW r \in Runs, Found(r), Given(r), stage[r] \in ToolStages
  PROVE  /\ Writes(r) \notin Items(objs[r])
         /\ \A m \in Items(asts[r]) : Writes(r) # <<m, "ast">>
         /\ stage[r] \in Chained => Writes(r) \notin Reads(r)
<1> DEFINE ts == targets[r]
<1>1. /\ ts \in Seq(Modules) /\ asts[r] \in Seq(Modules) /\ objs[r] \in Seq(WorkFiles) /\ at[r] \in 1..Len(ts) /\ Once(ts)
      /\ \A j \in 1..Len(asts[r]) : j <= Len(ts) /\ asts[r][j] = ts[j]
      /\ stage[r] = "gen-ast" => Len(asts[r]) = at[r] - 1
      /\ stage[r] \in {"sa", "codegen", "as"} => Len(asts[r]) = Len(ts)
  BY DEF Typed, Found, FoundIn
<1>2. Allocators(r) \notin Modules /\ Items(asts[r]) \subseteq Modules
  BY <1>1, BuildAssumption DEF Allocators, Items
<1> HIDE DEF ts
<1>3. ASSUME NEW m \in Items(asts[r]) PROVE Writes(r) # <<m, "ast">>
  <2>1. PICK j \in 1..Len(asts[r]) : m = ts[j] /\ j \in 1..Len(ts)
    BY <1>1, SMTT(30) DEF Items
  <2>2. CASE stage[r] = "gen-ast"
    <3>1. j # at[r] /\ ts[at[r]] # ts[j]
      BY <1>1, <2>1, <2>2 DEF Once
    <3> QED
      BY <2>1, <2>2, <3>1 DEF Writes, ts
  <2>3. CASE stage[r] # "gen-ast"
    BY <1>2, <2>3 DEF Writes, ToolStages, Binary
  <2> QED
    BY <2>2, <2>3
<1>4. stage[r] \in Chained => Writes(r) \notin Reads(r)
  BY DEF Chained, Reads, Writes
<1>5. ASSUME NEW f \in Items(objs[r]) PROVE Writes(r) # f
  <2>1. PICK k \in 1..Len(objs[r]) : f = objs[r][k]
    BY <1>1 DEF Items
  <2>2. CASE stage[r] \in {"gen-ast", "sa", "codegen", "entry.s", "alloc.pa", "alloc.ast", "alloc.sa", "alloc.s", "ld"}
    <3> DEFINE n == Len(ts)
    <3>1. \/ \E i \in {0, at[r] - 1, n} : Objects(ts, objs[r], i)
          \/ Objects(ts, objs[r], n + 1) /\ objs[r][n + 1] = <<SourceOf[r], "entry.o">>
          \/ Objects(ts, objs[r], n + 2) /\ objs[r][n + 1] = <<SourceOf[r], "entry.o">> /\ objs[r][n + 2] = <<Allocators(r), "o">>
      BY <2>2 DEF Given, GivenIn, ts
    <3>2. k \in Nat /\ n \in Nat /\ at[r] - 1 \in 0..n
      BY <1>1, <2>1
    <3> HIDE DEF n
    <3>3. \/ k \in 1..n /\ f = <<ts[k], "o">>
          \/ f = <<SourceOf[r], "entry.o">>
          \/ f = <<Allocators(r), "o">>
      <4>1. CASE \E i \in {0, at[r] - 1, n} : Objects(ts, objs[r], i)
        BY <2>1, <3>2, <4>1 DEF Objects, n
      <4>2. CASE Objects(ts, objs[r], n + 1) /\ objs[r][n + 1] = <<SourceOf[r], "entry.o">>
        BY <2>1, <3>2, <4>2 DEF Objects, n
      <4>3. CASE Objects(ts, objs[r], n + 2) /\ objs[r][n + 1] = <<SourceOf[r], "entry.o">> /\ objs[r][n + 2] = <<Allocators(r), "o">>
        BY <2>1, <3>2, <4>3 DEF Objects, n
      <4> QED
        BY <3>1, <4>1, <4>2, <4>3
    <3> QED
      BY <2>2, <3>3 DEF Writes, Binary
  <2>3. CASE stage[r] = "as"
    <3>1. Objects(ts, objs[r], at[r] - 1)
      BY <2>3 DEF Given, GivenIn, ts
    <3>2. k \in 1..Len(ts) /\ k # at[r] /\ f = <<ts[k], "o">>
      BY <1>1, <2>1, <3>1 DEF Objects
    <3>3. Writes(r) = <<ts[at[r]], "o">>
      BY <1>1, <2>3 DEF Writes, Module
    <3> QED
      BY <1>1, <3>2, <3>3 DEF Once
  <2>4. CASE stage[r] = "entry.o"
    <3>1. Objects(ts, objs[r], Len(ts))
      BY <2>4 DEF Given, GivenIn, ts
    <3>2. f = <<ts[k], "o">>
      BY <1>1, <2>1, <3>1 DEF Objects
    <3> QED
      BY <2>4, <3>2 DEF Writes
  <2>5. CASE stage[r] = "alloc.o"
    <3>1. Objects(ts, objs[r], Len(ts) + 1) /\ objs[r][Len(ts) + 1] = <<SourceOf[r], "entry.o">>
      BY <2>5 DEF Given, GivenIn, ts
    <3>2. (f = <<ts[k], "o">> /\ ts[k] \in Modules) \/ f = <<SourceOf[r], "entry.o">>
      BY <1>1, <2>1, <3>1 DEF Objects
    <3> QED
      BY <2>5, <3>2, <1>2 DEF Writes
  <2> QED
    BY <2>2, <2>3, <2>4, <2>5 DEF ToolStages
<1> QED
  BY <1>3, <1>4, <1>5

\* A tool that reads what the run has had written makes what it should.
LEMMA MadeOwn ==
  ASSUME Typed, NEW r \in Runs, Found(r), Given(r), Own(r), stage[r] \in ToolStages,
         \A f \in Reads(r) : Disk(f) \notin Refused(r)
  PROVE  Made(r) = Makes(r, stage[r])
<1> DEFINE read == {Disk(f) : f \in Reads(r)}
<1>0. r # "current"
  BY BuildAssumption
<1>1. CASE stage[r] \in {"gen-ast", "entry.s", "alloc.pa"}
  BY <1>1 DEF Made, Makes, AllocSet
<1>2. CASE stage[r] = "ld"
  <2>1. Items(objs[r]) \subseteq WorkFiles /\ Reads(r) = Items(objs[r])
    BY <1>2 DEF Typed, Items, Reads
  <2>2. read \subseteq {"current", r}
    BY <2>1 DEF Own, Disk
  <2> QED
    BY <1>2, <2>2 DEF Made, Makes
<1>3. ASSUME NEW c \in Runs \cup {"current"}, read = {c}, stage[r] \notin {"gen-ast", "entry.s", "alloc.pa", "ld"}
      PROVE  Made(r) = c
  BY <1>3 DEF Made
<1>4. CASE stage[r] = "sa"
  <2>0. Items(asts[r]) = Reached(SourceOf[r])
    BY <1>4, AllFound DEF Typed
  <2>1. asts[r] \in Seq(Modules) /\ Items(asts[r]) \subseteq Modules
    BY DEF Typed, Items
  <2>2. Module(r) \in Items(asts[r])
    BY <1>4 DEF Typed, Found, FoundIn, Module, Items
  <2>3. program.imports \in [Modules -> Seq(Modules)] /\ SourceOf[r] \in Modules
    BY BuildAssumption DEF Typed
  <2>4. Reached(SourceOf[r]) \in SUBSET Modules /\ Imported(program.imports, Reached(SourceOf[r]))
    BY <2>3, ReachedImports DEF Reached, ReachedBy, Imported
  <2>5. Reached(Module(r)) \subseteq Reached(SourceOf[r])
    BY <2>0, <2>2, <2>4, ReachedLeast DEF Reached
  <2>6. ASSUME NEW m \in Items(asts[r]) PROVE Disk(<<m, "ast">>) = "current"
    BY <2>1 DEF Own, Disk, WorkFiles, Units, Exts
  <2>7. ASSUME NEW k PROVE Disk(<<k, "ast beside the source">>) = "absent"
    BY DEF Disk, WorkFiles, Exts, Binary
  <2>8. Reads(r) = SaReads(Module(r)) /\ "absent" \in Refused(r)
    BY <1>4 DEF Reads, Refused, Unreadable
  <2>9. ASSUME NEW f \in Reads(r) PROVE Disk(f) = "current"
    <3>1. CASE f = <<Module(r), "ast">>
      BY <2>2, <2>6, <3>1
    <3>2. CASE f # <<Module(r), "ast">>
      <4>1. PICK i \in Reached(Module(r)) : \E k \in Items(program.imports[i]) : f = ImportAst(k)
        BY <2>8, <3>2 DEF SaReads
      <4>2. PICK k \in Items(program.imports[i]) : f = ImportAst(k)
        BY <4>1
      <4>3. k \in Items(asts[r])
        BY <2>0, <2>4, <2>5 DEF Imported
      <4>4. f = <<k, "ast">> \/ f = <<k, "ast beside the source">>
        BY <4>2 DEF ImportAst
      <4> QED
        BY <2>6, <2>7, <2>8, <4>3, <4>4
    <3> QED
      BY <3>1, <3>2
  <2>10. <<Module(r), "ast">> \in Reads(r)
    BY <2>8 DEF SaReads
  <2>11. read = {"current"}
    BY <2>9, <2>10
  <2> HIDE DEF read
  <2> QED
    BY <1>3, <1>4, <2>11 DEF Makes, AllocSet
<1>5. CASE stage[r] \in Chained
  <2>1. PICK f : Reads(r) = {f} /\ f \in WorkFiles
    <3>1. stage[r] \in {"codegen", "as"} => Module(r) \in Modules
      BY DEF Typed, Found, FoundIn, Module
    <3>2. SourceOf[r] \in Modules
      BY BuildAssumption
    <3>3. \A u \in Units, e \in Exts : <<u, e>> \in WorkFiles
      BY DEF WorkFiles
    <3>4. SourceOf[r] \in Units /\ Allocators(r) \in Units /\ (stage[r] \in {"codegen", "as"} => Module(r) \in Units)
      BY <3>1, <3>2 DEF Units, Allocators
    <3>5. \/ stage[r] = "codegen" /\ Reads(r) = {<<Module(r), "sa">>}
          \/ stage[r] = "as" /\ Reads(r) = {<<Module(r), "s">>}
          \/ Reads(r) = {<<SourceOf[r], "entry.s">>}
          \/ \E e \in {"pa", "ast", "sa", "s"} : Reads(r) = {<<Allocators(r), e>>}
      BY <1>5 DEF Reads, Chained
    <3> QED
      BY <3>3, <3>4, <3>5 DEF Exts
  <2>2. Disk(f) = Makes(r, stage[r])
    BY <1>5, <2>1 DEF Own, Disk
  <2>3. read = {Makes(r, stage[r])}
    BY <2>1, <2>2
  <2>4. Makes(r, stage[r]) \in Runs \cup {"current"}
    BY DEF Makes
  <2> HIDE DEF read
  <2> QED
    BY <1>3, <1>5, <2>3, <2>4 DEF Chained
<1> QED
  BY <1>1, <1>2, <1>4, <1>5 DEF ToolStages, Chained

\* What the tool has made is in its output, and no other file has changed.
LEMMA OwnWritten ==
  ASSUME Typed, NEW r \in Runs, Found(r), Own(r), NEW s \in ToolStages, Written(r, s)
  PROVE  /\ stage[r] = s /\ inHand'[r] = Nothing /\ Writes(r) \in WorkFiles
         /\ disk'[Writes(r)] = Makes(r, s)
         /\ \A f \in WorkFiles : f # Writes(r) => disk'[f] = disk[f]
<1>1. stage[r] = s /\ inHand[r] = Makes(r, s) /\ disk' = [disk EXCEPT ![Writes(r)] = inHand[r]]
      /\ inHand' = [inHand EXCEPT ![r] = Nothing]
  BY DEF Written, Own
<1>2. Writes(r) \in WorkFiles
  BY <1>1, WritesWorkFile
<1> QED
  BY <1>1, <1>2 DEF Typed

\* The files that Own is about are work files.
LEMMA OwnFiles ==
  ASSUME Typed, NEW r \in Runs
  PROVE  /\ Items(objs[r]) \subseteq WorkFiles /\ Binary(r) \in WorkFiles
         /\ \A m \in Items(asts[r]) : <<m, "ast">> \in WorkFiles
<1>1. Items(objs[r]) \subseteq WorkFiles /\ Items(asts[r]) \subseteq Modules
  BY DEF Typed, Items
<1> QED
  BY <1>1 DEF WorkFiles, Units, Exts

\* An element is appended.
LEMMA ItemsAppend ==
  ASSUME NEW S, NEW s \in Seq(S), NEW e \in S
  PROVE  Items(Append(s, e)) = Items(s) \cup {e}
<1>1. Append(s, e) \in Seq(S) /\ Len(Append(s, e)) = Len(s) + 1 /\ Append(s, e)[Len(s) + 1] = e
      /\ \A j \in 1..Len(s) : Append(s, e)[j] = s[j]
  OBVIOUS
<1> QED
  BY <1>1 DEF Items

\* A step that writes nothing, and does not move to a tool that reads what one wrote before.
LEMMA QuietOwn ==
  ASSUME Typed, NEW r \in Runs, Own(r), disk' = disk, asts'[r] = asts[r], objs'[r] = objs[r],
         inHand'[r] = Nothing, stage'[r] \notin Chained,
         stage'[r] = "run" \/ status'[r] = 0 => stage[r] = "run"
  PROVE  Own(r)'
BY DEF Own, Binary

\* The output of a tool is complete: what is in it is what the next tool is to read, or an object.
LEMMA WrittenOwn ==
  ASSUME Typed, NEW r \in Runs, Found(r), Given(r), Own(r), NEW s \in ToolStages, Written(r, s),
         s # "ld", status'[r] # 0, stage'[r] # "run",
         asts'[r] = asts[r] \/ (s = "gen-ast" /\ asts'[r] = Append(asts[r], targets[r][at[r]])),
         objs'[r] = objs[r] \/ objs'[r] = Append(objs[r], Writes(r)),
         stage'[r] \in Chained => Reads(r)' = {Writes(r)} /\ Makes(r, stage'[r]) = Makes(r, s)
  PROVE  Own(r)'
<1>1. /\ stage[r] = s /\ inHand'[r] = Nothing /\ Writes(r) \in WorkFiles
      /\ disk'[Writes(r)] = Makes(r, s)
      /\ \A f \in WorkFiles : f # Writes(r) => disk'[f] = disk[f]
  BY OwnWritten
<1>2. /\ Writes(r) \notin Items(objs[r])
      /\ \A m \in Items(asts[r]) : Writes(r) # <<m, "ast">>
  BY <1>1, WritesApart
<1>3. Items(objs[r]) \subseteq WorkFiles /\ \A m \in Items(asts[r]) : <<m, "ast">> \in WorkFiles
  BY OwnFiles
<1>4. ASSUME NEW m \in Items(asts'[r]) PROVE disk'[<<m, "ast">>] = "current"
  <2>1. CASE m \in Items(asts[r])
    BY <1>1, <1>2, <1>3, <2>1 DEF Own
  <2>2. CASE m \notin Items(asts[r])
    <3>1. asts[r] \in Seq(Modules) /\ targets[r][at[r]] \in Modules
      BY DEF Typed, Found, FoundIn
    <3>2. s = "gen-ast" /\ m = targets[r][at[r]]
      <4>1. Items(Append(asts[r], targets[r][at[r]])) = Items(asts[r]) \cup {targets[r][at[r]]}
        BY <3>1, ItemsAppend
      <4> QED
        BY <1>4, <2>2, <4>1
    <3> QED
      BY <1>1, <3>2 DEF Writes, Makes, AllocSet
  <2> QED
    BY <2>1, <2>2
<1>5. ASSUME NEW f \in Items(objs'[r]) PROVE disk'[f] \in {"current", r}
  <2>1. f \in Items(objs[r]) \/ f = Writes(r)
    <3>1. objs[r] \in Seq(WorkFiles)
      BY DEF Typed
    <3> QED
      <4>1. Items(Append(objs[r], Writes(r))) = Items(objs[r]) \cup {Writes(r)}
        BY <1>1, <3>1, ItemsAppend
      <4> QED
        BY <1>5, <4>1
  <2>2. CASE f \in Items(objs[r])
    BY <1>1, <1>2, <1>3, <2>2 DEF Own
  <2>3. CASE f = Writes(r)
    BY <1>1, <2>3 DEF Makes
  <2> QED
    BY <2>1, <2>2, <2>3
<1>6. stage'[r] \in Chained => \A f \in Reads(r)' : disk'[f] = Makes(r, stage'[r])
  BY <1>1
<1> QED
  BY <1>1, <1>4, <1>5, <1>6 DEF Own, Makes

\* A run that is alone goes on with files of its own or of today.
LEMMA StepOwn ==
  ASSUME Typed, Typed', NEW r \in Runs, Found(r), Given(r), Own(r), Step(r)
  PROVE  Own(r)'
<1>0. /\ stage[r] \notin ToolStages => inHand[r] = Nothing
      /\ stage[r] \in ToolStages \cup {"imports", "entry", "aggregate", "run"} => status[r] = -1
      /\ program' = program
  BY StepFrame, BuildAssumption DEF Typed, Own, ToolStages
<1>1. CASE SourceMissing(r) \/ ToolFails(r) \/ ParseThrows(r) \/ ProgramRun(r)
  <2>1. inHand'[r] = Nothing
    <3>1. CASE SourceMissing(r)
      BY <3>1 DEF SourceMissing, Own
    <3>2. CASE ToolFails(r)
      BY <3>2 DEF ToolFails, Typed
    <3>3. CASE ParseThrows(r) \/ ProgramRun(r)
      BY <1>0, <3>3 DEF ParseThrows, ProgramRun, ToolStages
    <3> QED
      BY <1>1, <3>1, <3>2, <3>3
  <2>2. \E code : Exit(r, code) /\ (code = 0 => stage[r] = "run")
    BY <1>1 DEF SourceMissing, ToolFails, ParseThrows, ProgramRun, Aborted
  <2>3. stage'[r] = "exited" /\ (status'[r] = 0 => stage[r] = "run") /\ UNCHANGED <<asts, objs>>
    BY <2>2 DEF Exit, Typed
  <2>4. disk' = disk
    BY <1>1 DEF SourceMissing, ToolFails, ParseThrows, ProgramRun
  <2> QED
    BY <2>1, <2>3, <2>4, QuietOwn DEF Chained
<1>2. CASE ImportsRead(r) \/ EntryRead(r) \/ Aggregate(r)
  <2>1. UNCHANGED <<disk, asts, objs, inHand, status>> /\ inHand[r] = Nothing /\ status[r] = -1
    BY <1>0, <1>2 DEF ImportsRead, EntryRead, Aggregate, Go, ToolStages
  <2>2. stage'[r] \in {"gen-ast", "sa", "entry.s", "alloc.pa", "ld"}
    BY <1>2 DEF ImportsRead, EntryRead, Aggregate, Go, Typed
  <2> QED
    BY <2>1, <2>2, QuietOwn DEF Chained
<1>3. CASE ToolWrites(r)
  <2>1. /\ stage[r] \in ToolStages /\ SourceExists(r) /\ \A f \in Reads(r) : Disk(f) \notin Refused(r)
        /\ disk' = [disk EXCEPT ![Writes(r)] = "torn"] /\ inHand'[r] = Made(r)
        /\ UNCHANGED <<program, stage, at, targets, asts, objs, binary, status>>
    BY <1>3 DEF ToolWrites, Typed
  <2>2. Made(r) = Makes(r, stage[r])
    BY <2>1, MadeOwn
  <2>3. \A f \in WorkFiles : f # Writes(r) => disk'[f] = disk[f]
    BY <2>1 DEF Typed
  <2>4. /\ Writes(r) \notin Items(objs[r])
        /\ \A m \in Items(asts[r]) : Writes(r) # <<m, "ast">>
        /\ stage[r] \in Chained => Writes(r) \notin Reads(r)
    BY <2>1, WritesApart
  <2>5. /\ Items(objs[r]) \subseteq WorkFiles
        /\ \A m \in Items(asts[r]) : <<m, "ast">> \in WorkFiles
    BY OwnFiles
  <2>6. stage[r] \in Chained => Reads(r)' = Reads(r) /\ \A f \in Reads(r) : disk'[f] = disk[f]
    <3>1. stage[r] \in Chained => Reads(r)' = Reads(r)
      BY <2>1 DEF Reads, Chained, Module
    <3>2. stage[r] \in Chained => \A f \in Reads(r) : f # Writes(r) => disk'[f] = disk[f]
      BY <2>1
    <3> QED
      BY <2>4, <3>1, <3>2
  <2>7. SourceExists(r)'
    BY <2>1 DEF SourceExists
  <2>8. status'[r] # 0 /\ stage'[r] # "run" /\ status[r] = -1
    BY <1>0, <2>1 DEF ToolStages
  <2>9. /\ \A m \in Items(asts[r]) : disk'[<<m, "ast">>] = "current"
        /\ \A f \in Items(objs[r]) : disk'[f] \in {"current", r}
    BY <2>3, <2>4, <2>5 DEF Own
  <2>10. stage[r] \in Chained => \A f \in Reads(r)' : disk'[f] = Makes(r, stage[r])
    BY <2>6 DEF Own
  <2> QED
    BY <2>1, <2>2, <2>7, <2>8, <2>9, <2>10 DEF Own, Makes
<1>4. CASE AstWritten(r)
  <2>1. Written(r, "gen-ast") /\ stage'[r] = "imports" /\ asts'[r] = Append(asts[r], targets[r][at[r]])
        /\ UNCHANGED <<objs, status>>
    BY <1>4 DEF AstWritten, Go, Typed
  <2>2. status[r] = -1
    BY <1>0, <2>1 DEF Written, ToolStages
  <2> QED
    BY <2>1, <2>2, WrittenOwn DEF ToolStages, Chained
<1>5. CASE SaWritten(r) \/ AsmWritten(r) \/ EntryStubWritten(r) \/ AllocatorsWritten(r)
  <2>1. PICK s \in {"sa", "codegen", "entry.s", "alloc.pa", "alloc.ast", "alloc.sa", "alloc.s"} :
          /\ Written(r, s) /\ UNCHANGED <<at, asts, objs, status>>
          /\ <<s, stage'[r]>> \in {<<"sa", "codegen">>, <<"codegen", "as">>, <<"entry.s", "entry.o">>,
                                  <<"alloc.pa", "alloc.ast">>, <<"alloc.ast", "alloc.sa">>,
                                  <<"alloc.sa", "alloc.s">>, <<"alloc.s", "alloc.o">>}
    BY <1>5 DEF SaWritten, AsmWritten, EntryStubWritten, AllocatorsWritten, AllocStages, Go, Typed
  <2>2. stage[r] = s /\ status'[r] = -1
    BY <1>0, <2>1 DEF Written, ToolStages
  <2>3. Reads(r)' = {Writes(r)} /\ Makes(r, stage'[r]) = Makes(r, s)
    BY <2>1, <2>2 DEF Reads, Writes, Module, Makes, AllocSet
  <2> QED
    BY <2>1, <2>2, <2>3, WrittenOwn DEF ToolStages
<1>6. CASE ObjectWritten(r) \/ EntryWritten(r) \/ AllocatorsDone(r)
  <2>1. PICK s \in {"as", "entry.o", "alloc.o"} :
          /\ Written(r, s) /\ UNCHANGED <<asts, status>> /\ objs'[r] = Append(objs[r], Writes(r))
          /\ stage'[r] \in {"sa", "entry", "aggregate", "ld"}
    BY <1>6 DEF ObjectWritten, EntryWritten, AllocatorsDone, Go, Typed
  <2>2. status'[r] = -1
    BY <1>0, <2>1 DEF Written, ToolStages
  <2> QED
    BY <2>1, <2>2, WrittenOwn DEF ToolStages, Chained
<1>7. CASE Linked(r)
  <2>1. Written(r, "ld") /\ UNCHANGED <<asts, objs>> /\ stage'[r] \in {"exited", "run"}
    BY <1>7 DEF Linked, Typed
  <2>2. /\ stage[r] = "ld" /\ inHand'[r] = Nothing /\ disk'[Writes(r)] = Makes(r, "ld")
        /\ \A f \in WorkFiles : f # Writes(r) => disk'[f] = disk[f]
    BY <2>1, OwnWritten DEF ToolStages
  <2>3. Writes(r) = Binary(r) /\ Makes(r, "ld") = r /\ Binary(r)' = Binary(r)
    BY <2>2 DEF Writes, Makes, Binary
  <2>4. /\ Writes(r) \notin Items(objs[r])
        /\ \A m \in Items(asts[r]) : Writes(r) # <<m, "ast">>
    BY <2>2, WritesApart DEF ToolStages
  <2>5. Items(objs[r]) \subseteq WorkFiles /\ \A m \in Items(asts[r]) : <<m, "ast">> \in WorkFiles
    BY OwnFiles
  <2>6. /\ \A m \in Items(asts[r]) : disk'[<<m, "ast">>] = "current"
        /\ \A f \in Items(objs[r]) : disk'[f] \in {"current", r}
    BY <2>2, <2>4, <2>5 DEF Own
  <2> QED
    BY <2>1, <2>2, <2>3, <2>6 DEF Own, Chained
<1> QED
  BY <1>1, <1>2, <1>3, <1>4, <1>5, <1>6, <1>7 DEF Step

\* A run without a source can only end.
LEMMA StuckStep ==
  ASSUME Typed, NEW q \in Runs, Found(q), Stuck(q), SourceOf[q] \in program.missing, Step(q)
  PROVE  disk' = disk /\ Stuck(q)'
<1>1. stage[q] = "gen-ast" /\ inHand[q] = Nothing
  BY StepFrame DEF Stuck
<1>2. ~SourceExists(q)
  BY <1>1 DEF SourceExists, Stuck, Found, FoundIn
<1>3. SourceMissing(q)
  <2>1. \A s : ~Written(q, s)
    BY <1>1 DEF Written
  <2>2. ~ToolWrites(q) /\ ~ToolFails(q) /\ ~ParseThrows(q) /\ ~ImportsRead(q) /\ ~EntryRead(q)
        /\ ~Aggregate(q) /\ ~ProgramRun(q)
    BY <1>1, <1>2 DEF ToolWrites, ToolFails, ParseThrows, ImportsRead, EntryRead, Aggregate, ProgramRun
  <2>3. ~AstWritten(q) /\ ~SaWritten(q) /\ ~AsmWritten(q) /\ ~ObjectWritten(q) /\ ~EntryStubWritten(q)
        /\ ~EntryWritten(q) /\ ~AllocatorsWritten(q) /\ ~AllocatorsDone(q) /\ ~Linked(q)
    BY <2>1 DEF AstWritten, SaWritten, AsmWritten, ObjectWritten, EntryStubWritten, EntryWritten,
                AllocatorsWritten, AllocatorsDone, Linked
  <2> QED
    BY <2>2, <2>3 DEF Step
<1> QED
  BY <1>3 DEF SourceMissing, Exit, Stuck, Typed

\* Nothing has been made when the runs begin.
LEMMA InitAInv == Init => AInv
<1> SUFFICES ASSUME Init PROVE AInv
  OBVIOUS
<1>1. ASSUME NEW q \in Runs PROVE Stuck(q)
  BY DEF Init, Stuck
<1>2. ASSUME NEW r \in Runs PROVE Own(r)
  <2>1. inHand[r] = Nothing /\ asts[r] = << >> /\ objs[r] = << >> /\ stage[r] = "gen-ast" /\ status[r] = -1
    BY DEF Init
  <2>2. Items(asts[r]) = {} /\ Items(objs[r]) = {}
    BY <2>1 DEF Items
  <2> QED
    BY <2>1, <2>2 DEF Own, Chained
<1> QED
  BY <1>1, <1>2 DEF AInv

\* A step keeps that a run which is alone has only what it made ...
LEMMA StepAInv == ASSUME BInv, AInv, NEW q \in Runs, Step(q) PROVE AInv'
<1>1. Typed /\ Typed' /\ program' = program /\ \A r \in Runs \ {q} : Others(q, r)
  BY StepFrame, StepBInv DEF BInv
<1>2. \A r \in Runs : Found(r) /\ Given(r)
  BY DEF BInv
<1>3. ASSUME NEW p \in Runs, SourceOf[p] \in program.missing PROVE Stuck(p)'
  <2>1. Stuck(p)
    BY <1>3 DEF AInv
  <2>2. CASE p = q
    BY <1>1, <1>2, <1>3, <2>1, <2>2, StuckStep
  <2>3. CASE p # q
    BY <1>1, <2>1, <2>3 DEF Stuck, Others
  <2> QED
    BY <2>2, <2>3
<1>4. ASSUME NEW r \in Runs, Alone(r) PROVE Own(r)'
  <2>1. Own(r)
    BY <1>4 DEF AInv
  <2>2. CASE r = q
    BY <1>1, <1>2, <2>1, <2>2, StepOwn
  <2>3. CASE r # q
    <3>1. disk' = disk
      BY <1>1, <1>2, <1>4, <2>3, StuckStep DEF Alone, AInv
    <3>2. Others(q, r)
      BY <1>1, <2>3
    <3>3. stage[r] \in Chained => Reads(r)' = Reads(r)
      BY <3>2 DEF Others, Reads, Chained, Module
    <3>4. SourceExists(r)' = SourceExists(r)
      BY <1>1, <3>2 DEF Others, SourceExists
    <3> QED
      BY <2>1, <3>1, <3>2, <3>3, <3>4 DEF Own, Others, Binary, Makes
  <2> QED
    BY <2>2, <2>3
<1>5. \A r \in Runs : Alone(r)' = Alone(r)
  BY <1>1 DEF Alone
<1> QED
  BY <1>1, <1>3, <1>4, <1>5 DEF AInv

\* ... as a stutter does.
LEMMA StaysAInv == ASSUME AInv, UNCHANGED vars PROVE AInv'
<1>1. \A q \in Runs : Stuck(q)' = Stuck(q) /\ Alone(q)' = Alone(q)
  BY DEF vars, Stuck, Alone
<1>2. ASSUME NEW r \in Runs, Own(r) PROVE Own(r)'
  <2>1. stage[r] \in Chained => Reads(r)' = Reads(r)
    BY DEF vars, Reads, Chained, Module
  <2> QED
    BY <1>2, <2>1 DEF vars, Own, SourceExists, Binary, Makes
<1> QED
  BY <1>1, <1>2 DEF AInv, vars

\* Such a run links what it made, and runs what it linked.
LEMMA AInvOwn == BInv /\ AInv => AloneBuildsItsOwn
<1> SUFFICES ASSUME BInv, AInv, NEW r \in Runs, Alone(r) PROVE LinksOwn(r) /\ RunsOwn(r)
  BY DEF AloneBuildsItsOwn
<1>1. Own(r) /\ Bound(r) /\ Binary(r) \in WorkFiles
  BY OwnFiles DEF AInv, BInv
<1> QED
  BY <1>1 DEF Own, Makes, LinksOwn, RunsOwn, Bound, BoundIn, Disk

\* Whatever an earlier build has left, a run that no other is beside links only what it has
\* made itself from today's sources, and runs, or reports as built, the binary it has linked.
THEOREM AloneBuilds == Spec => []AloneBuildsItsOwn
<1>1. BInv /\ AInv /\ [Next]_vars => AInv'
  BY StepAInv, StaysAInv DEF Next, AllExited
<1> QED
  BY <1>1, InitAInv, AlwaysBInv, AInvOwn, PTL DEF Spec
=============================================================================
