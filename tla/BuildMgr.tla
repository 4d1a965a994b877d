------------------------------ MODULE BuildMgr ------------------------------
(***************************************************************************)
(* palan, the build manager (src/build-mgr/main.cpp): runs of palan that   *)
(* share the working directory, each discovering the modules its source    *)
(* imports, compiling them one tool at a time, generating the allocators   *)
(* the modules ask for as one more module, and linking.                    *)
(*                                                                         *)
(* The tools are separate processes that exchange files.  A tool reads its *)
(* inputs, then opens and writes its output; it may fail before or after   *)
(* opening it.  What a file holds is reduced to whether it is complete and *)
(* whose sources it was made from.                                         *)
(***************************************************************************)
EXTENDS Integers, Sequences, FiniteSets

CONSTANTS Modules,     \* Palan source files
          Runs,        \* concurrent runs of palan
          SourceOf,    \* run -> the source file it is given
          ToFile,      \* runs with -o: the binary is written there, not run
          DirOf,       \* module -> its directory
          Programs     \* what the source files may say: see program

\* A work file's content when a run starts: an earlier build's, half of it, or none.
Left == {"absent", "torn", "old"}

ASSUME BuildAssumption ==
  /\ SourceOf \in [Runs -> Modules]
  /\ \A m \in Modules : DirOf[m] \notin Modules
  /\ Runs \cap (Left \cup {"current", "wrong", "nothing"}) = {}
  /\ \A p \in Programs : p.imports \in [Modules -> Seq(Modules)] /\ p.left \in Left

VARIABLES program,     \* [imports : module -> sequence of modules,
                       \*  absolute : modules imported by an absolute path,
                       \*  missing : modules without a file,
                       \*  shapes : modules that need allocators,
                       \*  left : what an earlier build has left in work files]
          disk,        \* work file -> content
          stage,       \* run -> the tool it runs, or what it does in between
          at,          \* run -> the loops' index into targets or asts
          targets,     \* run -> target_files
          asts,        \* run -> modules in ast_files
          objs,        \* run -> obj_files
          inHand,      \* run -> what its tool read; Nothing when none is writing
          binary,      \* run -> objects in the binary it has linked
          status       \* run -> exit status, -1 while running

vars == <<program, disk, stage, at, targets, asts, objs, inHand, binary, status>>

-----------------------------------------------------------------------------

Nothing == "nothing"

\* json::parse and ld refuse a file that is only half written.
Unreadable == {"absent", "torn"}

\* Work files mirror the sources' paths; the allocators module lies in the
\* directory of the run's source.
Allocators(r) == DirOf[SourceOf[r]]

Units == Modules \cup {DirOf[m] : m \in Modules}
Exts == {"pa", "ast", "sa", "s", "o", "entry.s", "entry.o", "out"}
Binary(r) == IF r \in ToFile THEN <<r, "out">> ELSE <<SourceOf[r], "out">>
WorkFiles == (Units \X Exts) \cup {Binary(r) : r \in Runs}
Disk(f) == IF f \in WorkFiles THEN disk[f] ELSE "absent"

Items(s) == {s[k] : k \in DOMAIN s}

\* The modules reached from m by imports: those in every set that has m and what its members import.
Imported(imports, ms) == \A k \in ms : Items(imports[k]) \subseteq ms
ReachedBy(imports, m) ==
  LET closed == {ms \in SUBSET Modules : m \in ms /\ Imported(imports, ms)}
  IN  {n \in Modules : \A ms \in closed : n \in ms}
Reached(m) == ReachedBy(program.imports, m)

\* loadImportAst: relative to the importing module's work directory, while an
\* absolute path is taken as written, outside the working directory.
ImportAst(m) == IF m \in program.absolute THEN <<m, "ast beside the source">> ELSE <<m, "ast">>

\* palan-sa reads the asts of its module and of all that it imports, in turn.
SaReads(m) == {<<m, "ast">>} \cup
              {ImportAst(k) : k \in UNION {Items(program.imports[i]) : i \in Reached(m)}}

Module(r) == asts[r][at[r]]

\* What the run's current tool reads and writes.
Reads(r) ==
  CASE stage[r] \in {"gen-ast", "alloc.pa", "entry.s"} -> {}
    [] stage[r] = "sa"        -> SaReads(Module(r))
    [] stage[r] = "codegen"   -> {<<Module(r), "sa">>}
    [] stage[r] = "as"        -> {<<Module(r), "s">>}
    [] stage[r] = "entry.o"   -> {<<SourceOf[r], "entry.s">>}
    [] stage[r] = "alloc.ast" -> {<<Allocators(r), "pa">>}
    [] stage[r] = "alloc.sa"  -> {<<Allocators(r), "ast">>}
    [] stage[r] = "alloc.s"   -> {<<Allocators(r), "sa">>}
    [] stage[r] = "alloc.o"   -> {<<Allocators(r), "s">>}
    [] stage[r] = "ld"        -> Items(objs[r])

Writes(r) ==
  CASE stage[r] = "gen-ast"   -> <<targets[r][at[r]], "ast">>
    [] stage[r] = "sa"        -> <<Module(r), "sa">>
    [] stage[r] = "codegen"   -> <<Module(r), "s">>
    [] stage[r] = "as"        -> <<Module(r), "o">>
    [] stage[r] = "entry.s"   -> <<SourceOf[r], "entry.s">>
    [] stage[r] = "entry.o"   -> <<SourceOf[r], "entry.o">>
    [] stage[r] = "alloc.pa"  -> <<Allocators(r), "pa">>
    [] stage[r] = "alloc.ast" -> <<Allocators(r), "ast">>
    [] stage[r] = "alloc.sa"  -> <<Allocators(r), "sa">>
    [] stage[r] = "alloc.s"   -> <<Allocators(r), "s">>
    [] stage[r] = "alloc.o"   -> <<Allocators(r), "o">>
    [] stage[r] = "ld"        -> Binary(r)

\* Text that stops in the middle may still be accepted, by the assembler and by
\* the Palan parser.
Refused(r) == IF stage[r] \in {"as", "entry.o", "alloc.ast", "alloc.o"} THEN {"absent"}
              ELSE Unreadable

ToolStages == {"gen-ast", "sa", "codegen", "as", "entry.s", "entry.o", "alloc.pa",
               "alloc.ast", "alloc.sa", "alloc.s", "alloc.o", "ld"}

\* A module's files say what its source says, whichever run writes them; the
\* allocators are those of one run.  What is made from anything else is wrong.
Made(r) ==
  LET read == {Disk(f) : f \in Reads(r)}
  IN  CASE stage[r] \in {"gen-ast", "entry.s"} -> "current"
        [] stage[r] = "alloc.pa" -> r
        [] stage[r] = "ld"       -> IF read \subseteq {"current", r} THEN r ELSE "wrong"
        [] OTHER                 -> IF \E c \in Runs \cup {"current"} : read = {c}
                                    THEN CHOOSE c \in read : TRUE ELSE "wrong"

-----------------------------------------------------------------------------

Init ==
  /\ program \in Programs
  /\ disk = [f \in WorkFiles |-> program.left]
  /\ stage = [r \in Runs |-> "gen-ast"]
  /\ at = [r \in Runs |-> 1]
  /\ targets = [r \in Runs |-> <<SourceOf[r]>>]
  /\ asts = [r \in Runs |-> << >>]
  /\ objs = [r \in Runs |-> << >>]
  /\ inHand = [r \in Runs |-> Nothing]
  /\ binary = [r \in Runs |-> {}]
  /\ status = [r \in Runs |-> -1]

Exit(r, code) ==
  /\ stage' = [stage EXCEPT ![r] = "exited"]
  /\ status' = [status EXCEPT ![r] = code]
  /\ UNCHANGED <<program, at, targets, asts, objs, binary>>

Go(r, next) == stage' = [stage EXCEPT ![r] = next] /\ UNCHANGED <<program, status>>

SourceExists(r) == stage[r] = "gen-ast" => targets[r][at[r]] \notin program.missing

SourceMissing(r) ==
  /\ stage[r] = "gen-ast"
  /\ ~SourceExists(r)
  /\ Exit(r, 1)
  /\ UNCHANGED <<disk, inHand>>

\* The tool has read its inputs and opens its output.
ToolWrites(r) ==
  /\ stage[r] \in ToolStages /\ SourceExists(r) /\ inHand[r] = Nothing
  /\ \A f \in Reads(r) : Disk(f) \notin Refused(r)
  /\ inHand' = [inHand EXCEPT ![r] = Made(r)]
  /\ disk' = [disk EXCEPT ![Writes(r)] = "torn"]
  /\ UNCHANGED <<program, stage, at, targets, asts, objs, binary, status>>

\* Mutation: the exit status of `as` is not looked at.
ToolFailsUnnoticed(r) ==
  /\ stage[r] \in ToolStages /\ SourceExists(r)
  /\ IF stage[r] # "as" THEN Exit(r, 1)
     ELSE /\ objs' = [objs EXCEPT ![r] = Append(@, Writes(r))]
          /\ at' = [at EXCEPT ![r] = IF @ < Len(asts[r]) THEN @ + 1 ELSE @]
          /\ Go(r, IF at[r] < Len(asts[r]) THEN "sa" ELSE "entry")
          /\ UNCHANGED <<targets, asts, binary>>
  /\ inHand' = [inHand EXCEPT ![r] = Nothing]
  /\ UNCHANGED disk

\* runTool's outcomes other than success: an exit status, a signal (-1, which
\* the shell sees as 255), or a tool that cannot be started (127).
ToolFails(r) ==
  /\ stage[r] \in ToolStages /\ SourceExists(r)
  /\ \E code \in {1, 127, 255} : /\ inHand[r] # Nothing => code # 127
                                 /\ Exit(r, code)
  /\ inHand' = [inHand EXCEPT ![r] = Nothing]
  /\ UNCHANGED disk

\* The output is complete.
Written(r, s) ==
  /\ stage[r] = s /\ inHand[r] # Nothing
  /\ disk' = [disk EXCEPT ![Writes(r)] = inHand[r]]
  /\ inHand' = [inHand EXCEPT ![r] = Nothing]

AstWritten(r) ==
  /\ Written(r, "gen-ast")
  /\ asts' = [asts EXCEPT ![r] = Append(@, targets[r][at[r]])]
  /\ Go(r, "imports")
  /\ UNCHANGED <<at, targets, objs, binary>>

\* json::parse of a file that is being rewritten throws, and nobody catches.
Aborted == 134

ParseThrows(r) ==
  /\ \/ stage[r] = "imports" /\ Disk(<<targets[r][at[r]], "ast">>) \in Unreadable
     \/ stage[r] = "aggregate" /\ \E m \in Items(asts[r]) : Disk(<<m, "sa">>) \in Unreadable
     \/ stage[r] = "entry" /\ Disk(<<SourceOf[r], "sa">>) \in Unreadable
  /\ Exit(r, Aborted)
  /\ UNCHANGED <<disk, inHand>>

\* The imports that are not targets yet are added in order.
Added(old, new) ==
  LET add[n \in 0..Len(new)] ==
        IF n = 0 THEN old
        ELSE IF new[n] \in Items(add[n - 1]) THEN add[n - 1] ELSE Append(add[n - 1], new[n])
  IN  add[Len(new)]

\* Mutation: a module is analyzed as soon as it is parsed.
ImportsReadEarly(r) ==
  /\ stage[r] = "imports"
  /\ targets' = [targets EXCEPT ![r] = Added(@, program.imports[targets[r][at[r]]])]
  /\ Go(r, "sa")
  /\ UNCHANGED <<disk, at, asts, objs, inHand, binary>>

\* Mutation: the loop's bound is read before the imports are added.
ImportsReadOldBound(r) ==
  /\ stage[r] = "imports"
  /\ targets' = [targets EXCEPT ![r] = Added(@, program.imports[targets[r][at[r]]])]
  /\ at' = [at EXCEPT ![r] = IF at[r] < Len(targets[r]) THEN @ + 1 ELSE 1]
  /\ Go(r, IF at[r] < Len(targets[r]) THEN "gen-ast" ELSE "sa")
  /\ UNCHANGED <<disk, asts, objs, inHand, binary>>

\* main reads back the ast and extends the list it is looping over.
ImportsRead(r) ==
  /\ stage[r] = "imports"
  /\ Disk(<<targets[r][at[r]], "ast">>) \notin Unreadable
  /\ LET all == Added(targets[r], program.imports[targets[r][at[r]]])
         more == at[r] < Len(all)
     IN  /\ targets' = [targets EXCEPT ![r] = all]
         /\ at' = [at EXCEPT ![r] = IF more THEN @ + 1 ELSE 1]
         /\ Go(r, IF more THEN "gen-ast" ELSE "sa")
  /\ UNCHANGED <<disk, asts, objs, inHand, binary>>

SaWritten(r) ==
  /\ Written(r, "sa")
  /\ Go(r, "codegen")
  /\ UNCHANGED <<at, targets, asts, objs, binary>>

AsmWritten(r) ==
  /\ Written(r, "codegen")
  /\ Go(r, "as")
  /\ UNCHANGED <<at, targets, asts, objs, binary>>

\* Mutation: the loop runs once too often.
ObjectWrittenOnceMore(r) ==
  /\ Written(r, "as")
  /\ objs' = [objs EXCEPT ![r] = Append(@, Writes(r))]
  /\ at' = [at EXCEPT ![r] = @ + 1]
  /\ Go(r, IF at[r] <= Len(asts[r]) THEN "sa" ELSE "entry")
  /\ UNCHANGED <<targets, asts, binary>>

ObjectWritten(r) ==
  /\ Written(r, "as")
  /\ objs' = [objs EXCEPT ![r] = Append(@, Writes(r))]
  /\ IF at[r] < Len(asts[r])
     THEN at' = [at EXCEPT ![r] = @ + 1] /\ Go(r, "sa")
     ELSE UNCHANGED at /\ Go(r, "entry")
  /\ UNCHANGED <<targets, asts, binary>>

\* The entry's symbol is read from the first module's sa.json.
EntryRead(r) ==
  /\ stage[r] = "entry"
  /\ Disk(<<SourceOf[r], "sa">>) \notin Unreadable
  /\ Go(r, "entry.s")
  /\ UNCHANGED <<disk, at, targets, asts, objs, inHand, binary>>

EntryStubWritten(r) ==
  /\ Written(r, "entry.s")
  /\ Go(r, "entry.o")
  /\ UNCHANGED <<at, targets, asts, objs, binary>>

EntryWritten(r) ==
  /\ Written(r, "entry.o")
  /\ objs' = [objs EXCEPT ![r] = Append(@, Writes(r))]
  /\ Go(r, "aggregate")
  /\ UNCHANGED <<at, targets, asts, binary>>

\* Mutation: only the entry module is asked for allocators.
ShapesOfEntry(r) == {SourceOf[r]} \cap program.shapes

\* alloc-shapes of all modules; their libraries and objects are left out.
Shapes(r) == Items(asts[r]) \cap program.shapes

Aggregate(r) ==
  /\ stage[r] = "aggregate"
  /\ \A m \in Items(asts[r]) : Disk(<<m, "sa">>) \notin Unreadable
  /\ Go(r, IF Shapes(r) # {} THEN "alloc.pa" ELSE "ld")
  /\ UNCHANGED <<disk, at, targets, asts, objs, inHand, binary>>

AllocStages == <<"alloc.pa", "alloc.ast", "alloc.sa", "alloc.s", "alloc.o">>

\* The allocators' source is written by palan itself, the rest by the tools.
AllocatorsWritten(r) ==
  /\ \E k \in 1..4 : Written(r, AllocStages[k]) /\ Go(r, AllocStages[k + 1])
  /\ UNCHANGED <<at, targets, asts, objs, binary>>

AllocatorsDone(r) ==
  /\ Written(r, "alloc.o")
  /\ objs' = [objs EXCEPT ![r] = Append(@, Writes(r))]
  /\ Go(r, "ld")
  /\ UNCHANGED <<at, targets, asts, binary>>

\* With -o the run ends here.
Linked(r) ==
  /\ Written(r, "ld")
  /\ binary' = [binary EXCEPT ![r] = Items(objs[r])]
  /\ stage' = [stage EXCEPT ![r] = IF r \in ToFile THEN "exited" ELSE "run"]
  /\ status' = [status EXCEPT ![r] = IF r \in ToFile THEN 0 ELSE @]
  /\ UNCHANGED <<program, at, targets, asts, objs>>

\* The program's own exit status is palan's; 255 after a signal, 127 when the
\* binary cannot be started.
ProgramRun(r) ==
  /\ stage[r] = "run"
  /\ \E code \in {0, 1, 127, 255} :
       /\ Disk(Binary(r)) \in Unreadable => code = 127
       /\ Exit(r, code)
  /\ UNCHANGED <<disk, inHand>>

Step(r) == \/ SourceMissing(r) \/ ToolWrites(r) \/ ToolFails(r) \/ AstWritten(r)
           \/ ParseThrows(r) \/ ImportsRead(r) \/ SaWritten(r) \/ AsmWritten(r)
           \/ ObjectWritten(r) \/ EntryRead(r) \/ EntryStubWritten(r) \/ EntryWritten(r)
           \/ Aggregate(r) \/ AllocatorsWritten(r) \/ AllocatorsDone(r) \/ Linked(r)
           \/ ProgramRun(r)

AllExited == (\A r \in Runs : stage[r] = "exited") /\ UNCHANGED vars

Next == (\E r \in Runs : Step(r)) \/ AllExited

Spec == Init /\ [][Next]_vars /\ \A r \in Runs : WF_vars(Step(r))

-----------------------------------------------------------------------------

TypeOK ==
  /\ disk \in [WorkFiles -> {"absent", "torn", "old", "current", "wrong"} \cup Runs]
  /\ stage \in [Runs -> ToolStages \cup {"imports", "entry", "aggregate", "run", "exited"}]
  /\ targets \in [Runs -> Seq(Modules)]
  /\ \A r \in Runs : /\ asts[r] = SubSeq(targets[r], 1, Len(asts[r]))
                     /\ at[r] \in 1..Len(targets[r])
                     /\ Items(objs[r]) \cup binary[r] \subseteq WorkFiles
  /\ status \in [Runs -> {-1, 0, 1, 127, Aborted, 255}]

\* Discovery is complete before the first palan-sa: every ast that it will open
\* is there, however the modules import each other.
ImportsAreFound ==
  \A r \in Runs : stage[r] = "sa" => \A f \in SaReads(Module(r)) : Disk(f) # "absent"

\* ld is given the object of every module the program reaches, each once, the
\* entry stub, and the allocators exactly when a module needs them.
WholeProgram ==
  \A r \in Runs : stage[r] = "ld" =>
    LET mods == Reached(SourceOf[r])
    IN  /\ Cardinality(Items(objs[r])) = Len(objs[r])
        /\ Items(objs[r]) = {<<m, "o">> : m \in mods} \cup {<<SourceOf[r], "entry.o">>}
             \cup (IF mods \cap program.shapes # {} THEN {<<Allocators(r), "o">>} ELSE {})

\* What ld links was made from today's sources and, as to the allocators, by
\* this very run, whatever an earlier build or another run left on disk.
LinksOwn(r) == stage[r] = "ld" /\ inHand[r] # Nothing => inHand[r] = r
LinksItsOwn == \A r \in Runs : LinksOwn(r)

\* The program palan runs, or reports as built, is the one it has just linked
\* and not one an earlier build or another run left in its place.
RunsOwn(r) == stage[r] = "run" \/ status[r] = 0 => binary[r] # {} /\ Disk(Binary(r)) = r

\* A run that no other is beside links only what it has made or what is today's, whatever an
\* earlier build has left; and the program it runs is the one it has linked.
Alone(r) == \A q \in Runs \ {r} : SourceOf[q] \in program.missing
AloneBuildsItsOwn == \A r \in Runs : Alone(r) => LinksOwn(r) /\ RunsOwn(r)

\* The result of each run, as PalanRun sees it.
Result(r) ==
  IF binary[r] # {} THEN <<"linked", {m \in Modules : <<m, "o">> \in binary[r]}>>
  ELSE IF stage[r] = "exited" THEN <<"failed">> ELSE <<"working">>

P == INSTANCE PalanRun WITH needed <- [r \in Runs |-> Reached(SourceOf[r])],
                           result <- [r \in Runs |-> Result(r)]

\* Every run ends, failed or linked from what its source needs and nothing
\* else, and its result never changes afterwards.
PalanRunSpec == P!Spec
=============================================================================
