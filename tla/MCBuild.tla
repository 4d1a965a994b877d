------------------------------ MODULE MCBuild ------------------------------
(***************************************************************************)
(* What four source files may say, and two runs of palan, each given a     *)
(* source of its own; and a process that palan runs.                       *)
(***************************************************************************)
EXTENDS BuildMgr

VARIABLES step, capture, writers, child, written, pipe, got, signals, result
process == <<step, capture, writers, child, written, pipe, got, signals, result>>
Proc == INSTANCE Process

\* Lists of up to two imports among three modules, own module included.
ListsOfThree == {<<>>, <<"a">>, <<"d">>, <<"a", "c">>, <<"c", "d">>}
AnyImports == {f \in [Modules -> ListsOfThree] : f["b"] = <<>>}
Says(imports, missing, shapes, left) ==
  [imports : imports, absolute : {{}}, missing : missing, shapes : shapes, left : left]
\* The second run has no source: the first is on its own.
Solitary == Says(AnyImports, {{"b"}}, {{}, {"d"}}, {"old", "torn"}) \cup Says(AnyImports, {{"b"}, {"b", "d"}}, {{}}, {"absent"})
\* Both import c, which needs allocators.
Imports(list) == [m \in Modules |-> IF m \in {"a", "b"} THEN list ELSE <<>>]
SharesC == Says({Imports(<<"c">>)}, {{}}, {{"c"}}, {"old"})
NothingToBuild == Says({Imports(<<>>)}, {{"a", "b"}}, {{}}, {"absent"})
BothNeed == Says({Imports(<<>>)}, {{}}, {{"a", "b"}}, {"absent"})

Together == Solitary \cup SharesC \cup NothingToBuild
TwoSources == [r \in Runs |-> IF r = "r1" THEN "a" ELSE "b"]
OneDir == [m \in Modules |-> "dir"]
TwoDirs == [m \in Modules |-> IF m = "b" THEN "other" ELSE "dir"]

\* A process is run where there is nothing to build.
MCInit == Init /\ Proc!ProcessInit(program \in NothingToBuild)
MCNext ==
  \/ Next /\ UNCHANGED process
  \/ Proc!ProcessNext /\ UNCHANGED vars
MCSpec ==
  /\ MCInit /\ [][MCNext]_<<vars, process>>
  /\ \A r \in Runs : WF_vars(Step(r))
  /\ WF_process(Proc!Parent) /\ WF_process(Proc!Child)

ReturnsAll == Proc!ReturnsAll
=============================================================================
