------------------------------- MODULE MCX86 -------------------------------
(***************************************************************************)
(* Two argument registers, the second of them %rdx, so that small          *)
(* functions reach what the real ABI reaches at its third parameter; one   *)
(* callee-saved register, which some functions use up first, so that       *)
(* values spill early.  And the moves of a call's arguments: every shuffle *)
(* of up to MaxMoves, so two cycles at once, a cycle that feeds a chain,   *)
(* and a source read by several moves.                                     *)
(***************************************************************************)
EXTENDS X86Exec, FuncGen, RegMoves

CONSTANT Kinds   \* the kinds of functions, see GenFuncs

ArgRegs == <<"rdi", "rdx">>
OneSaved == <<"rbx">>

NoBlocks == {<< >>}
SomeBlocks == {<< >>, <<[size |-> 12, align |-> 4], [size |-> 1, align |-> 16]>>}

\* Parameters in registers and above %rbp, arguments, results, spills across calls.
CallsProfile == Profile({"un", "call"}, {1, 2, 3}, 2, 2, {8}, NoBlocks, FALSE)
\* Values carried round a loop that calls.
LoopProfile == Profile({"un", "call"}, {1}, 3, 1, {8}, NoBlocks, TRUE)
\* Arithmetic and division into the registers of a call's arguments.
ArithProfile == Profile({"bin", "div", "def", "call"}, {0}, 3, 2, {8}, NoBlocks, FALSE)
\* A variable rewritten after its last use, while a later value is alive, with
\* and without loops around stretches of the code.
UpdatesProfile == Profile({"un", "mov"}, {1}, 5, 1, {8}, NoBlocks, TRUE)
LateUpdate ==
  [params |-> 1, width |-> <<8, 8, 8, 8, 8>>, blocks |-> << >>,
   code |-> <<I("un", 2, <<1>>, 0), I("un", 3, <<2>>, 0), I("un", 4, <<3>>, 0),
              I("mov", 2, <<3>>, 0), I("un", 5, <<4>>, 0), I("ret", 0, <<5>>, 0)>>]
\* Temporaries of two sizes that reuse each other's slots.
SpillsProfile == Profile({"def", "cmp", "store"}, {0}, 4, 1, {4, 8}, NoBlocks, FALSE)
\* The address of an element whose offset is computed after its own VReg is
\* numbered: the operands have higher numbers than what they make.
RowElement ==
  [params |-> 2, width |-> <<8, 8, 8, 8, 8, 8>>, blocks |-> << >>,
   code |-> <<I("def", 4, << >>, 0), I("un", 5, <<2>>, 0), I("bin", 6, <<5, 4>>, 0),
              I("cmp", 3, <<1, 6>>, 0), I("call", 0, <<3>>, 0), I("ret", 0, <<3>>, 0)>>]
\* Blocks whose variables give their slots back, and frame blocks.
BlocksProfile == Profile({"var", "leave", "def", "lea"}, {0}, 4, 1, {4, 8}, SomeBlocks, FALSE)
\* Arithmetic on parameters.
AliasProfile == Profile({"bin", "call"}, {2}, 2, 2, {8}, NoBlocks, FALSE)
\* A parameter left in %rdx across a division.
DivParamProfile == Profile({"div", "un"}, {2}, 2, 2, {8}, NoBlocks, FALSE)

FunctionsOf(kind) ==
  CASE kind = "calls"     -> Functions(CallsProfile)
    [] kind = "loop"      -> Functions(LoopProfile)
    [] kind = "arith"     -> Functions(ArithProfile)
    [] kind = "updates"   -> {AfterATemp(f) : f \in {LateUpdate} \cup WithLoop(UpdatesProfile, LateUpdate)}
    [] kind = "spills"    -> {AfterATemp(f) : f \in {RowElement} \cup Functions(SpillsProfile)}
    [] kind = "blocks"    -> {AfterATemp(f) : f \in Functions(BlocksProfile)}
    [] kind = "alias"     -> Functions(AliasProfile)
    [] kind = "div_param" -> Functions(DivParamProfile)

\* No code beside the moves.
JustReturn == [params |-> 0, width |-> << >>, blocks |-> << >>, code |-> <<I("ret", 0, << >>, 0)>>]
GenFuncs == {JustReturn} \cup UNION {FunctionsOf(kind) : kind \in Kinds}

MovedRegs == {"rdi", "rsi", "rdx", "rcx"}
StackArg == {"m8"}

\* A function is compiled and run, or a shuffle emitted.
MCInit ==
  /\ XInit
  /\ IF func = JustReturn THEN MovesInit
     ELSE want = << >> /\ moves = want /\ done = {} /\ cursor = 1 /\ progress = FALSE /\ regs = [r \in RegOrScratch |-> r]
AllMoved == Pending = {} /\ UNCHANGED movesVars
MCNext ==
  \/ want = << >> /\ XNext /\ UNCHANGED movesVars
  \/ want # << >> /\ (MovesNext \/ AllMoved) /\ UNCHANGED vars
MCSpec == MCInit /\ [][MCNext]_<<vars, movesVars>> /\ WF_<<vars, movesVars>>(MCNext)
=============================================================================
