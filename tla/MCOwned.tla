------------------------------ MODULE MCOwned ------------------------------
(***************************************************************************)
(* Two names of each kind, arrays of two rows, two index expressions that  *)
(* may be equal, and functions grouped by what their statements are about; *)
(* conditions and temporaries as they are lowered; and the arrays whose    *)
(* functions build-mgr generates.                                          *)
(***************************************************************************)
EXTENDS OwnedRun

CONSTANTS
  Kinds,     \* of functions, see JobsOf
  Lowered,   \* the programs that are lowered
  Elems,     \* the types of arrays' elements
  MaxCalls,
  MaxLen

VARIABLES asm, here, alive, regs, log, turns
lowering == <<asm, here, alive, regs, log, turns>>
Lower == INSTANCE MCLowering WITH code <- asm
VARIABLES elem, store, heads, lists, out, calls, asked
arrays == <<elem, store, heads, lists, out, calls, asked>>
Array == INSTANCE MCVarr

LeafNames == <<"a", "b">>
TreeNames == <<"v", "w">>
TwoSlots == 1..2

Job(may, length, params, ret, args, nest) ==
  [may |-> may, length |-> length, params |-> params, ret |-> ret, named |-> "",
   args |-> args, nest |-> nest, apart |-> TRUE, reuse |-> FALSE]

NoJob == Job({}, 0, << >>, "none", 0, 0)
JobsOf(kind) ==
  CASE kind = "none" -> {NoJob}
    [] kind = "moves" ->
         {Job({"take", "give", "new", "frame", "return"}, 3, <<"a", "v">>, "tree", 0, 0)}
    [] kind = "calls" ->
         {Job({"call", "discard", "replace", "return_result"}, 1, <<"a", "v">>, "leaf", 2, 0),
          Job({"call", "result", "replace"}, 2, <<"a", "v">>, "none", 1, 0)}
    [] kind = "exits" ->
         {[Job({"new", "if", "else", "while", "block", "break", "continue", "return"}, 5, <<"v">>, "leaf", 0, 2)
            EXCEPT !.named = "b"],
          Job({"if", "else", "while", "take", "give", "break", "return"}, 4, <<"a">>, "leaf", 0, 1)}
    [] kind = "ranges" ->
         {Job({"for", "give", "take"}, 3, <<"v">>, "none", 0, 2),
          Job({"for", "if", "break", "continue", "return"}, 3, <<"v">>, "leaf", 0, 2),
          Job({"for_result", "call", "return"}, 2, <<"v">>, "none", 1, 2)}
    [] kind = "given" -> {[Job({"call"}, 1, <<"v">>, "none", 2, 0) EXCEPT !.apart = FALSE]}
    [] kind = "reuse" -> {[Job({"replace"}, 1, <<"a", "v">>, "none", 1, 0) EXCEPT !.reuse = TRUE]}

MCJobs == UNION {JobsOf(kind) : kind \in Kinds}

\* A function is emitted and run, a program lowered and run, or arrays used.
MCInit ==
  /\ RInit
  /\ Lower!LoweringInit(IF job = NoJob THEN Lowered ELSE Lower!NoPrograms)
  /\ IF job = NoJob /\ Lower!NothingLowered THEN Array!VInit(Elems) \/ Array!NoArrays ELSE Array!NoArrays
MCNext ==
  \/ job # NoJob /\ Next /\ UNCHANGED <<lowering, arrays>>
  \/ ~Lower!NothingLowered /\ Lower!LoweringStep /\ UNCHANGED <<vars, arrays>>
  \/ Array!VNext /\ UNCHANGED <<vars, lowering>>
MCSpec == MCInit /\ [][MCNext]_<<vars, lowering, arrays>>

RunsAsWritten == Lower!RunsAsWritten
TempsLive == Lower!TempsLive
BlocksOwned == Array!BlocksOwned
KeepsLists == Array!KeepsLists

AllPrograms == Lower!Programs
EarlyPrograms == Lower!EarlyPrograms
NoPrograms == Lower!NoPrograms
Elements == Array!Elements
=============================================================================
