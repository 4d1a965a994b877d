# A TLA+ model of the Palan compiler

Palan is a compiled language; its compiler is a chain of command-line tools
written in C++ (`src/src`), started one after the other by a build manager:

    palan (build-mgr) -> palan-gen-ast (-> palan-c2ast per cinclude)
                      -> palan-sa -> palan-codegen -> as   (per module)
                      -> ld -> the program

The tools share nothing but files: `~/.palan/work/<absolute source path>` with
`.ast.json`, `.sa.json`, `.s`, `.o` and, for the program's first module,
`.entry.s`, `.entry.o` and `.out` behind it. Exit codes travel back up the chain.

Contents: 1 the system, 2 the modules, 3 the runs, 4 fairness, 5 the
theorems, 6 disagreements with the documentation, 7 what is not modelled,
8 the plan.

## 1. The system

| component | state it keeps | operations | what is hard | what makes it correct |
|---|---|---|---|---|
| build manager (`build-mgr/main.cpp`) | `target_files`, `ast_files`, `obj_files`, the work files on disk | discover imports, run each tool, generate allocators, link, run | several runs at once over one working directory; a tool failing half-way; files of an earlier build; import cycles | a run ends failed or with a binary linked from today's objects of exactly the modules its source reaches, and runs that binary |
| allocator generator (same file, 242-754) | none; it writes Palan source, whose arrays keep a length, a capacity and their elements | build, drop, copy, grow, push, pop of arrays and structs | the pushed value may lie in the array that is reallocated; release of replaced elements | what an array owns is released once |
| process runner (`common/PlnProcess.cpp`) | a child, a pipe | run, run and capture, wait | a full pipe, an interrupted wait | a run returns, with the child's whole output |
| AST generator (`gen-ast`) | parser state, `cState` carried from header to header, `macros` with the registrations of each name | parse, call palan-c2ast, fold constants | macros that later headers change | a name is folded to what C would put in its place |
| C header translator (`c2ast`) | macro table, headers said `once`, include stack, `ifstack` | preprocess, export macros, parse declarations | macro self reference, nested conditionals, include guards | expansion ends, groups are selected and text expanded as C says |
| semantic analyzer, names and types (`semantic-anlyzr`) | scopes, `topDecls_` (Pending, Resolving, Done), imported modules, type tables | resolve declarations on demand, pick overloads, convert | declarations that reach each other, imports that import each other | each declaration is resolved once or its cycle reported |
| semantic analyzer, ownership (`PlnSaStmt`, `PlnSaStorage`) | `varScopes`, `arrayScopeVars_`, `whileScopeStack_`, moved and escaped variables | declare, move, return, break, leave scope | several exits from nested scopes, moves in one branch only | on every path an owned value is released exactly once |
| VReg code generator (`PlnVCodeGen`) | VReg counter, scopes, temporaries waiting for release | lower statements and expressions | releases around short-circuit operators and loops | what a temporary owns is released after its last use on every path |
| register allocator (`PlnRegAlloc`) | live ranges, pool of callee-saved registers, occupied and free slots, frame size | one decision per VReg, frame layout | stale live ranges, loops, calls, divisions, slots reused | no two live values share a place |
| x86 emitter (`PlnX86*.cpp`) | none beyond the physical map | prologue, instructions, argument shuffle, call, return | order of moves inside one instruction or call | each instruction computes what the VReg program means |

How they interact: the build manager starts every other tool and sees only exit
codes and files. palan-sa also opens the `.ast.json` of every module that its
module reaches. The code generator hands the allocator a list of VReg
instructions; the allocator hands the emitter a map from VRegs to registers and
slots; nothing is written back. The hazards in `PROJECT.json` are the places
where one of these hand-overs, or an order inside a component, can go wrong.

## 2. The modules

| module | models |
|---|---|
| `VProg` | the VReg program (`PlnVProg.h`): instructions, what each reads and defines, loops, blocks; and what `PlnVCodeGen` makes sure of in every function it hands over |
| `FuncGen` | the functions the code generator can hand over, as a set grown instruction by instruction |
| `RegAlloc` | `allocateRegisters`, one action per decision: collect live ranges, place each parameter, each temporary, each variable; lay out the frame |
| `X86Exec` | the emitted function running: registers, stack slots and the value each VReg should hold |
| `RegMoves`, `ParallelMove` | `emitSafeRegMoves` pass by pass, and the simultaneous assignment it implements |
| `Lowering` | conditions, temporaries and their releases, `if`, `while` and jumps as `PlnVCodeGen` lowers them; the lowered code run beside the source |
| `IntExprs` | integer expressions: folded, typed by their place, lowered, and run |
| `BuildMgr`, `PalanRun` | runs of palan over a shared working directory, and what one run promises |
| `Process` | `runProcess` and `runProcessCaptureOut`: parent, child and pipe |
| `Varr`, `VarrList` | the functions that build-mgr generates for structs, rows and growing arrays, over a heap; and the lists they implement |
| `Ownership`, `OwnedRun` | palan-sa's walk over a function's statements: which scope releases what, what is emitted; and the result run on a heap |
| `TopDecls` | top-level types and consts of modules that import each other, resolved on demand; a stack of tasks is the call stack of the analyzers |
| `StructLayout`, `LayoutAsC` | `buildStructDef` and `placeCBitField`, and what the C ABI says of the same members |
| `PlnTypes` | the analyzer's types: what converts to what, what a borrow permits, how a type is spelled in a symbol |
| `Overloads` | functions that share a name: which may, and which one a call means |
| `Borrows` | a program of pointers, run under the bindings the analyzer accepts |
| `Globals` | `global` and `permit`: which programs are accepted, and their runs |
| `CLines`, `CPreprocessor` | `c2ast`'s preprocessor: directives, conditional groups and macro expansion, one action per line or token |
| `CIncludes` | a Palan file's cincludes: state handed on, macros exported, names folded |
| `CUnit`, `CIncludesAsC` | what C makes of the same headers in one translation unit, and the properties that compare the two |
| `RegAllocProofs` | theorems about `RegAlloc`: the frame; what the first pass finds out, and that the others keep live values apart |
| `X86Proofs` | theorems about `RegMoves`, and about the allocator and the emitter together: what each instruction reads, what the caller gets back |
| `BuildMgrProofs` | theorems about `BuildMgr` and its refinement of `PalanRun` |
| `DeclsProofs` | theorems about `TopDecls` and `Globals` |
| `OwnedRunProofs`, `OwnedScopesProofs`, `OwnershipProofs` | what one emitted statement does to the blocks; what the walk's scopes say of the code so far; each statement of the source, the inductive invariant and the theorems about `OwnedRun` |
| `LeastNats` | least members, recursion along the natural numbers and the joining of sequences, for these proofs |
| `MCX86`, `MCBuild`, `MCOwned`, `MCCHeaders`, `MCDecls` | instances for TLC |
| `MCLowering`, `MCVarr`, `MCIntExprs`, `MCTyping`, `MCGlobals` | the inputs of the modules that these instances check beside their own |

Five instances check several modules each. Where two of them share no state, as
the shuffle of a call's arguments and the allocator, the initial state
chooses one of them and puts the other into a state without steps (`JustReturn`,
`NothingToBuild`, `NoJob`, `NoHeaders`, the family `"none"`); a
behaviour is then one of the first or one of the second, and each property speaks of its own
variables.

### Code generation

`VProg` reduces a VReg instruction to its operation, the VReg it defines, the
VRegs it reads and, for a branch, its target. `RegAlloc` keeps the allocator's
own state: `meta` (first definition, last use, loop-extended end), the pool
position of callee-saved registers, the slots with who has occupied them, the
free pool of block variables, the frame. Each action is one of the branches of
the three loops of `allocateRegisters`, with its guard; `MakeSaveArea`,
`LayBlock` and `CloseFrame` are the frame layout. The order of the actions is
the order of the code, so a `RegAlloc` behaviour is deterministic once the
function is chosen.

`X86Exec` extends it: when the allocation is done the function runs, instruction
by instruction, along either side of a branch. Every place holds a symbolic
value; every VReg has the value the program means. An instruction whose
emission reads its second operand after writing its destination, or clobbers
`%rax` or `%rdx`, does the same here. A caller-saved register holds garbage
after a call. `ReadsAsMeant` says that a place read as an operand holds the
VReg's meant value: it joins the allocator, the emitter and the order of moves
in one statement.

The last part of `VProg` is what the theorems of section 5 ask of a function. All of it is what
`PlnVCodeGen` does: every VReg is set where it is new (`allocVReg`) and once, apart from
assignments to variables (`DefinedOnce`); a value is used before the block that declares it, and the loop
it was made in, are left (`OperandsEnd`, `LeavesOnce`); operands are VRegs of the function, as many as
the operation takes (`Takes`: the address of a parameter is refused by palan-sa,
`PlnSaExpr.cpp:214`; several results are returned from the variables that name them, or from the
eightbytes of a slot); a jump forward, out of a condition, a branch or a loop, passes over nothing that is
used where it arrives, and only a loop's own `jmp` goes back (`JumpsOver`); the last instruction is a return, which
`generate` appends where it is missing (`EndsWithReturn`). TLC evaluates these on every
function of the instances.

The register file is scaled down: two argument registers, `%rdi` and `%rdx` (the
second must be `%rdx`, which divisions overwrite), one callee-saved
register, so that three values already overflow it.

### Lowering

A program of `Lowering` is a sequence of statements over variables, calls, `&&`,
`||` and `!`, with temporaries that a call makes and that are lent to what
is around them. `LowerExpr`, `LowerBranchCond` and `LowerStmt` are the code generator's walk: a jumping form of a
condition and a value form, pending releases carried along and flushed where
the code flushes them. The lowered program then runs on every outcome of what
it tests; `log` has the calls it makes. `RunsAsWritten` compares `log` with
the order in which the source's own meaning makes them, and `TempsLive` says that what a call is
given is alive and that each temporary is released once on the path that made it,
and nothing on the paths that did not.

### Integer expressions

`IntExprs` is four readings of one expression. `EvalConst` folds at 64 bits as
`evalConst` does, `SaExpression` gives types from the operands and from the place,
`TakesExpectedType` retells which literals take the place's type, and `Run` computes what
`PlnVCodeGen`'s code does at the width of each operation, powers of two by shifts and masks. Widths are scaled so that the boundaries are
small numbers: 64 bits to 8, 32 to 4, 8 to 2.
`FoldsAsRun` says that an expression folded comes to what the same
expression computes; `ExpectedTypeTold` that `takesExpectedType`, which does not
analyse, agrees with the analysis.

### Build manager

`BuildMgr` has one action for a tool opening its output, one for its success per
stage and one for its failure, so a failure can leave a torn file; palan's own
reads of work files may meet one that another run is rewriting and abort.
What a file holds is reduced to whose inputs it was made from.
`PalanRun` is the promise in two actions; the map from `BuildMgr` to it is `Result`.

`Process` is one tool being run, captured or not: spawn and its failure, the two ends
of the pipe and who holds them, a child that writes, is killed or exits, reads and
waits that a signal interrupts and that are made again.

### Generated arrays

The functions of `Varr` (`Build`, `Copy`, `Drop`, `Reserve`, `Push`, `Resize`, `Pop` and the
replacement of an element) are the generated ones, by the kind of the element: a
plain value, a struct on the heap or in place, a row, another array. The heap is
blocks of cells; reallocation moves a block, so an address kept over it
dangles: `Look` marks a fault where a function reads a cell that is not there,
as `Put` and `Free` do where it writes or frees one. `BlocksOwned` says that every
block is reachable by exactly one owner (never two, never none) and that there
is no fault. `KeepsLists` is the refinement of `VarrList`, through the map that
reads the live prefix. `asked` names the call made last and what it was given, and
each call must take `VarrList`'s step of that name: the value it was given is appended or
written, the element it was asked for, the length it was asked for. The number of calls is
part of what is mapped, so a call that does nothing is no stutter. Only what a resize adds
is free, and only as far as the code leaves it undefined: bytes are, arrays are empty.

### Ownership

`Ownership` is the analyzer (`sa_statements` and what it calls). `scopes` is
`arrayScopeVars_`: for each open scope, outermost first, the variables it
releases. `open` stands for the C++ call stack of the walk: each construct around the
next statement with the number of scopes outside it (`whileScopeStack_` is
what `LoopScope` computes from it) and the array a `for` walks
(`pinnedRanges_`). A behaviour chooses a source statement, as long as
the analyzer accepts it, and appends to `code` what is emitted; `owners`
remembers, for the properties, where each source statement begins and which
variables own there. One action is one kind of statement, all it
emits included: releases, resets and temporaries. The order of a given
argument's reset (after all arguments, before the call) is the code
generator's `lowerArgs`.

`OwnedRun` runs `code`. Every block ever made stays in `heap` with a flag, so
that use after release is visible; `free` and `fini` release rows as the
generated `__pln_free_*` and `__pln_fini_*` do. Conditions of `if` and `while` go either way, a `for`
takes one turn per row. Index expressions get values when the function is
entered, so that two expressions may name one row. A callee is assumed to release what
it is given, which is what `NothingLeaks` says of this function's own
parameters. A variable is NULL after it has been given away; a program that
reads through it ends as `crashed`, which the language leaves to the
programmer, so no property speaks of what would come after.

### Names and types

`TopDecls` is the calls of the analyzers as a stack of tasks, one step each:
ensure a name, define it, adopt what an import brings in with
all it names, settle the structs that were only pointed to. Each module has an
analyzer (`an`) with the state of its declarations and the layouts it knows.
`CyclesAreCircular` compares what is refused with the containment of the declared
types, computed from the declarations alone, and `OrderFree` says that a name is refused as
unknown only if nothing declares it, wherever its declaration stands. `WholeAndAlike`
says that a module that is done has a whole layout of every struct it names, that two
modules that know one struct have it alike (`Alike`), and that nothing is left waiting or out (`Whole`).

`PlnTypes`, `Overloads` and `Globals` are operators: the analyzer's predicates with
their guards in their order. They are checked against meanings that do not repeat
them: `OneMeaning` turns the functions and arguments of a call round and asks for the same
callee, which takes some argument better than any other function that takes them all; `SymbolsTellApart` asks that two functions
that may be declared together have two symbols. `Borrows` runs programs of
pointers in which every binding is one that the analyzer accepts: no
sequence of them writes through what was lent to be read (`ReadOnlyStays`).
`Globals` runs an accepted program from its first statement through calls and
function values: no global is used before it is set (`SetWhenUsed`).

### C headers

A header is a sequence of lines in `CLines`: a directive with its name and
tokens, or text. `CPreprocessor` reads them as `preprocess` does. `files` is the
stack of its calls, one per header being read, each with its place and its
`ifstack`; `skip` counts the calls of `skip_to_nextif` under way. `scan` is the
stack of `scan_macro` calls: an argument is expanded by a call of its own, then
its result is put into the body and the body back in front of what is still to be
scanned. A token carries its hide set.

`CIncludes` puts one palan-c2ast after another: `Cinclude` starts with the macros
that the last one left (`dumpMacroState`, `loadMacros`), marked as inherited;
then the header is preprocessed; then `exportMacroConstants` tells gen-ast of
each macro that is not inherited; at the end, names that were inherited and are
gone are told as undefined. `table` is gen-ast's `MacroTable`, and `Fold` what
`foldMacroConstants` makes of a name that stands after so many cincludes.

`CUnit` is no model of the code but the reference: C's groups as a flag per
open group, C's expansion as Prosser's recursive algorithm, all headers in one
unit, as the design document promises (`SpecAndDesign.md:110-113`). The two are
written differently on purpose: the code skips by jumping from directive to
directive where the reference asks of each line whether it is read, and the code unions
hide sets where C intersects them.

Left out of the tokens: spelling, `#` and `##`, parameters beyond the first and
variadic macros, operators in conditions and in constants beyond one `+`, calls
that end in another text line. Where C itself does not say (a macro whose expansion ends in a
function-like name, before a parenthesis), the instance has no input.

## 3. The runs

| run | instance | shows |
|---|---|---|
| `x86` | one callee-saved register; up to 3 parameters (one on the caller's stack), calls of up to 2 arguments; a loop around calls; two-operand arithmetic and divisions, results as call arguments; after a temporary that takes the register: temporaries of two sizes, a variable rewritten late, nested blocks, frame blocks of two alignments | operands read as meant, live ranges reach the backward jump, no division overwrites a placed argument, slots reused only when free, `%rax` as a return value's register, frame layout, callee-saved registers restored |
| | every shuffle of up to 4 moves over 4 registers and a stack slot | it is emitted as one simultaneous assignment, through one scratch register, and emission ends |
| `x86_alias`, `x86_div_param` | parameters as operands | violations, see 6 |
| `build` | one run on every import graph of 3 modules with lists of up to 2, over an empty, old or torn directory; 2 runs with a common import and allocators | discovery is complete and ends; what is linked is whole, and today's when a run is alone; each run fails or links, and ends |
| | a child that writes up to 4 parts into a pipe that holds 2, exits, is killed or cannot be started; up to 2 interrupted calls | the parent returns with all of the output and the status |
| `build_one_dir` | two runs on sources of one directory | violation, see 6 |
| `owned` | two names of each kind, two rows, two index expressions; functions of up to 5 statements (ends of constructs count) with up to 2 nested constructs and 2 turns of a `while`, in four groups: moves, calls with up to 2 arguments, ways out, loops over arrays | on every path each block has one owner, is released once and never used afterwards; what is left at the end is what the caller takes over; the array of a `for` stays where it was |
| | conditions of up to 3 operands, nested temporaries, `if`, and a `while` with every jump out of it | the lowered code makes the calls of the source in its order; temporaries live as long as they are lent |
| | arrays of 13 kinds of elements, two of a type, every 3 calls of their functions | each block has one owner, none is used once it is freed or moved, each call does to plain lists what it was asked, and nothing is left when both are dropped |
| `owned_given`, `owned_reuse`, `owned_early` | the cases that `owned` leaves out | violations, see 6 |
| `cincludes` | every header of 5 lines of group directives and definitions, and of 6 lines of nested groups that begin with a group or a definition; all tables of two object-like macros and one function-like macro over a few bodies, with texts that name them; three cincludes of two headers of two lines; headers of 3 lines that include a header of 3; lines that are refused | groups, expansion, carried macros and folded names come to what C makes of the same headers; expansion ends, but for bodies that call their parameter, which are left out (`CPreprocessor.cpp:575`, see 6) |
| | integer expressions of up to 2 nested operators over boundary values of each type, the outer one never `\|` or `^` | folding agrees with running, and the types told with the types given |
| `decls` | 3 declarations of one module; 4 of two modules that import each other; 5 of three modules; consts, enums and array lengths that name each other; C types, signatures and taken names | resolution ends; it refuses only real cycles, whatever the order; modules agree about layouts |
| | C structs and unions of up to 3 members with bit-fields, packing and alignment | they are laid out as C does |
| | pairs and triples of overloads with every kind of argument; pairs of signatures; programs of up to 8 pointer variables; files of up to 4 top-level statements with 4 functions and a global | a call has one meaning, symbols differ, what is lent to be read is not written, globals are set when used |
| `decls_rows` | two declarations, rows of pointers | violation, see 6 |

Why the bounds are enough. A shuffle's interesting shapes are chains, fans and
cycles, and two cycles at once: four registers have them all. The allocator
decides about a VReg from its own range, calls inside it, and the ranges of VRegs that
already sit in the place it wants: three or four VRegs, five or six instructions
and a loop reach each combination of those, and every pass limit was
lengthened until each disjunct of the next-state relation fired. Three modules
have import cycles, a diamond's shared tail, self-import and double import.
A child that writes twice what the pipe holds has to wait for its reader.
For ownership, two names of a kind give a source and a target; a tree and a leaf give whole and
part; two rows tell the last turn of a `for` from the others; five statements
reach a jump out of a scope inside a loop with something to release on both
sides of it. The functions are grouped by what their statements are about
because all kinds at once multiply without adding a combination that
the groups miss: each group has what its statements interact with.
A condition of three operands has every operator inside both operands of every other, and
the releases of an inner one pending in an outer one. Capacities double, so that a third
push reallocates a second time; a kind of element is nested two deep, which reaches the
generated function of every kind from every other.
For C headers, five lines hold a group with every kind of part and one too many, six
lines a group inside each part of another, well-formed or not; three macros can name
each other in a ring through a body and an argument; three
cincludes make, change and unmake a macro, with a guard by its name in any of them.
An expression of two operators has each operator fed by each other's boundary results,
the least value and both signs included.
Three declarations make every cycle through a third, with pointers breaking it or not; the
chain of three modules is the shortest in which a type is adopted by one that
does not import its module. Three members put a bit-field between two of any kind.

Named bounds: `MaxTurns` (turns of a `while`), `length`, `args` and `nest` of a
job; `MaxRounds` (backward jumps of lowered code); `MaxCalls` and `MaxLen` of `Varr`; `Room`, `MaxOutput` and `MaxSignals` of
`Process`; `MaxDepth` of `MCIntExprs`' expressions and of the calls under way in `Globals`;
`MaxMoves`. `apart` keeps two rows of one array from being given in one call, and
without `reuse` a call's result does not replace what the call reads; the programs of
`Lowering` give no temporary before an argument that short-circuits. They
take disagreements of section 6 out of `owned` and put them into runs
of their own. The deadlock check is off where things really end: a function that has been
run, or a walk whose statements are used up inside a construct (`MCOwned*`).

## 4. Fairness

Weak fairness is assumed of the emitter's own steps (`RegMoves`: a
deterministic loop of one process) and of each run's steps (`BuildMgr`: a tool
or palan that can go on is scheduled by the operating system, and the tools
end; a tool that hangs is not modelled). `PalanRun` has the fairness that this
implies: a run does not stay at work for ever. `Process` assumes that the parent and the
child go on when they can: a child that is blocked by a full pipe cannot, and that it is
killed is not assumed of any. `CIncludes` has weak fairness of its
next step: palan-c2ast and gen-ast are sequential programs that go on while
there is something left to do, so `Ends` is about their loops and nothing else;
`TopDecls` assumes the same of palan-sa (`Runs`), written as the weak fairness of a step that is
possible until there is an outcome.

## 5. The theorems

`tlapm` checks each proof to the last leaf.

*RegMoves* (`X86Proofs`, first part), for every set of registers and any number of moves:
`TypeCorrect`, `SourcesSurvive`, `DestinationsSurvive`, `OneScratchSuffices`,
`ImplementsParallelMove`. The only assumption is that the scratch register is not
a source or destination of the shuffle (`ScratchIsNotAReg`). The argument is one
inductive invariant: a pending move's source still holds what it held at the start, or the
move has been redirected to the scratch and the scratch holds it; at most one
cycle is open at a time because its first move leaves the pending set of
needed sources before the next pass starts.

*Frame* (`RegAllocProofs`, first part), for every well-formed function
(`FuncsAreWellFormed`) and register names that are not empty
(`RegistersAreNamed`): `FrameAlwaysHolds`. `FrameHolds` is not inductive: it
speaks of the final frame. The strengthening `FInv` says, for each phase, how
deep the handed-out slots reach, that they are aligned to their sizes and lie
above the frame's current bottom; `MInv` says that the metadata names VRegs
of the function, so that each slot has a size. There is one step per action.

*Places* (`RegAllocProofs`, second part), for functions that are also of the
generator's shape (`FuncsAreShaped`) and register tables in which no register stands twice
(`RegistersAreDistinct`): `AlwaysAliveApart`. The first part is about the
metadata: `DefIdx`, `LiveEnd` and its rounds through the loops are recursive functions, so it shows that each has a
solution (`LeastNats`) and then what the passes need of it: a live range
reaches each use, is closed under the loops that it enters (`LiveEndClosed`), and
ends where `EndsBy` says that the value's scope does. Then comes the invariant `AInv`: places come
from the tables or the frame; two VRegs in one slot have one width; whoever has given a slot away has ended (`PoolGone`, `SharersGone`), which
is what makes a slot of the free pool free; a callee-saved register is handed
out once; and `KeptApart`, that is `AliveApart` of what has been placed so far. Without
the parts about the pool a step that takes a slot back could not be
justified; without `DefinedOnce` and `LeavesOnce` it would be false.

*Emitted code* (`X86Proofs`, second part), for functions that are also `Executable`, with `%rdx` not among the
callee-saved registers (`RdxIsScratch`) and no more integer results than argument registers (`ReturnsFit`; the one assumption
that no earlier stage enforces, see the hazard at `PlnX86Call.cpp:209`):

- `AlwaysTyped`, `AlwaysCalleeSavedKept`: on every path through the function, whatever it writes to its frame,
  the caller's registers are in their slots or untouched (`Kept`) and are put back before the return. It needs `FrameHolds`
  (no slot of a value is a save slot) and that the moves of the prologue and the
  return do not overwrite each other's sources (`Untouched`, `Arrives`, about any sequence of moves).
- `ReadsWhatIsMeant`: every instruction reads what the program means, *if* no sum or product is
  computed in the register of its right operand (`RightOperandApart`) and no parameter that lives across a division is in
  a register it overwrites (`DivisionSparesParams`). The allocator guarantees neither: these are the
  defects of `x86_alias` and `x86_div_param`. The theorem says that they are the only two ways in which the allocator's places can make
  an instruction read something else; without the hypotheses it would be false, and `x86`, whose functions
  avoid both, checks the conclusion alone. The invariant is `VInv`: every live VReg is `Carried`, its place holds its meant value. A step
  keeps it because what it overwrites belongs to nobody alive (`AliveApart`, and for `%rax`,
  `%rdx` and calls `WellPlaced`, which `PInv` carries through the allocator's passes); a backward jump because live ranges
  are closed under loops; a forward jump by `JumpsOver`.

*BuildMgr* (`BuildMgrProofs`), for any number of modules, with any imports, and any number of concurrent runs
(`BuildAssumption`: a run's source is a module, contents of files are told apart): `BuildTyped`;
`ImportsAlwaysFound`, for modules imported by relative paths; `AlwaysWholeProgram`; `KeepsPalanRun`,
the safety of the refinement of `PalanRun`; and `AloneBuilds`, whatever an earlier build has left behind. `BInv` says of each run what
its lists hold at each stage: the targets are distinct, reached from the source, and closed under the imports of those already
parsed (`FoundIn`), so they are closed when discovery ends; the objects are those of the targets, in order
(`GivenIn`). A step of another run changes only files. For a run on its own, `Own` says that what the next tool will
read, and what ld will be given, was completed by the run itself, which holds because an output is never among what is
still to be read (`WritesApart`).

*Globals* (`DeclsProofs`, second part), for every source, however many statements, functions and globals: `GlobalsSetWhenUsed`. The invariant `GInv`
says that whatever runs, or whose address has been taken, is reached from what the statements so far name; the analyzer's check is about
that closure. It is proved without induction, since the closure is the least set that is closed (`Reaches`).

*Declarations* (`DeclsProofs`, first part), for every program, of any number of modules that import each other, in which an import
names a declaration of the module it is from (`ProgramsAreWhole`, which is how `indexTopDecls` lists imports):

- `ResolutionTyped`: a declaration is marked as being resolved exactly while it is on the stack of what is being resolved, once.
- `CircularIsACycle`: only a program with a declaration that is part of what it needs is refused as circular, whatever was
  asked for first, by which module, and whatever waited in between.
- `NothingLeftOut`: when a program is accepted nothing waits, nothing is half resolved, and every declaration that the module
  compiled comes by, directly or through what others mention, is resolved in its own module.

The invariant `Inductive` has two ideas. `Nested` pairs each entry of `resolving` with the task that will end it, in the
order of both stacks, and says that a task reached while a declaration is being resolved asks for nothing but what that
declaration needs (`Fits`). So the entries are a chain of needs (`StackOK`), and to ask for one of them again, unless it is the
last, closes a cycle. What waits until nothing is being resolved is outside of every chain: this is why a struct may point to
one that contains it. `NothingForgotten` says that everything due (the roots, and what a declaration mentions from the
time it is begun) is done or that some task, queued ones included, will see to it (`Due`); a name marked `adopted` needs
more, that its own module's task is still there (`DueAtHome`), because its next use asks nobody. `WillSettle` says that while something
waits, something is being resolved or a task to look at the queue is to come. `Reached` is a fixed point, and the set of what is
done contains the roots and is closed, which is enough without induction (`LeadsLeast`).

*Ownership* (`OwnershipProofs`, resting on `OwnedRunProofs` and `OwnedScopesProofs`), for functions of any number of statements,
any sets of names, index expressions and rows, any values of the indexes, any way through the conditions and any number of turns:

- `NoUseAfterFree` (`TouchesAlive`), `NoDoubleFree` (`ReleasesOnce`), `NoLeak` (`NothingLeaks`), `OwnedOnce` (`OneOwner`),
  `RangeKept` (`RangeStays`) and `TypesKept` (`TypeOK`): all that the first part of the run `owned` checks.

Each has the hypothesis `Apart`: no two rows of one array are given in one call, and no call replaces what its arguments
read. Without it the theorems are false, which is what `owned_given` and `owned_reuse` show; the analyzer does not see to it, so these
theorems say that within the model those two are the only ways to break its accounting. The assumptions are `JobsAssumption` (parameters
have names of their own, and the names and depth that the model's temporaries and `for` variables allow: two
arguments, three nested constructs), `NamesAssumption` (the names the analyzer makes up are nobody else's: `__tmp_N` at `PlnSaCall.cpp:363`, `__for_N`
at `PlnSaStmt.cpp:317`) and `SlotsAssumption` (rows are counted from 1).

`OneOwner` is far from inductive: it speaks of where statements of the source begin, and what a jump arrives with depends on
what was emitted elsewhere. The strengthening annotates the code. A `Point` says what is known between two emitted statements:
which variables own, which temporaries and `for` variables repeat another location (`twin`), and which row has been released and waits for
its next block (`hole`). `Sound` ties a point to the memory: the blocks alive are those held by the owners and by rows,
each at one place. `Effect` says what one emitted statement makes of a point, `Flow` adds branches, jumps and loops,
whose surroundings are a second note (a loop's head and its exit, a branch's end). Then there are three parts:

1. *Running* (`OwnedRunProofs`): a statement at a point at which the memory is sound touches only what is alive, releases each block
   once, and leaves the memory sound at the point behind it or where it jumps to. So `Sound` is kept along any code that is annotated throughout
   (`Whole`), however that code came about.
2. *Walking* (`OwnedScopesProofs`, `OwnershipProofs`): each action of `Ownership` emits statements that lead (`Course`) from the point that
   the scopes describe to the one that the new scopes describe (`Drawn`). This rests on `Tidy`: a name is declared in one place, each open
   construct knows the number of scopes outside of it, a `for`'s array is held outside of the loop. A jump's releases lead to the point noted for
   the loop's head or its exit because they release just the scopes between; a `return` leaves nobody but what it returns.
3. *The end*: when the walk is over, no construct is open and the last statement leaves the function (`Complete`), so no path runs off the end of the code.

`IInv` says of a walk that its code is `Drawn`, of a finished one that it is `Complete`, of a run that the memory is sound at the present point.
`Inductive` is proved without induction over the code: that a sequence of releases does what each does in turn rests on the least position at which
it would not, and joined sequences on a solution of their recursion (`LeastNats`). For these proofs `WithRows`,
`Unused` and the releases are written by positions and `FlattenSeq` rather than by `SelectSeq`, whose recursion the provers do not see.

Each invariant was first checked by TLC on the instance of its run; of `IInv` of ownership that was `Tidy` and the six properties, since
TLC would have to guess the points.

Only model-checked:

- `ReadsAsMeant` without the two hypotheses, on functions that avoid the defects;
- `MovesAtOnce`, the fairness of `PalanRunSpec`, `ReturnsAll`, `Ends` and `ResolutionEnds`: liveness and `ENABLED` are outside this
  prover's reach;
- what is recursive over data, which the prover cannot reach: `Lowering`, `IntExprs`, `Varr`, `PlnTypes` and
  what is built on it (`Overloads`, `Borrows`), the layouts of `LayoutAsC`, and the properties of `CIncludesAsC`;
- `OwnedRun` without `Apart`: there the properties are false (`owned_given`, `owned_reuse`);
- of `TopDecls`: `TakesWhatIsThere`, `OrderFree` and `Alike`, which are about the bindings and layouts an analyzer has, not only about
  what is resolved; that the cycle of `CyclesAreCircular` is among what is reached; and that an accepted program has no cycle, which is
  true of the programs of the instance but not of `type X = X;` (section 6).

## 6. Disagreements found

- `x86_alias`: a temporary may take the register of a parameter that dies in the
  defining instruction. When that parameter is the right operand of a two-operand
  instruction, the emitter overwrites it before reading it.
- `x86_div_param`: the rule that keeps values out of `%rdx` across a
  division is not applied to parameters.
- `build_one_dir`: two runs on sources of one directory share `__allocators.*`,
  against what the documentation says of running several at the same time.
- `owned_given`: paths of arguments given away in one call are compared by the
  text of their indexes, so `f(a[i]>>, a[j]>>)` is accepted, and with `i == j` one row
  is given, and released, twice.
- `owned_reuse`: `f(a) ->> a` for an array releases `a` before the call reads it;
  the documentation says that the value comes first.
- `owned_early`: in `h(@makeS(), a && b)` the temporary is released inside the operator
  (`PlnVCodeGen.cpp:328` flushes all that is pending, not only the operand's own), before `h` is
  called with a pointer to it; the documentation has an operand free only its own
  (`PalanReference.md:2106-2107`).
- `decls_rows`: `type A { [2]@B x; }` before `type B` is refused as naming an unknown
  type (`PlnSaStorage.cpp:233`), after it is accepted; the documentation lets a struct be used before
  its declaration (`PalanReference.md:2118-2119`).

Disagreements met while modelling the build and the analyzer, which the instances leave out
and which have no run:

- an absolute import is compiled under the working directory and looked for
  beside its source (`PlnSemanticAnalyzer.cpp:1226`; `SpecAndDesign.md:441`);
- concurrent runs that share an imported module may link an object made from a
  half-written `.s`: `WholeProgram` speaks of which objects are linked, and what they
  were made from is left to `AloneBuildsItsOwn`, of a run without others;
- an imported type is refused when what it brings along has a name that the importing
  module may not write (`PlnSaDecl.cpp:1169-1178`; `PalanReference.md:2403-2406`): the family
  `"brought"` of `MCDecls`;
- a cycle through an alias of a pointer (`type P = S; type S { @P next; }`) is refused
  as circular, and `type X = X;` is accepted without a word;
- the types a field `$[2]@P` points to are not adopted with it when they are not resolved yet;
- overloads `f(@P)` and `f(@!P)` named as a value are ambiguous even where the
  expected function type tells them apart (`PlnSaCall.cpp:541-560`);
- `int8 x = 300u;` is accepted and cut (`PlnSaExpr.cpp:1034-1057`), where a literal that does not
  fit is an error (`PalanReference.md:80-82`);
- `x % -1` of the least integer is 0 when it is folded and traps when it runs.

Disagreements met while modelling C headers, which the instance of `cincludes` leaves out
and which have no run yet:

- a constant keeps its value when a later header changes a macro its body
  names, since only a header's own macros are exported (`c2ast/main.cpp:212`);
- a macro redefined to a plain name or a function's name leaves an earlier
  constant of its name in effect (`CParser.cpp:2067`), and the name of a function that an
  earlier cinclude declared becomes no declaration (`CParser.cpp:2009`);
- a header with `#pragma once` that is cincluded twice is read twice
  (`CPreprocessor.cpp:85`);
- `#define f(x) x(x)` with `f(f)` is expanded for ever (`CPreprocessor.cpp:575`);
- a second `#else` of a group is accepted when it is reached by reading
  (`CPreprocessor.cpp:1259`); C rejects it, and `GroupsAsC` speaks of what C accepts;
- a condition whose value has 32 low zero bits is false (`CPreprocessor.cpp:939`);
- `E_ElifAfterElse` (`CPreprocessor.cpp:1250`) cannot be reached: after `#else` the
  group is fulfilled, which is asked first.

## 7. What is not modelled

- Text: the grammars of Palan and C, the JSON of the work files, the wording of
  messages, the layout of assembly. What is passed on by them is modelled where
  a property depends on it.
- What ownership leaves out: copies by `->`, structs returned through slots, views of
  owners (`as T`), arrays that change length, chained stores, owners reached from globals.
- Of types: operator functions' operands, chains of calls beyond their first
  argument, casts, floats, enums as operands, variadic arguments' bindings.
- Of expressions: operands with effects and their order, floating point, strings.
- Of the generated arrays, what the documentation leaves unchecked: an element of an array that
  lies in place, pushed on that same array while it grows (`PalanReference.md:1614-1615`, `doc/Issues.md:25`);
  `pop` of an empty array and a negative length, which abort; copies of rows with slots
  that were moved out of. Bytes that a longer length uncovers are undefined, and an
  allocation that fails is not looked at by the generated code, nor here.
- Floating point in the allocator (home slots, the linear scan) and the emitter;
  structs given or returned by value.
- The parser of C declarations, the operators in C conditions.
- `--clean`, the libraries and objects of `link` clauses. A tool that never ends.
- The sa.json reader: a structural copy without state.
- `as` and `ld`: tools that succeed or fail.

## 8. The plan

What is left, in this order; each module with its MC module, properties with
mutants, then its theorems.

1. Theorems: `Process` (what has been read and what is in the pipe add up to what was written);
   `TopDecls`' `TakesWhatIsThere`.
2. **C conditions** (`CPreprocessor.cpp:899-1197`): operators in their widths
   against C's, and runs for the disagreements of section 6 about headers.
3. **`CallConv`** (eightbyte classes, argument places): pure functions
   against a reference definition; caller and callee must agree.
4. **`FloatAlloc`**: the linear scan over floating-point VRegs, composed with
   `X86Exec` beside `RegAlloc`.
5. `Ownership` extended by struct return slots, views and variable-length arrays, its `code`
   handed to `Lowering` for temporaries.
6. Declarations that a C header exports and later ones rely on.

A run answers one question about one hand-over; a new module joins the instance of
the component it belongs to.
