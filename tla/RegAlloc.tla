------------------------------ MODULE RegAlloc ------------------------------
(***************************************************************************)
(* allocateRegisters (src/codegen/PlnRegAlloc.cpp) for the VRegs that hold *)
(* integers and pointers: what it learns of each VReg from one pass over   *)
(* the instructions, then its passes in the order of the source, one       *)
(* action per parameter, VReg or instruction it treats.                    *)
(*                                                                         *)
(* The floating-point linear scan between the parameters and pass A works  *)
(* on other registers and other VRegs and is left out.                     *)
(***************************************************************************)
EXTENDS VProg

CONSTANTS IntArgs,      \* phys.intArgs: argument registers, in order
          CalleeSaved,  \* phys.calleeSaved, in order
          Rax,          \* the register of a single return value
          Rdx,          \* with %rax, what a division overwrites
          Funcs         \* the functions to allocate for

ASSUME RegistersAreNamed == /\ IntArgs \in Seq(STRING \ {""})
                            /\ CalleeSaved \in Seq(STRING \ {""})
                            /\ Rax \in STRING \ {""}
\* No register is in two places of the tables.
ASSUME RegistersAreDistinct ==
  /\ \A j, k \in DOMAIN IntArgs : IntArgs[j] = IntArgs[k] => j = k
  /\ \A j, k \in DOMAIN CalleeSaved : CalleeSaved[j] = CalleeSaved[k] => j = k
  /\ \A j \in DOMAIN IntArgs, k \in DOMAIN CalleeSaved : IntArgs[j] # CalleeSaved[k]
  /\ \A j \in DOMAIN IntArgs : IntArgs[j] # Rax
  /\ \A k \in DOMAIN CalleeSaved : CalleeSaved[k] # Rax
ASSUME FuncsAreWellFormed == \A f \in Funcs : WellFormed(f)
ASSUME FuncsAreShaped == \A f \in Funcs : Shaped(f)

VARIABLES func,         \* the function
          phase,        \* "meta", "params", "temps", "vars", "frame", "blocks",
                      \* "done"
          at,           \* the parameter, VReg or instruction treated next
          given,        \* variables of the leaving block treated so far
          meta,         \* what the first pass found out about each VReg
          loc,          \* result: VReg -> PhysLoc, defined where allocated
          calleeIdx,    \* callee-saved registers handed out
          stackBytes,   \* bytes consumed below %rbp
          copies,       \* pendingParamCopies: <<argument register, VReg>>
          pool,         \* freePool: size -> offsets that expired variables left
          blockOffs,    \* frameBlockOffsets
          frameSize

avars == <<func, phase, at, given, meta, loc, calleeIdx, stackBytes, copies, pool,
           blockOffs, frameSize>>

-----------------------------------------------------------------------------

Reg(r) == [reg |-> r, off |-> 0]
Stack(o) == [reg |-> "", off |-> o]
IsStack(l) == l.reg = ""

AlignUp(n, a) == ((n + a - 1) \div a) * a
MaxOf(S) == CHOOSE x \in S : \A y \in S : x >= y

\* Mutation: a Mov into v does not keep v alive.
PlainUsesNotUpdates(f, v) ==
  {k \in Indices(f) :
     LET i == f.code[k] IN
     \/ i.op # "call" /\ v \in Operands(i)
     \/ i.op = "call" /\ \E a \in DOMAIN i.src : a > Len(IntArgs) /\ i.src[a] = v}

\* The instructions that use v other than as a call argument in a register;
\* a Mov into v counts, and so does a call argument that overflows to the stack.
PlainUses(f, v) ==
  {k \in Indices(f) :
     LET i == f.code[k] IN
     \/ i.op # "call" /\ v \in Operands(i)
     \/ i.op = "mov" /\ i.dst = v
     \/ i.op = "call" /\ \E a \in DOMAIN i.src : a > Len(IntArgs) /\ i.src[a] = v}

\* <<call, argument position>> for every register argument slot v fills.
CallUses(f, v) ==
  {use \in Calls(f) \X (1..Len(IntArgs)) :
     LET args == f.code[use[1]].src IN use[2] \in DOMAIN args /\ args[use[2]] = v}

DefIdx(f, v) == MaxOf({0} \cup {k \in Indices(f) : Defines(f.code[k]) = v})

\* Mutation: loops are not looked at.
LiveEndTextual(f, v) == MaxOf({0} \cup PlainUses(f, v) \cup {u[1] : u \in CallUses(f, v)})

\* A value defined before a loop and used in it must survive until the jump
\* back; repeated until stable, so that nested loops extend to the outermost.
LiveEnd(f, v) ==
  LET last == MaxOf({0} \cup PlainUses(f, v) \cup {u[1] : u \in CallUses(f, v)})
      ext[n \in 0..Cardinality(Loops(f))] ==
        IF n = 0 THEN last
        ELSE LET e == ext[n - 1]
             IN  MaxOf({e} \cup {r[2] : r \in {r \in Loops(f) :
                                  DefIdx(f, v) < r[1] /\ r[1] <= e /\ e < r[2]}})
  IN  ext[Cardinality(Loops(f))]

MetaOf(f, v) ==
  [def     |-> DefIdx(f, v),                 \* 0: a parameter, set by no instruction
   isVar   |-> \E k \in Indices(f) : \/ f.code[k].op = "var" /\ f.code[k].dst = v
                                     \/ f.code[k].op = "lea" /\ f.code[k].src[1] = v,
   isRet   |-> \E k \in Indices(f) : f.code[k].op = "ret" /\ v \in Operands(f.code[k]),
   plain   |-> PlainUses(f, v) # {},
   calls   |-> CallUses(f, v),
   liveEnd |-> LiveEnd(f, v)]

-----------------------------------------------------------------------------

Bind(v, l) == loc' = [u \in DOMAIN loc \cup {v} |-> IF u = v THEN l ELSE loc[u]]

\* Mutation: the negative offset becomes the number of bytes taken.
FreshSlotNegated(v) ==
  LET size == func.width[v]
      top  == AlignUp(stackBytes, size) + size
  IN  Bind(v, Stack(-top)) /\ stackBytes' = -top

\* allocStackSlot: the next bytes below what is taken, at the size's alignment.
FreshSlot(v) ==
  LET size == func.width[v]
      top  == AlignUp(stackBytes, size) + size
  IN  /\ Bind(v, Stack(-top))
      /\ stackBytes' = top

\* Mutation: slots of any size.
SlotMatesAnySize(v) == {u \in DOMAIN loc : IsStack(loc[u]) /\ loc[u].off < 0}

\* The VRegs of v's size that have a local slot.
SlotMates(v) == {u \in DOMAIN loc : /\ IsStack(loc[u]) /\ loc[u].off < 0
                                   /\ func.width[u] = func.width[v]}

\* Mutation: the occupant need only end before v ends.
ExpiredSlotsByEnd(v) ==
  {o \in {loc[u].off : u \in SlotMates(v)} :
     \A u \in SlotMates(v) : loc[u].off = o => meta[u].liveEnd < meta[v].liveEnd}

\* Local slots of v's size all of whose occupants so far end before v begins.
ExpiredSlots(v) ==
  {o \in {loc[u].off : u \in SlotMates(v)} :
     \A u \in SlotMates(v) : loc[u].off = o => meta[u].liveEnd < meta[v].def}

\* allocTempStackSlot: the lowest expired slot, or a fresh one.
TempSlot(v) ==
  \/ /\ \E o \in ExpiredSlots(v) : /\ \A p \in ExpiredSlots(v) : o <= p
                                   /\ Bind(v, Stack(o))
     /\ UNCHANGED stackBytes
  \/ /\ ExpiredSlots(v) = {}
     /\ FreshSlot(v)

\* allocCalleeSavedOrStack: each callee-saved register is handed out once.
CalleeSavedOrStack(v) ==
  \/ /\ calleeIdx < Len(CalleeSaved)
     /\ Bind(v, Reg(CalleeSaved[calleeIdx + 1]))
     /\ calleeIdx' = calleeIdx + 1
     /\ UNCHANGED stackBytes
  \/ /\ calleeIdx >= Len(CalleeSaved)
     /\ UNCHANGED calleeIdx
     /\ IF meta[v].isVar \/ meta[v].isRet \/ meta[v].calls # {}
        THEN FreshSlot(v)
        ELSE TempSlot(v)

-----------------------------------------------------------------------------

Init ==
  /\ func \in Funcs
  /\ phase = "meta"
  /\ at = 1
  /\ given = 0
  /\ meta = << >>
  /\ loc = << >>
  /\ calleeIdx = 0
  /\ stackBytes = 0
  /\ copies = << >>
  /\ pool = [size \in Sizes |-> << >>]
  /\ blockOffs = << >>
  /\ frameSize = 0

CollectMeta ==
  /\ phase = "meta"
  /\ meta' = [v \in VRegs(func) |-> MetaOf(func, v)]
  /\ phase' = "params"
  /\ UNCHANGED <<func, at, given, loc, calleeIdx, stackBytes, copies, pool, blockOffs, frameSize>>

InPhase(p, last) == phase = p /\ at <= last
GoOn == /\ at' = at + 1
        /\ given' = 0
        /\ UNCHANGED <<func, phase, meta, blockOffs, frameSize>>
PhaseEnds(p, last, next) ==
  /\ phase = p
  /\ at > last
  /\ phase' = next
  /\ at' = 1
  /\ UNCHANGED <<func, given, meta, loc, calleeIdx, stackBytes, copies, pool, blockOffs, frameSize>>

-----------------------------------------------------------------------------
\* Parameters.

CrossesCall(v) == \E c \in Calls(func) : c < meta[v].liveEnd

\* Passed by the caller above %rbp: 16(%rbp), 24(%rbp), ...
ParamOnCallersStack ==
  /\ InPhase("params", func.params)
  /\ at > Len(IntArgs)
  /\ Bind(at, Stack((at - Len(IntArgs) + 1) * 8))
  /\ GoOn
  /\ UNCHANGED <<calleeIdx, stackBytes, copies, pool>>

\* A parameter that lives across a call leaves its argument register.
ParamMoved ==
  /\ InPhase("params", func.params)
  /\ at <= Len(IntArgs)
  /\ CrossesCall(at)
  /\ CalleeSavedOrStack(at)
  /\ copies' = Append(copies, <<IntArgs[at], at>>)
  /\ GoOn
  /\ UNCHANGED pool

ParamStays ==
  /\ InPhase("params", func.params)
  /\ at <= Len(IntArgs)
  /\ ~CrossesCall(at)
  /\ Bind(at, Reg(IntArgs[at]))
  /\ GoOn
  /\ UNCHANGED <<calleeIdx, stackBytes, copies, pool>>

ParamsEnd == PhaseEnds("params", func.params, "temps")

-----------------------------------------------------------------------------
\* Pass A: temporaries, and variables whose first value is an expression.

LastVReg == Cardinality(VRegs(func))

\* Whose turn it is in pass A: bound parameters and forced-stack variables are
\* passed over.
Temp(v) == v \notin DOMAIN loc /\ ~meta[v].isVar

TempBoundOrVar ==
  /\ InPhase("temps", LastVReg)
  /\ ~Temp(at)
  /\ GoOn
  /\ UNCHANGED <<loc, calleeIdx, stackBytes, copies, pool>>

\* No call takes v: it may be the return value, an operand, or dead.
NoCallTakes(v) == meta[v].calls = {}

\* Mutation: the only return value always goes to %rax.
RaxSafeAlways(v) == TRUE

\* %rax is scratch to most of the emitter, so it holds the only return value
\* only when no code comes between its definition and the return.
RaxSafe(v) == \A k \in (meta[v].def + 1)..(meta[v].liveEnd - 1) : Silent(func.code[k])

OnlyReturnValue(v) == meta[v].isRet /\ Cardinality({u \in VRegs(func) : meta[u].isRet}) = 1

TempInRax ==
  /\ InPhase("temps", LastVReg)
  /\ Temp(at) /\ NoCallTakes(at)
  /\ OnlyReturnValue(at) /\ RaxSafe(at)
  /\ Bind(at, Reg(Rax))
  /\ GoOn
  /\ UNCHANGED <<calleeIdx, stackBytes, copies, pool>>

TempKept ==
  /\ InPhase("temps", LastVReg)
  /\ Temp(at) /\ NoCallTakes(at)
  /\ meta[at].isRet \/ meta[at].plain
  /\ ~(OnlyReturnValue(at) /\ RaxSafe(at))
  /\ CalleeSavedOrStack(at)
  /\ GoOn
  /\ UNCHANGED <<copies, pool>>

TempDead ==
  /\ InPhase("temps", LastVReg)
  /\ Temp(at) /\ NoCallTakes(at)
  /\ ~meta[at].isRet /\ ~meta[at].plain
  /\ GoOn
  /\ UNCHANGED <<loc, calleeIdx, stackBytes, copies, pool>>

\* Mutation: a value read again after the call that takes it is not kept.
OutlivesBetweenOnly(v) ==
  \/ Cardinality(meta[v].calls) > 1
  \/ \E use \in meta[v].calls : \E c \in Calls(func) : meta[v].def < c /\ c < use[1]

\* needs_callee_saved: taken more than once, alive across another call, or
\* read again after the call that takes it.
Outlives(v) ==
  \/ Cardinality(meta[v].calls) > 1
  \/ \E use \in meta[v].calls : \/ \E c \in Calls(func) : meta[v].def < c /\ c < use[1]
                              \/ meta[v].liveEnd > use[1]

CallOf(v)    == (CHOOSE use \in meta[v].calls : TRUE)[1]
Desired(v)   == IntArgs[(CHOOSE use \in meta[v].calls : TRUE)[2]]

AtLeastFirst(k) == IF k = 0 THEN 1 ELSE k

\* The desired register holds a value still live where v is defined.  An
\* occupant that dies there does not count.
Occupied(v) ==
  \E u \in DOMAIN loc : /\ loc[u] = Reg(Desired(v))
                      /\ AtLeastFirst(meta[u].def) <= meta[v].def
                      /\ meta[u].liveEnd > meta[v].def

\* Mutation: divisions are not looked at.
DividedNever(v) == FALSE

\* A division between v and its call would overwrite it.
Divided(v) ==
  /\ Desired(v) \in {Rax, Rdx}
  /\ \E d \in DivMods(func) : meta[v].def < d /\ d < CallOf(v)

TempInArgReg ==
  /\ InPhase("temps", LastVReg)
  /\ Temp(at) /\ ~NoCallTakes(at)
  /\ ~Outlives(at) /\ ~Occupied(at) /\ ~Divided(at)
  /\ Bind(at, Reg(Desired(at)))
  /\ GoOn
  /\ UNCHANGED <<calleeIdx, stackBytes, copies, pool>>

TempForCallKept ==
  /\ InPhase("temps", LastVReg)
  /\ Temp(at) /\ ~NoCallTakes(at)
  /\ Outlives(at) \/ Occupied(at) \/ Divided(at)
  /\ CalleeSavedOrStack(at)
  /\ GoOn
  /\ UNCHANGED <<copies, pool>>

TempsEnd == PhaseEnds("temps", LastVReg, "vars")

-----------------------------------------------------------------------------
\* Pass B: variables, in the order the instructions define them; a block's end
\* gives the slots of its variables back.

VarsDefinedAt(k) == {v \in VRegs(func) : meta[v].isVar /\ meta[v].def = k /\ v \notin DOMAIN loc}

VarSlot(v) ==
  LET free == pool[func.width[v]] IN
  \/ /\ free # << >>
     /\ Bind(v, Stack(free[Len(free)]))
     /\ pool' = [pool EXCEPT ![func.width[v]] = SubSeq(free, 1, Len(free) - 1)]
     /\ UNCHANGED stackBytes
  \/ /\ free = << >>
     /\ FreshSlot(v)
     /\ UNCHANGED pool

VarDefined ==
  /\ InPhase("vars", Len(func.code))
  /\ \E v \in VarsDefinedAt(at) : VarSlot(v)
  /\ GoOn
  /\ UNCHANGED <<calleeIdx, copies>>

Leaving == InPhase("vars", Len(func.code)) /\ func.code[at].op = "leave"

\* Mutation: the slot goes to the pool of every size.
GiveBackToAll ==
  /\ Leaving
  /\ given < Len(func.code[at].src)
  /\ LET v == func.code[at].src[given + 1]
     IN  pool' = IF v \in DOMAIN loc /\ IsStack(loc[v])
                 THEN [size \in DOMAIN pool |-> Append(pool[size], loc[v].off)]
                 ELSE pool
  /\ given' = given + 1
  /\ UNCHANGED <<func, phase, at, meta, loc, calleeIdx, stackBytes, copies, blockOffs, frameSize>>

\* One of the leaving block's variables gives its slot back.
GiveBack ==
  /\ Leaving
  /\ given < Len(func.code[at].src)
  /\ LET v == func.code[at].src[given + 1]
     IN  pool' = IF v \in DOMAIN loc /\ IsStack(loc[v])
                 THEN [pool EXCEPT ![func.width[v]] = Append(@, loc[v].off)]
                 ELSE pool
  /\ given' = given + 1
  /\ UNCHANGED <<func, phase, at, meta, loc, calleeIdx, stackBytes, copies, blockOffs, frameSize>>

BlockLeft ==
  /\ Leaving
  /\ given = Len(func.code[at].src)
  /\ GoOn
  /\ UNCHANGED <<loc, calleeIdx, stackBytes, copies, pool>>

NoVarHere ==
  /\ InPhase("vars", Len(func.code))
  /\ VarsDefinedAt(at) = {}
  /\ func.code[at].op # "leave"
  /\ GoOn
  /\ UNCHANGED <<loc, calleeIdx, stackBytes, copies, pool>>

VarsEnd == PhaseEnds("vars", Len(func.code), "frame")

-----------------------------------------------------------------------------
\* The frame: room for the saved registers at the top, frame blocks below.

SaveArea == calleeIdx * 8

\* Mutation: no room is made for the saved registers.
ShiftedNot(l) == l

Shifted(l) == IF IsStack(l) /\ l.off < 0 THEN Stack(l.off - SaveArea) ELSE l

MakeSaveArea ==
  /\ phase = "frame"
  /\ loc' = [v \in DOMAIN loc |-> Shifted(loc[v])]
  /\ stackBytes' = stackBytes + SaveArea
  /\ phase' = "blocks"
  /\ UNCHANGED <<func, at, given, meta, calleeIdx, copies, pool, blockOffs, frameSize>>

\* Mutation: the block's top is aligned instead of its address.
LayBlockTopAligned ==
  /\ InPhase("blocks", Len(func.blocks))
  /\ LET b == func.blocks[at]
         s == AlignUp(stackBytes, b.align) + b.size
     IN  /\ blockOffs' = Append(blockOffs, -s)
         /\ stackBytes' = s
  /\ at' = at + 1
  /\ UNCHANGED <<func, phase, given, meta, loc, calleeIdx, copies, pool, frameSize>>

\* The next block ends where the last one began, rounded down to its alignment.
LayBlock ==
  /\ InPhase("blocks", Len(func.blocks))
  /\ LET b == func.blocks[at]
         s == AlignUp(stackBytes + b.size, b.align)
     IN  /\ blockOffs' = Append(blockOffs, -s)
         /\ stackBytes' = s
  /\ at' = at + 1
  /\ UNCHANGED <<func, phase, given, meta, loc, calleeIdx, copies, pool, frameSize>>

\* %rbp is 16-byte aligned and the frame a multiple of that.
CloseFrame ==
  /\ phase = "blocks"
  /\ at > Len(func.blocks)
  /\ frameSize' = AlignUp(stackBytes, 16)
  /\ phase' = "done"
  /\ UNCHANGED <<func, at, given, meta, loc, calleeIdx, stackBytes, copies, pool, blockOffs>>

-----------------------------------------------------------------------------

AllocParam == ParamOnCallersStack \/ ParamMoved \/ ParamStays \/ ParamsEnd
AllocTemp == \/ TempBoundOrVar \/ TempInRax \/ TempKept \/ TempDead
             \/ TempInArgReg \/ TempForCallKept \/ TempsEnd
AllocVar == VarDefined \/ GiveBack \/ BlockLeft \/ NoVarHere \/ VarsEnd
AllocFrame == MakeSaveArea \/ LayBlock \/ CloseFrame

Allocate == CollectMeta \/ AllocParam \/ AllocTemp \/ AllocVar \/ AllocFrame

AllocSpec == Init /\ [][Allocate]_avars /\ WF_avars(Allocate)

-----------------------------------------------------------------------------

Bytes(v) == loc[v].off .. (loc[v].off + func.width[v] - 1)

Overlap(u, v) == IF IsStack(loc[u]) /\ IsStack(loc[v]) THEN Bytes(u) \cap Bytes(v) # {}
                 ELSE loc[u] = loc[v]

\* Two VRegs that are alive together share no register and no byte of the
\* stack.  (At the instruction where one dies and the other begins they may.)
AliveApart ==
  phase = "done" =>
    \A u, v \in DOMAIN loc :
      u # v /\ meta[u].def <= meta[v].def /\ meta[v].def < meta[u].liveEnd => ~Overlap(u, v)

BlockTop(k) == blockOffs[k] + func.blocks[k].size
LocalSlots == {v \in DOMAIN loc : IsStack(loc[v]) /\ loc[v].off < 0}

\* The frame has room for everything in it: the save area at the top, then
\* aligned slots clear of it, then aligned blocks clear of the slots, of the
\* save area and of each other, all above the frame's 16-byte-aligned end.
FrameHolds ==
  phase = "done" =>
    /\ frameSize % 16 = 0
    /\ \A v \in LocalSlots : /\ loc[v].off % func.width[v] = 0
                            /\ loc[v].off >= -frameSize
                            /\ loc[v].off + func.width[v] <= -SaveArea
    /\ \A k \in DOMAIN func.blocks :
         /\ blockOffs[k] % func.blocks[k].align = 0
         /\ blockOffs[k] >= -frameSize
         /\ BlockTop(k) <= -SaveArea
         /\ \A v \in LocalSlots : BlockTop(k) <= loc[v].off
         /\ \A j \in 1..(k - 1) : BlockTop(k) <= blockOffs[j]

\* "%rax and %rdx are clobbered by every Div/Mod instruction": no value that
\* lives across a division is in either of them.
DivisionSparesLiveValues ==
  phase = "done" =>
    \A d \in DivMods(func), v \in DOMAIN loc :
      meta[v].def < d /\ d < meta[v].liveEnd => loc[v] \notin {Reg(Rax), Reg(Rdx)}
=============================================================================
