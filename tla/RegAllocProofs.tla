--------------------------- MODULE RegAllocProofs ----------------------------
(***************************************************************************)
(* The layout of the frame that RegAlloc computes, and that VRegs that are *)
(* alive together get different places, proved for every function: any     *)
(* number of parameters, VRegs, blocks, frame blocks and registers.        *)
(***************************************************************************)
EXTENDS RegAlloc, LeastNats, SequenceTheorems, FiniteSetTheorems, TLAPS

\* size bytes at offset o, aligned, between -low and high.
Fits(o, size, low, high) == o % size = 0 /\ -low <= o /\ o + size <= high

Placing == phase \notin {"blocks", "done"}

\* Parameters above %rbp are the only stack locations that are not local.
LocsTyped ==
  /\ DOMAIN loc \subseteq VRegs(func)
  /\ \A v \in DOMAIN loc : /\ loc[v].off \in Int
                           /\ IsStack(loc[v]) => /\ loc[v].off # 0
                                                 /\ loc[v].off > 0 => v \in Params(func)

Typed ==
  /\ func \in Funcs
  /\ at \in Nat \ {0}
  /\ given \in Nat
  /\ calleeIdx \in 0..Len(CalleeSaved)
  /\ stackBytes \in Nat
  /\ pool \in [Sizes -> Seq(Int)]
  /\ blockOffs \in Seq(Int)
  /\ LocsTyped

SlotsFit(low, high) ==
  \A v \in LocalSlots : Fits(loc[v].off, func.width[v], low, high)

PoolFits == \A size \in Sizes : \A k \in DOMAIN pool[size] :
              Fits(pool[size][k], size, stackBytes, 0)

BlocksFit ==
  \A k \in DOMAIN blockOffs :
    /\ k \in DOMAIN func.blocks
    /\ blockOffs[k] % func.blocks[k].align = 0
    /\ blockOffs[k] >= -stackBytes
    /\ BlockTop(k) <= -SaveArea
    /\ \A v \in LocalSlots : BlockTop(k) <= loc[v].off
    /\ \A j \in 1..(k - 1) : BlockTop(k) <= blockOffs[j]

\* While VRegs are being placed, everything used or given back fits in the
\* bytes taken; then the save area is above it and the blocks below.
FInv ==
  /\ Typed
  /\ Placing => /\ SlotsFit(stackBytes, 0)
                /\ PoolFits
                /\ blockOffs = << >>
  /\ ~Placing => /\ SlotsFit(stackBytes, -SaveArea)
                 /\ SaveArea <= stackBytes
                 /\ BlocksFit
  /\ phase = "blocks" => Len(blockOffs) = at - 1 /\ at <= Len(func.blocks) + 1
  /\ phase = "done" => /\ Len(blockOffs) = Len(func.blocks)
                       /\ frameSize \in Nat /\ frameSize >= stackBytes
                       /\ frameSize % 16 = 0

\* After the first pass, meta is what that pass collects and stays so; the
\* frame is begun with at reset.
MInv == /\ phase # "meta" => meta = [v \in VRegs(func) |-> MetaOf(func, v)]
        /\ phase = "frame" => at = 1

-----------------------------------------------------------------------------

\* Rounding up to a power of two stays within a step and is a multiple.
LEMMA AlignUpRounds ==
  ASSUME NEW n \in Nat, NEW a \in {1, 2, 4, 8, 16}
  PROVE  /\ AlignUp(n, a) \in Nat
         /\ AlignUp(n, a) >= n
         /\ AlignUp(n, a) % a = 0
         /\ (-AlignUp(n, a)) % a = 0
<1>1. CASE a = 1  BY <1>1 DEF AlignUp
<1>2. CASE a = 2  BY <1>2 DEF AlignUp
<1>3. CASE a = 4  BY <1>3 DEF AlignUp
<1>4. CASE a = 8  BY <1>4 DEF AlignUp
<1>5. CASE a = 16 BY <1>5 DEF AlignUp
<1> QED BY <1>1, <1>2, <1>3, <1>4, <1>5

\* What is aligned at a size stays aligned when moved by a save area.
LEMMA SlotShifts ==
  ASSUME NEW o \in Int, NEW size \in Sizes, NEW n \in Nat, o % size = 0
  PROVE  (o - n * 8) % size = 0
<1>1. CASE size = 1 BY <1>1
<1>2. CASE size = 2 BY <1>2
<1>3. CASE size = 4 BY <1>3
<1>4. CASE size = 8 BY <1>4
<1> QED BY <1>1, <1>2, <1>3, <1>4 DEF Sizes

\* The stack slot below everything taken so far is aligned and in bounds.
LEMMA FreshFits ==
  ASSUME NEW n \in Nat, NEW size \in Sizes
  PROVE  /\ AlignUp(n, size) + size \in Nat
         /\ AlignUp(n, size) + size > n
         /\ Fits(-(AlignUp(n, size) + size), size, AlignUp(n, size) + size, 0)
<1>1. CASE size = 1 BY <1>1 DEF AlignUp, Fits
<1>2. CASE size = 2 BY <1>2 DEF AlignUp, Fits
<1>3. CASE size = 4 BY <1>3 DEF AlignUp, Fits
<1>4. CASE size = 8 BY <1>4 DEF AlignUp, Fits
<1> QED BY <1>1, <1>2, <1>3, <1>4 DEF Sizes

-----------------------------------------------------------------------------

\* What the assumption on the functions says of one of them.
LEMMA OneFunction ==
  ASSUME func \in Funcs
  PROVE  /\ Len(func.width) \in Nat
         /\ VRegs(func) = 1..Len(func.width)
         /\ \A v \in VRegs(func) : func.width[v] \in Sizes
         /\ func.params \in 0..Len(func.width)
         /\ Params(func) \subseteq VRegs(func)
         /\ func.blocks \in Seq([size : Nat, align : {1, 2, 4, 8, 16}])
<1>1. WellFormed(func)
  BY FuncsAreWellFormed
<1> QED
  BY <1>1 DEF WellFormed, VRegs, Params

\* Giving v a place that fits keeps the places of the others.
LEMMA BindFits ==
  ASSUME Typed, SlotsFit(stackBytes, 0),
         NEW v \in VRegs(func), NEW l, Bind(v, l), l.off \in Int,
         IsStack(l) => l.off # 0 /\ (l.off > 0 => v \in Params(func)),
         IsStack(l) /\ l.off < 0 => Fits(l.off, func.width[v], stackBytes', 0),
         func' = func, stackBytes' \in Nat, stackBytes' >= stackBytes
  PROVE  LocsTyped' /\ SlotsFit(stackBytes, 0)'
<1>1. /\ DOMAIN loc' = DOMAIN loc \cup {v}
      /\ loc'[v] = l
      /\ \A u \in DOMAIN loc : u # v => loc'[u] = loc[u]
  BY DEF Bind
<1>2. LocsTyped'
  BY <1>1 DEF Typed, LocsTyped, IsStack, VRegs
<1>3. \A u \in LocalSlots' : Fits(loc'[u].off, func.width[u], stackBytes', 0)
  <2> SUFFICES ASSUME NEW u \in LocalSlots'
               PROVE  Fits(loc'[u].off, func.width[u], stackBytes', 0)
    OBVIOUS
  <2>1. CASE u = v
    BY <2>1, <1>1 DEF LocalSlots, IsStack
  <2>2. CASE u # v
    <3>1. u \in LocalSlots /\ loc'[u] = loc[u]
      BY <2>2, <1>1 DEF LocalSlots, IsStack
    <3>2. Fits(loc[u].off, func.width[u], stackBytes, 0)
      BY <3>1 DEF SlotsFit
    <3>3. loc[u].off \in Int
      BY <3>1 DEF LocalSlots, Typed, LocsTyped
    <3> QED
      BY <3>1, <3>2, <3>3 DEF Fits, Typed
  <2> QED
    BY <2>1, <2>2
<1> QED
  BY <1>2, <1>3 DEF SlotsFit

\* A slot below everything taken keeps the layout.
LEMMA FreshSlotFits ==
  ASSUME Typed, SlotsFit(stackBytes, 0), NEW v \in VRegs(func), FreshSlot(v), func' = func
  PROVE  /\ stackBytes' \in Nat /\ stackBytes' >= stackBytes
         /\ LocsTyped' /\ SlotsFit(stackBytes, 0)'
<1> DEFINE size == func.width[v]
           top == AlignUp(stackBytes, size) + size
<1>1. size \in Sizes /\ stackBytes \in Nat
  BY OneFunction DEF Typed
<1>2. stackBytes' = top /\ Bind(v, Stack(-top))
  BY DEF FreshSlot
<1>3. top \in Nat /\ top > stackBytes /\ Fits(-top, size, top, 0)
  BY <1>1, FreshFits
<1>4. Stack(-top).off = -top /\ -top \in Int /\ -top < 0
  BY <1>1, <1>3 DEF Stack
<1> HIDE DEF top
<1>5. LocsTyped' /\ SlotsFit(stackBytes, 0)'
  BY <1>1, <1>2, <1>3, <1>4, BindFits
<1> QED
  BY <1>1, <1>2, <1>3, <1>5

\* So does a temporary's slot, fresh or one whose occupants have ended.
LEMMA TempSlotFits ==
  ASSUME Typed, SlotsFit(stackBytes, 0), NEW v \in VRegs(func), TempSlot(v), func' = func
  PROVE  /\ stackBytes' \in Nat /\ stackBytes' >= stackBytes
         /\ LocsTyped' /\ SlotsFit(stackBytes, 0)'
<1>1. CASE FreshSlot(v)
  BY <1>1, FreshSlotFits
<1>2. ASSUME NEW o \in ExpiredSlots(v), Bind(v, Stack(o)), UNCHANGED stackBytes
      PROVE  /\ stackBytes' \in Nat /\ stackBytes' >= stackBytes
             /\ LocsTyped' /\ SlotsFit(stackBytes, 0)'
  <2>1. PICK u \in LocalSlots : o = loc[u].off /\ func.width[u] = func.width[v]
    BY DEF ExpiredSlots, SlotMates, LocalSlots
  <2>2. Fits(o, func.width[v], stackBytes, 0) /\ o \in Int /\ o < 0
    BY <2>1 DEF SlotsFit, LocalSlots, Typed, LocsTyped
  <2>3. Stack(o).off = o
    BY DEF Stack
  <2>4. stackBytes' = stackBytes /\ stackBytes \in Nat
    BY <1>2 DEF Typed
  <2> QED
    BY <1>2, <2>2, <2>3, <2>4, BindFits
<1> QED
  BY <1>1, <1>2 DEF TempSlot

\* And a register or a slot.
LEMMA CalleeSavedOrStackFits ==
  ASSUME Typed, SlotsFit(stackBytes, 0), NEW v \in VRegs(func), CalleeSavedOrStack(v),
         func' = func
  PROVE  /\ stackBytes' \in Nat /\ stackBytes' >= stackBytes
         /\ calleeIdx' \in 0..Len(CalleeSaved)
         /\ LocsTyped' /\ SlotsFit(stackBytes, 0)'
<1>1. CASE /\ calleeIdx < Len(CalleeSaved)
           /\ Bind(v, Reg(CalleeSaved[calleeIdx + 1]))
           /\ calleeIdx' = calleeIdx + 1
           /\ UNCHANGED stackBytes
  <2>1. CalleeSaved[calleeIdx + 1] \in STRING \ {""} /\ Len(CalleeSaved) \in Nat
    <3>1. Len(CalleeSaved) \in Nat
      BY LenProperties, RegistersAreNamed
    <3>2. calleeIdx + 1 \in 1..Len(CalleeSaved)
      BY <1>1, <3>1 DEF Typed
    <3> QED
      BY <3>1, <3>2, ElementOfSeq, RegistersAreNamed
  <2> DEFINE l == Reg(CalleeSaved[calleeIdx + 1])
  <2>2. l.off = 0 /\ ~IsStack(l)
    BY <2>1 DEF Reg, IsStack
  <2>3. stackBytes' = stackBytes /\ stackBytes \in Nat
    BY <1>1 DEF Typed
  <2>4. Bind(v, l)
    BY <1>1
  <2> HIDE DEF l
  <2>6. LocsTyped' /\ SlotsFit(stackBytes, 0)'
    BY <2>2, <2>3, <2>4, BindFits
  <2>5. calleeIdx' \in 0..Len(CalleeSaved)
    <3>1. calleeIdx \in 0..Len(CalleeSaved)
      BY DEF Typed
    <3>2. calleeIdx < Len(CalleeSaved) /\ calleeIdx' = calleeIdx + 1
      BY <1>1
    <3>3. Len(CalleeSaved) \in Nat
      BY <2>1
    <3> QED
      BY ONLY <3>1, <3>2, <3>3
  <2> QED
    BY <2>3, <2>5, <2>6
<1>2. CASE calleeIdx' = calleeIdx /\ (FreshSlot(v) \/ TempSlot(v))
  BY <1>2, FreshSlotFits, TempSlotFits DEF Typed
<1> QED
  BY <1>1, <1>2 DEF CalleeSavedOrStack

-----------------------------------------------------------------------------

\* Before anything is placed, everything fits.
LEMMA InitFInv == Init => FInv
<1> SUFFICES ASSUME Init PROVE FInv
  OBVIOUS
<1>1. LocsTyped /\ LocalSlots = {}
  BY DEF Init, LocsTyped, LocalSlots
<1>2. Len(CalleeSaved) \in Nat
  BY LenProperties, RegistersAreNamed
<1>3. Typed
  BY <1>1, <1>2 DEF Init, Typed
<1>4. SlotsFit(stackBytes, 0) /\ PoolFits
  BY <1>1 DEF SlotsFit, PoolFits, Init
<1> QED
  BY <1>3, <1>4 DEF FInv, Init, Placing

\* A step of the placing phases keeps the layout if the slots and the pool fit.
LEMMA LayoutStep ==
  ASSUME FInv, Placing, Placing',
         func' = func, at' \in Nat \ {0}, given' \in Nat,
         calleeIdx' \in 0..Len(CalleeSaved), stackBytes' \in Nat,
         LocsTyped', SlotsFit(stackBytes, 0)',
         pool' \in [Sizes -> Seq(Int)], PoolFits', blockOffs' = blockOffs
  PROVE  FInv'
<1>1. Typed'
  BY DEF FInv, Typed
<1> QED
  BY <1>1 DEF FInv, Placing

\* What fits in the pool fits when more bytes are taken.
LEMMA PoolStays ==
  ASSUME Typed, PoolFits, pool' = pool, stackBytes' \in Nat, stackBytes' >= stackBytes
  PROVE  pool' \in [Sizes -> Seq(Int)] /\ PoolFits'
<1>1. pool' \in [Sizes -> Seq(Int)]
  BY DEF Typed
<1>2. PoolFits'
  <2> SUFFICES ASSUME NEW size \in Sizes, NEW k \in DOMAIN pool[size]
               PROVE  Fits(pool[size][k], size, stackBytes', 0)
    BY DEF PoolFits
  <2>1. Fits(pool[size][k], size, stackBytes, 0)
    BY DEF PoolFits
  <2>2. pool[size][k] \in Int /\ stackBytes \in Nat
    BY DEF Typed
  <2> QED
    BY <2>1, <2>2 DEF Fits
<1> QED
  BY <1>1, <1>2

\* A step that places at most one VReg and moves on keeps the layout.
LEMMA PlacingStep ==
  ASSUME FInv, Placing, Placing',
         func' = func, at' \in Nat \ {0}, given' \in Nat,
         calleeIdx' \in 0..Len(CalleeSaved), stackBytes' \in Nat, stackBytes' >= stackBytes,
         LocsTyped', SlotsFit(stackBytes, 0)',
         pool' = pool, blockOffs' = blockOffs
  PROVE  FInv'
<1>1. pool' \in [Sizes -> Seq(Int)] /\ PoolFits'
  BY PoolStays DEF FInv
<1> QED
  BY <1>1, LayoutStep

\* A step of the placing phases that places nothing.
LEMMA NothingPlaced ==
  ASSUME FInv, Placing, Placing',
         UNCHANGED <<func, loc, calleeIdx, stackBytes, pool, blockOffs>>,
         at' \in Nat \ {0}, given' \in Nat
  PROVE  FInv'
<1>1. /\ func' = func /\ loc' = loc /\ calleeIdx' = calleeIdx /\ stackBytes' = stackBytes
      /\ pool' = pool /\ blockOffs' = blockOffs
  OBVIOUS
<1>2. Typed /\ SlotsFit(stackBytes, 0)
  BY DEF FInv
<1>3. LocsTyped' /\ SlotsFit(stackBytes, 0)'
  BY <1>1, <1>2 DEF Typed, LocsTyped, SlotsFit, LocalSlots, VRegs, Params
<1>4. calleeIdx' \in 0..Len(CalleeSaved) /\ stackBytes' \in Nat /\ stackBytes' >= stackBytes
  BY <1>1, <1>2 DEF Typed
<1> QED
  BY <1>1, <1>3, <1>4, PlacingStep

\* The step from one placing phase to the next places nothing.
LEMMA PhaseEndsFInv ==
  ASSUME FInv, Placing, NEW p, NEW last, NEW next, next \notin {"blocks", "done"},
         PhaseEnds(p, last, next)
  PROVE  FInv'
<1>1. given \in Nat
  BY DEF FInv, Typed
<1>2. Placing' /\ at' = 1 /\ given' = given
  BY DEF PhaseEnds, Placing
<1>3. /\ func' = func /\ loc' = loc /\ calleeIdx' = calleeIdx
      /\ stackBytes' = stackBytes /\ pool' = pool /\ blockOffs' = blockOffs
  BY DEF PhaseEnds
<1>4. at' \in Nat \ {0} /\ given' \in Nat
  BY <1>1, <1>2
<1> QED
  BY <1>2, <1>3, <1>4, NothingPlaced

-----------------------------------------------------------------------------

\* The parameters are placed in registers, above %rbp or in slots that fit.
LEMMA ParamsFInv == FInv /\ AllocParam => FInv'
<1> SUFFICES ASSUME FInv, AllocParam PROVE FInv'
  OBVIOUS
<1> USE DEF InPhase, GoOn
<1>1. Typed /\ Placing /\ SlotsFit(stackBytes, 0) /\ phase = "params"
  BY DEF FInv, AllocParam, Placing, ParamOnCallersStack, ParamMoved, ParamStays, ParamsEnd,
         PhaseEnds
<1>2. calleeIdx \in 0..Len(CalleeSaved) /\ stackBytes \in Nat /\ at \in Nat \ {0}
  BY <1>1 DEF Typed
<1>3. ASSUME at <= func.params PROVE at \in VRegs(func) /\ at \in Params(func)
  BY <1>1, <1>2, <1>3, OneFunction DEF Typed, Params
<1>4. CASE ParamOnCallersStack
  <2>1. at \in VRegs(func) /\ at \in Params(func)
    BY <1>3, <1>4 DEF ParamOnCallersStack
  <2> DEFINE l == Stack((at - Len(IntArgs) + 1) * 8)
  <2>2. Len(IntArgs) \in Nat /\ at > Len(IntArgs)
    BY <1>4, LenProperties, RegistersAreNamed DEF ParamOnCallersStack
  <2>3. l.off \in Int /\ l.off > 0
    BY <1>2, <2>2 DEF Stack
  <2>4. Bind(at, l) /\ Placing' /\ func' = func /\ stackBytes' = stackBytes
    BY <1>1, <1>4 DEF ParamOnCallersStack, Placing
  <2>5. at' \in Nat \ {0} /\ given' \in Nat /\ calleeIdx' = calleeIdx
    BY <1>2, <1>4 DEF ParamOnCallersStack
  <2>6. pool' = pool /\ blockOffs' = blockOffs
    BY <1>4 DEF ParamOnCallersStack
  <2> HIDE DEF l
  <2>7. LocsTyped' /\ SlotsFit(stackBytes, 0)'
    BY <1>1, <1>2, <2>1, <2>3, <2>4, BindFits
  <2> QED
    BY <1>1, <1>2, <2>4, <2>5, <2>6, <2>7, PlacingStep
<1>5. CASE ParamMoved
  <2>1. at \in VRegs(func)
    BY <1>3, <1>5 DEF ParamMoved
  <2>2. CalleeSavedOrStack(at) /\ func' = func
    BY <1>5 DEF ParamMoved
  <2>3. /\ stackBytes' \in Nat /\ stackBytes' >= stackBytes
        /\ calleeIdx' \in 0..Len(CalleeSaved)
        /\ LocsTyped' /\ SlotsFit(stackBytes, 0)'
    BY <1>1, <2>1, <2>2, CalleeSavedOrStackFits
  <2>4. Placing' /\ at' \in Nat \ {0} /\ given' \in Nat /\ pool' = pool /\ blockOffs' = blockOffs
    BY <1>1, <1>2, <1>5 DEF ParamMoved, Placing
  <2> QED
    BY <1>1, <2>2, <2>3, <2>4, PlacingStep
<1>6. CASE ParamStays
  <2>1. at \in VRegs(func)
    BY <1>3, <1>6 DEF ParamStays
  <2> DEFINE l == Reg(IntArgs[at])
  <2>2. IntArgs[at] # "" /\ l.off = 0 /\ ~IsStack(l)
    <3>1. Len(IntArgs) \in Nat /\ at <= Len(IntArgs)
      BY <1>6, LenProperties, RegistersAreNamed DEF ParamStays
    <3>2. at \in 1..Len(IntArgs)
      BY <1>2, <3>1
    <3>3. IntArgs[at] \in STRING \ {""}
      BY <3>2, ElementOfSeq, RegistersAreNamed
    <3> QED
      BY <3>3 DEF Reg, IsStack
  <2>3. Bind(at, l) /\ Placing' /\ func' = func /\ stackBytes' = stackBytes
    BY <1>1, <1>6 DEF ParamStays, Placing
  <2>4. at' \in Nat \ {0} /\ given' \in Nat /\ calleeIdx' = calleeIdx
    BY <1>2, <1>6 DEF ParamStays
  <2>5. pool' = pool /\ blockOffs' = blockOffs
    BY <1>6 DEF ParamStays
  <2> HIDE DEF l
  <2>7. l.off \in Int /\ stackBytes' \in Nat /\ stackBytes' >= stackBytes
    <3>1. stackBytes \in Nat /\ stackBytes' = stackBytes
      BY <1>2, <2>3
    <3>2. l.off = 0
      BY <2>2
    <3> QED
      BY <3>1, <3>2
  <2>6. LocsTyped' /\ SlotsFit(stackBytes, 0)'
    BY <1>1, <2>1, <2>2, <2>3, <2>7, BindFits
  <2> QED
    BY <1>1, <1>2, <2>3, <2>4, <2>5, <2>6, PlacingStep
<1>7. CASE ParamsEnd
  BY <1>1, <1>7, PhaseEndsFInv DEF ParamsEnd
<1> QED
  BY <1>4, <1>5, <1>6, <1>7 DEF AllocParam

-----------------------------------------------------------------------------

\* A temporary that a call takes is wanted in one of the argument registers.
LEMMA DesiredIsNamed ==
  ASSUME MInv, phase # "meta", NEW v \in VRegs(func), ~NoCallTakes(v)
  PROVE  Desired(v) \in STRING \ {""}
<1> DEFINE use == CHOOSE u \in meta[v].calls : TRUE
<1>1. meta[v].calls = CallUses(func, v)
  BY DEF MInv, MetaOf
<1>2. use \in CallUses(func, v)
  BY <1>1, SMTT(30) DEF NoCallTakes
<1>3. use[2] \in 1..Len(IntArgs)
  BY <1>2 DEF CallUses
<1>4. IntArgs[use[2]] \in STRING \ {""}
  BY <1>3, ElementOfSeq, RegistersAreNamed
<1> QED
  BY <1>4 DEF Desired

\* Pass A places temporaries in registers or in slots that fit.
LEMMA TempsFInv == FInv /\ MInv /\ AllocTemp => FInv'
<1> SUFFICES ASSUME FInv, MInv, AllocTemp PROVE FInv'
  OBVIOUS
<1> USE DEF InPhase, GoOn
<1>1. Typed /\ Placing /\ SlotsFit(stackBytes, 0) /\ phase = "temps"
  BY DEF FInv, AllocTemp, Placing, TempBoundOrVar, TempInRax, TempKept, TempDead,
         TempInArgReg, TempForCallKept, TempsEnd, PhaseEnds
<1>2. calleeIdx \in 0..Len(CalleeSaved) /\ stackBytes \in Nat /\ at \in Nat \ {0}
  BY <1>1 DEF Typed
<1>3. ASSUME at <= LastVReg PROVE at \in VRegs(func)
  <2>1. Len(func.width) \in Nat /\ VRegs(func) = 1..Len(func.width)
    BY <1>1, OneFunction DEF Typed
  <2>2. LastVReg = Len(func.width)
    BY <2>1, FS_Interval DEF LastVReg
  <2> QED
    BY <1>2, <1>3, <2>1, <2>2
<1>4. ASSUME NEW r, r # "", Bind(at, Reg(r)), at <= LastVReg, GoOn,
             UNCHANGED <<calleeIdx, stackBytes, pool>>
      PROVE  FInv'
  <2> DEFINE l == Reg(r)
  <2>1. l.off = 0 /\ ~IsStack(l)
    BY <1>4 DEF Reg, IsStack
  <2>8. Bind(at, l) /\ at <= LastVReg
    BY <1>4
  <2> HIDE DEF l
  <2>9. /\ at' = at + 1 /\ given' = 0 /\ func' = func /\ phase' = phase /\ blockOffs' = blockOffs
        /\ calleeIdx' = calleeIdx /\ stackBytes' = stackBytes /\ pool' = pool
    BY <1>4
  <2>2. Bind(at, l) /\ Placing' /\ func' = func /\ stackBytes' = stackBytes
    BY <1>1, <2>8, <2>9 DEF Placing
  <2>3. at' \in Nat \ {0} /\ given' \in Nat
    <3>1. at \in Nat \ {0}
      BY <1>2
    <3>2. at' = at + 1 /\ given' = 0
      BY <2>9
    <3> QED
      BY ONLY <3>1, <3>2
  <2>4. pool' = pool /\ blockOffs' = blockOffs /\ calleeIdx' = calleeIdx
    BY <2>9
  <2>5. at \in VRegs(func)
    BY <1>3, <2>8
  <2>7. l.off \in Int /\ stackBytes' \in Nat /\ stackBytes' >= stackBytes
    <3>1. stackBytes \in Nat /\ stackBytes' = stackBytes
      BY <1>2, <2>9
    <3>2. l.off = 0
      BY <2>1
    <3> QED
      BY ONLY <3>1, <3>2
  <2>6. LocsTyped' /\ SlotsFit(stackBytes, 0)'
    BY <1>1, <2>1, <2>2, <2>5, <2>7, BindFits
  <2> QED
    <3>1. calleeIdx' \in 0..Len(CalleeSaved)
      BY <1>2, <2>4
    <3> QED
      BY <1>1, <2>2, <2>3, <2>4, <2>6, <2>7, <3>1, PlacingStep
<1>5. ASSUME CalleeSavedOrStack(at), at <= LastVReg, GoOn, pool' = pool
      PROVE  FInv'
  <2>1. at \in VRegs(func) /\ func' = func
    BY <1>3, <1>5
  <2>2. /\ stackBytes' \in Nat /\ stackBytes' >= stackBytes
        /\ calleeIdx' \in 0..Len(CalleeSaved)
        /\ LocsTyped' /\ SlotsFit(stackBytes, 0)'
    BY <1>1, <1>5, <2>1, CalleeSavedOrStackFits
  <2>3. Placing' /\ at' \in Nat \ {0} /\ given' \in Nat /\ blockOffs' = blockOffs
    BY <1>1, <1>2, <1>5 DEF Placing
  <2> QED
    BY <1>1, <1>5, <2>1, <2>2, <2>3, PlacingStep
<1>6. CASE TempBoundOrVar \/ TempDead
  <2>1. GoOn /\ UNCHANGED <<loc, calleeIdx, stackBytes, pool>>
    BY <1>6 DEF TempBoundOrVar, TempDead
  <2>2. /\ Placing' /\ at' \in Nat \ {0} /\ given' \in Nat
        /\ UNCHANGED <<func, loc, calleeIdx, stackBytes, pool, blockOffs>>
    BY <1>1, <1>2, <2>1 DEF Placing
  <2> QED
    BY <1>1, <2>2, NothingPlaced
<1>7. CASE TempInRax
  BY <1>4, <1>7, RegistersAreNamed DEF TempInRax
<1>8. CASE TempKept \/ TempForCallKept
  BY <1>5, <1>8 DEF TempKept, TempForCallKept
<1>9. CASE TempInArgReg
  <2>1. Desired(at) \in STRING \ {""}
    BY <1>1, <1>3, <1>9, DesiredIsNamed DEF TempInArgReg
  <2> QED
    BY <1>4, <1>9, <2>1 DEF TempInArgReg
<1>10. CASE TempsEnd
  BY <1>1, <1>10, PhaseEndsFInv DEF TempsEnd
<1> QED
  BY <1>6, <1>7, <1>8, <1>9, <1>10 DEF AllocTemp

-----------------------------------------------------------------------------

\* A variable's slot, the last one given back or a fresh one, fits, and so
\* does what is left in the pool.
LEMMA VarSlotFits ==
  ASSUME Typed, SlotsFit(stackBytes, 0), PoolFits,
         NEW v \in VRegs(func), VarSlot(v), func' = func
  PROVE  /\ stackBytes' \in Nat
         /\ LocsTyped' /\ SlotsFit(stackBytes, 0)'
         /\ pool' \in [Sizes -> Seq(Int)] /\ PoolFits'
<1> DEFINE size == func.width[v]
           free == pool[size]
<1>1. size \in Sizes /\ stackBytes \in Nat /\ free \in Seq(Int)
  BY OneFunction DEF Typed
<1>2. CASE FreshSlot(v) /\ pool' = pool
  <2>1. /\ stackBytes' \in Nat /\ stackBytes' >= stackBytes
        /\ LocsTyped' /\ SlotsFit(stackBytes, 0)'
    BY <1>2, FreshSlotFits
  <2> QED
    BY <1>2, <2>1, PoolStays
<1>3. ASSUME free # << >>, Bind(v, Stack(free[Len(free)])),
             pool' = [pool EXCEPT ![size] = SubSeq(free, 1, Len(free) - 1)],
             UNCHANGED stackBytes
      PROVE  /\ stackBytes' \in Nat
             /\ LocsTyped' /\ SlotsFit(stackBytes, 0)'
             /\ pool' \in [Sizes -> Seq(Int)] /\ PoolFits'
  <2> DEFINE n == Len(free)
             o == free[n]
             rest == SubSeq(free, 1, n - 1)
  <2>1. n \in Nat \ {0} /\ DOMAIN free = 1..n
    BY <1>1, <1>3, EmptySeq, LenProperties
  <2>2. o \in Int
    BY <1>1, <2>1, ElementOfSeq
  <2>3. Fits(o, size, stackBytes, 0)
    BY <1>1, <2>1 DEF PoolFits
  <2>4. o < 0
    BY <1>1, <2>2, <2>3, SMTT(30) DEF Fits, Sizes
  <2>5. Stack(o).off = o
    BY DEF Stack
  <2>6. stackBytes' = stackBytes /\ Bind(v, Stack(o))
    BY <1>3
  <2> HIDE DEF o
  <2>7. LocsTyped' /\ SlotsFit(stackBytes, 0)'
    BY <1>1, <2>2, <2>3, <2>4, <2>5, <2>6, BindFits
  <2>8. rest \in Seq(Int) /\ Len(rest) = n - 1 /\ \A k \in 1..(n - 1) : rest[k] = free[k]
    <3>1. \A k \in 1..(n - 1) : free[k] \in Int
      BY <1>1, <2>1, ElementOfSeq
    <3>2. 1 \in Int /\ n - 1 \in Int
      BY <2>1
    <3> QED
      BY <2>1, <3>1, <3>2, SubSeqProperties
  <2> HIDE DEF rest, n, free, size
  <2>9. pool' = [pool EXCEPT ![size] = rest]
    BY <1>3 DEF rest, n, free, size
  <2>10. pool' \in [Sizes -> Seq(Int)]
    BY <1>1, <2>8, <2>9 DEF Typed
  <2>11. PoolFits'
    <3> SUFFICES ASSUME NEW s \in Sizes, NEW k \in DOMAIN pool'[s]
                 PROVE  Fits(pool'[s][k], s, stackBytes', 0)
      BY DEF PoolFits
    <3>1. CASE s # size
      BY <2>6, <2>9, <3>1 DEF PoolFits, Typed
    <3>2. CASE s = size
      <4>1. pool'[s] = rest
        BY <1>1, <2>9, <3>2 DEF Typed
      <4>2. DOMAIN rest = 1..(n - 1)
        BY <2>8, LenProperties
      <4>3. k \in 1..(n - 1)
        BY <4>1, <4>2
      <4>4. k \in DOMAIN free /\ rest[k] = free[k]
        BY <2>1, <2>8, <4>3
      <4>5. Fits(free[k], size, stackBytes, 0)
        BY <1>1, <4>4 DEF PoolFits, free
      <4> QED
        BY <2>6, <3>2, <4>1, <4>4, <4>5
    <3> QED
      BY <3>1, <3>2
  <2> QED
    BY <1>1, <2>6, <2>7, <2>10, <2>11
<1> QED
  BY <1>2, <1>3 DEF VarSlot

\* A block's variable gives back a local slot of its own size.
LEMMA GivenBackFits ==
  ASSUME Typed, SlotsFit(stackBytes, 0), PoolFits, GiveBack
  PROVE  pool' \in [Sizes -> Seq(Int)] /\ PoolFits'
<1> DEFINE args == func.code[at].src
           v == args[given + 1]
           size == func.width[v]
           o == loc[v].off
<1>1. stackBytes' = stackBytes /\ stackBytes \in Nat
  BY Zenon DEF GiveBack, Typed
<1>4. \A n \in Nat : n >= n
  OBVIOUS
<1>5. stackBytes' \in Nat /\ stackBytes' >= stackBytes
  BY <1>1, <1>4, Zenon
<1>2. CASE ~(v \in DOMAIN loc /\ IsStack(loc[v]))
  <2>1. pool' = pool
    BY <1>2, Zenon DEF GiveBack
  <2> QED
    BY <1>5, <2>1, PoolStays, Zenon
<1>3. CASE v \in DOMAIN loc /\ IsStack(loc[v])
  <2>1. pool' = [pool EXCEPT ![size] = Append(pool[size], o)]
    BY <1>3, Zenon DEF GiveBack
  <2>2. v > func.params
    <3>1. args \in Seq((func.params + 1)..Len(func.width))
      <4>1. WellFormed(func)
        BY FuncsAreWellFormed DEF Typed
      <4>2. func.code \in Seq(Instructions)
        BY <4>1 DEF WellFormed
      <4>3. DOMAIN func.code = 1..Len(func.code) /\ Len(func.code) \in Nat
        BY <4>2, LenProperties
      <4>4. at <= Len(func.code) /\ at \in Nat \ {0} /\ func.code[at].op = "leave"
        BY Zenon DEF GiveBack, Leaving, InPhase, Typed
      <4>5. at \in DOMAIN func.code
        BY <4>3, <4>4
      <4> QED
        BY <4>1, <4>4, <4>5 DEF WellFormed
    <3>2. given + 1 \in 1..Len(args)
      <4>1. Len(args) \in Nat
        BY <3>1, LenProperties
      <4>2. given < Len(args) /\ given \in Nat
        BY Zenon DEF GiveBack, Typed
      <4> QED
        BY ONLY <4>1, <4>2
    <3>3. v \in (func.params + 1)..Len(func.width)
      BY <3>1, <3>2, ElementOfSeq
    <3>4. func.params \in Int
      BY OneFunction DEF Typed
    <3> HIDE DEF v
    <3> QED
      BY <3>3, <3>4
  <2>3. v \in VRegs(func) /\ v \notin Params(func) /\ size \in Sizes
    <3> HIDE DEF v
    <3>1. v \in VRegs(func)
      BY <1>3 DEF Typed, LocsTyped
    <3>2. func.width[v] \in Sizes /\ func.params \in Int /\ v \in Int
      BY <3>1, OneFunction DEF Typed
    <3>3. v \notin 1..func.params
      BY <2>2, <3>2
    <3> QED
      BY <3>1, <3>2, <3>3 DEF Params
  <2>4. o \in Int /\ o < 0 /\ v \in LocalSlots
    BY <1>3, <2>3, SMTT(30) DEF Typed, LocsTyped, LocalSlots
  <2>5. Fits(o, size, stackBytes, 0)
    BY <2>4 DEF SlotsFit
  <2> HIDE DEF o, size
  <2> DEFINE more == Append(pool[size], o)
  <2>6. pool[size] \in Seq(Int)
    BY <2>3 DEF Typed
  <2>7. /\ more \in Seq(Int) /\ Len(more) = Len(pool[size]) + 1
        /\ \A k \in 1..Len(pool[size]) : more[k] = pool[size][k]
        /\ more[Len(pool[size]) + 1] = o
    BY <2>4, <2>6
  <2>8. \A k \in DOMAIN more : Fits(more[k], size, stackBytes, 0)
    <3> SUFFICES ASSUME NEW k \in DOMAIN more PROVE Fits(more[k], size, stackBytes, 0)
      OBVIOUS
    <3>1. Len(pool[size]) \in Nat /\ DOMAIN pool[size] = 1..Len(pool[size])
      BY <2>6, LenProperties
    <3>2. k \in 1..(Len(pool[size]) + 1)
      BY <2>7, LenProperties
    <3>3. CASE k = Len(pool[size]) + 1
      BY <2>5, <2>7, <3>3
    <3>4. CASE k \in 1..Len(pool[size])
      BY <2>3, <2>7, <3>1, <3>4 DEF PoolFits
    <3> HIDE DEF more
    <3> QED
      BY <3>1, <3>2, <3>3, <3>4
  <2> HIDE DEF more
  <2>9. pool' = [pool EXCEPT ![size] = more]
    BY <2>1 DEF more, o
  <2>10. pool' \in [Sizes -> Seq(Int)]
    BY <2>3, <2>7, <2>9 DEF Typed
  <2>11. PoolFits'
    <3> SUFFICES ASSUME NEW s \in Sizes, NEW k \in DOMAIN pool'[s]
                 PROVE  Fits(pool'[s][k], s, stackBytes', 0)
      BY DEF PoolFits
    <3>1. CASE s # size
      BY <1>1, <2>9, <3>1 DEF PoolFits, Typed
    <3>2. CASE s = size
      <4>1. pool'[s] = more
        BY <2>3, <2>9, <3>2 DEF Typed
      <4> QED
        BY <1>1, <2>8, <3>2, <4>1
    <3> QED
      BY <3>1, <3>2
  <2> QED
    BY <2>10, <2>11, Zenon
<1> QED
  BY <1>2, <1>3

\* Pass B keeps the layout.
LEMMA VarsFInv == FInv /\ MInv /\ AllocVar => FInv'
<1> SUFFICES ASSUME FInv, MInv, AllocVar PROVE FInv'
  OBVIOUS
<1> USE DEF InPhase, GoOn
<1>1. Typed /\ Placing /\ SlotsFit(stackBytes, 0) /\ PoolFits /\ phase = "vars"
  BY Zenon DEF FInv, AllocVar, Placing, VarDefined, GiveBack, Leaving, BlockLeft, NoVarHere,
         VarsEnd, PhaseEnds
<1>2. calleeIdx \in 0..Len(CalleeSaved) /\ stackBytes \in Nat /\ at \in Nat \ {0}
      /\ given \in Nat
  BY <1>1 DEF Typed
<1>3. CASE VarDefined
  <2>1. PICK v \in VRegs(func) : VarSlot(v)
    BY <1>3 DEF VarDefined, VarsDefinedAt
  <2>2. /\ func' = func /\ phase' = phase /\ at' = at + 1 /\ given' = 0
        /\ calleeIdx' = calleeIdx /\ blockOffs' = blockOffs
    BY <1>3 DEF VarDefined
  <2>3. Placing' /\ at' \in Nat \ {0} /\ given' \in Nat
    BY <1>1, <1>2, <2>2 DEF Placing
  <2>4. calleeIdx' \in 0..Len(CalleeSaved)
    BY <1>2, <2>2
  <2>5. /\ stackBytes' \in Nat /\ LocsTyped' /\ SlotsFit(stackBytes, 0)'
        /\ pool' \in [Sizes -> Seq(Int)] /\ PoolFits'
    BY <1>1, <2>1, <2>2, VarSlotFits
  <2> QED
    BY <1>1, <2>2, <2>3, <2>4, <2>5, LayoutStep
<1>4. CASE GiveBack
  <2>1. /\ func' = func /\ phase' = phase /\ at' = at /\ given' = given + 1 /\ loc' = loc
        /\ calleeIdx' = calleeIdx /\ stackBytes' = stackBytes /\ blockOffs' = blockOffs
    BY <1>4, Zenon DEF GiveBack
  <2>2. pool' \in [Sizes -> Seq(Int)] /\ PoolFits'
    BY <1>1, <1>4, GivenBackFits
  <2>3. LocsTyped' /\ SlotsFit(stackBytes, 0)'
    BY <1>1, <2>1 DEF Typed, LocsTyped, SlotsFit, LocalSlots, VRegs, Params
  <2>4. Placing' /\ at' \in Nat \ {0} /\ given' \in Nat
    BY <1>1, <1>2, <2>1 DEF Placing
  <2>5. calleeIdx' \in 0..Len(CalleeSaved) /\ stackBytes' \in Nat
    BY <1>2, <2>1
  <2> QED
    BY <1>1, <2>1, <2>2, <2>3, <2>4, <2>5, LayoutStep
<1>5. CASE BlockLeft \/ NoVarHere
  <2>1. GoOn /\ UNCHANGED <<loc, calleeIdx, stackBytes, pool>>
    BY <1>5 DEF BlockLeft, NoVarHere
  <2>2. /\ Placing' /\ at' \in Nat \ {0} /\ given' \in Nat
        /\ UNCHANGED <<func, loc, calleeIdx, stackBytes, pool, blockOffs>>
    BY <1>1, <1>2, <2>1 DEF Placing
  <2> QED
    BY <1>1, <2>2, NothingPlaced
<1>6. CASE VarsEnd
  BY <1>1, <1>6, PhaseEndsFInv DEF VarsEnd
<1> QED
  BY <1>3, <1>4, <1>5, <1>6 DEF AllocVar

-----------------------------------------------------------------------------

\* Room for the saved registers is made by moving every local slot below it.
LEMMA MakeSaveAreaFInv == FInv /\ MInv /\ MakeSaveArea => FInv'
<1> SUFFICES ASSUME FInv, MInv, MakeSaveArea PROVE FInv'
  OBVIOUS
<1>1. /\ Typed /\ SlotsFit(stackBytes, 0) /\ blockOffs = << >> /\ at = 1 /\ phase' = "blocks"
      /\ stackBytes \in Nat
  BY DEF FInv, MInv, Typed, MakeSaveArea, Placing
<1>2. /\ func' = func /\ at' = at /\ given' = given /\ calleeIdx' = calleeIdx
      /\ pool' = pool /\ blockOffs' = blockOffs
      /\ stackBytes' = stackBytes + SaveArea
      /\ DOMAIN loc' = DOMAIN loc /\ \A v \in DOMAIN loc : loc'[v] = Shifted(loc[v])
  BY DEF MakeSaveArea
<1>3. SaveArea \in Nat /\ SaveArea' = SaveArea /\ calleeIdx \in Nat
  <2>1. calleeIdx \in 0..Len(CalleeSaved)
    BY <1>1 DEF Typed
  <2>2. Len(CalleeSaved) \in Nat
    BY LenProperties, RegistersAreNamed
  <2>3. calleeIdx \in Nat
    BY ONLY <2>1, <2>2
  <2> QED
    BY <1>2, <2>3 DEF SaveArea
<1>4. ASSUME NEW v \in DOMAIN loc
      PROVE  /\ IsStack(loc'[v]) <=> IsStack(loc[v])
             /\ IsStack(loc[v]) /\ loc[v].off < 0 => loc'[v].off = loc[v].off - SaveArea
             /\ ~(IsStack(loc[v]) /\ loc[v].off < 0) => loc'[v] = loc[v]
             /\ loc[v].off \in Int
  <2>1. loc[v].off \in Int
    BY <1>1, <1>4 DEF Typed, LocsTyped
  <2>2. loc'[v] = Shifted(loc[v])
    BY <1>2, <1>4
  <2>3. CASE IsStack(loc[v]) /\ loc[v].off < 0
    <3>1. loc'[v] = Stack(loc[v].off - SaveArea)
      BY <2>2, <2>3 DEF Shifted
    <3> DEFINE o == loc[v].off - SaveArea
    <3>2. IsStack(Stack(o)) /\ Stack(o).off = o
      BY DEF Stack, IsStack
    <3>3. IsStack(loc'[v]) /\ loc'[v].off = loc[v].off - SaveArea
      BY <3>1, <3>2
    <3> QED
      BY <2>1, <2>3, <3>3
  <2>4. CASE ~(IsStack(loc[v]) /\ loc[v].off < 0)
    BY <2>1, <2>2, <2>4 DEF Shifted
  <2> QED
    BY <2>1, <2>3, <2>4
<1>5. LocalSlots' = LocalSlots
  BY <1>2, <1>3, <1>4 DEF LocalSlots
<1>6. LocsTyped'
  <2>1. ASSUME NEW v \in DOMAIN loc
        PROVE  /\ loc'[v].off \in Int
               /\ IsStack(loc'[v]) => loc'[v].off # 0 /\ (loc'[v].off > 0 => v \in Params(func))
    <3>1. IsStack(loc[v]) => loc[v].off # 0 /\ (loc[v].off > 0 => v \in Params(func))
      BY <1>1 DEF Typed, LocsTyped
    <3>2. CASE IsStack(loc[v]) /\ loc[v].off < 0
      BY <1>3, <1>4, <3>2
    <3>3. CASE ~(IsStack(loc[v]) /\ loc[v].off < 0)
      BY <1>4, <3>1, <3>3
    <3> QED
      BY <3>2, <3>3
  <2> QED
    BY <1>1, <1>2, <2>1 DEF Typed, LocsTyped, VRegs, Params
<1>7. SlotsFit(stackBytes, -SaveArea)'
  <2> SUFFICES ASSUME NEW v \in LocalSlots
               PROVE  Fits(loc'[v].off, func.width[v], stackBytes', -SaveArea)
    BY <1>2, <1>3, <1>5 DEF SlotsFit
  <2> DEFINE o == loc[v].off
             size == func.width[v]
  <2>1. Fits(o, size, stackBytes, 0) /\ o \in Int /\ size \in Sizes /\ v \in DOMAIN loc
    BY <1>1, <1>4, OneFunction DEF SlotsFit, LocalSlots, Typed, LocsTyped
  <2>2. loc'[v].off = o - SaveArea
    BY <1>4, <2>1 DEF LocalSlots
  <2>3. size \in Int
    BY <2>1 DEF Sizes
  <2> HIDE DEF o, size
  <2>4. (o - SaveArea) % size = 0
    BY <1>3, <2>1, SlotShifts DEF Fits, SaveArea
  <2>5. -stackBytes <= o /\ o + size <= 0
    BY <2>1 DEF Fits
  <2> QED
    BY <1>1, <1>2, <1>3, <2>1, <2>2, <2>3, <2>4, <2>5 DEF Fits, size
<1>8. stackBytes' \in Nat /\ SaveArea' <= stackBytes'
  BY <1>1, <1>2, <1>3
<1>9. Typed'
  BY <1>1, <1>2, <1>6, <1>8 DEF Typed
<1>10. BlocksFit' /\ Len(blockOffs') = at' - 1 /\ at' <= Len(func'.blocks) + 1
  <2>1. func.blocks \in Seq([size : Nat, align : {1, 2, 4, 8, 16}])
    BY <1>1, OneFunction DEF Typed
  <2>2. Len(func.blocks) \in Nat
    BY <2>1, LenProperties
  <2> QED
    BY <1>1, <1>2, <2>2 DEF BlocksFit
<1> QED
  BY <1>1, <1>7, <1>8, <1>9, <1>10 DEF FInv, Placing

\* A block is laid clear of all that is already there.
LEMMA LayBlockFInv == FInv /\ LayBlock => FInv'
<1> SUFFICES ASSUME FInv, LayBlock PROVE FInv'
  OBVIOUS
<1> DEFINE b == func.blocks[at]
           s == AlignUp(stackBytes + b.size, b.align)
<1>1. /\ Typed /\ SlotsFit(stackBytes, -SaveArea) /\ SaveArea <= stackBytes /\ BlocksFit
      /\ Len(blockOffs) = at - 1 /\ at <= Len(func.blocks)
  BY DEF FInv, LayBlock, InPhase, Placing
<1>2. stackBytes \in Nat /\ at \in Nat \ {0} /\ blockOffs \in Seq(Int)
  BY <1>1 DEF Typed
<1>3. func.blocks \in Seq([size : Nat, align : {1, 2, 4, 8, 16}])
  BY <1>1, OneFunction DEF Typed
<1>4. Len(func.blocks) \in Nat /\ DOMAIN func.blocks = 1..Len(func.blocks) /\ at \in DOMAIN func.blocks
  BY <1>1, <1>2, <1>3, LenProperties
<1>5. b.size \in Nat /\ b.align \in {1, 2, 4, 8, 16}
  <2>1. b \in [size : Nat, align : {1, 2, 4, 8, 16}]
    BY <1>3, <1>4, ElementOfSeq
  <2> HIDE DEF b
  <2> QED
    BY <2>1
<1>6. s \in Nat /\ s >= stackBytes + b.size /\ (-s) % b.align = 0
  <2> HIDE DEF b
  <2>1. stackBytes + b.size \in Nat
    BY <1>2, <1>5
  <2> QED
    BY <1>5, <2>1, AlignUpRounds
<1>7. /\ func' = func /\ loc' = loc /\ phase' = phase /\ phase = "blocks" /\ given' = given
      /\ calleeIdx' = calleeIdx /\ pool' = pool /\ at' = at + 1
      /\ blockOffs' = Append(blockOffs, -s) /\ stackBytes' = s
  BY DEF LayBlock, InPhase
<1> HIDE DEF s, b
<1>8. /\ blockOffs' \in Seq(Int) /\ Len(blockOffs') = at /\ blockOffs'[at] = -s
      /\ \A k \in 1..(at - 1) : blockOffs'[k] = blockOffs[k]
  BY <1>1, <1>2, <1>6, <1>7
<1>9. LocalSlots' = LocalSlots /\ SaveArea' = SaveArea /\ LocsTyped'
  BY <1>1, <1>7 DEF LocalSlots, SaveArea, Typed, LocsTyped, VRegs, Params
<1>10. SaveArea \in Int
  <2>1. calleeIdx \in 0..Len(CalleeSaved)
    BY <1>1 DEF Typed
  <2>2. Len(CalleeSaved) \in Nat
    BY LenProperties, RegistersAreNamed
  <2>3. calleeIdx \in Nat
    BY ONLY <2>1, <2>2
  <2> QED
    BY <2>3 DEF SaveArea
<1>11. \A v \in LocalSlots : /\ loc[v].off \in Int /\ loc[v].off >= -stackBytes
                             /\ func.width[v] \in Sizes
  BY <1>1, OneFunction DEF LocalSlots, SlotsFit, Fits, Typed, LocsTyped
<1>12. SlotsFit(stackBytes, -SaveArea)'
  <2> SUFFICES ASSUME NEW v \in LocalSlots
               PROVE  Fits(loc[v].off, func.width[v], s, -SaveArea)
    BY <1>7, <1>9 DEF SlotsFit
  <2>1. Fits(loc[v].off, func.width[v], stackBytes, -SaveArea)
    BY <1>1 DEF SlotsFit
  <2> QED
    BY <1>2, <1>5, <1>6, <1>11, <2>1 DEF Fits
<1>13. Typed'
  BY <1>1, <1>2, <1>6, <1>7, <1>8, <1>9 DEF Typed
<1>14. BlocksFit'
  <2> SUFFICES ASSUME NEW k \in DOMAIN blockOffs'
               PROVE  /\ k \in DOMAIN func.blocks
                      /\ blockOffs'[k] % func.blocks[k].align = 0
                      /\ blockOffs'[k] >= -s
                      /\ blockOffs'[k] + func.blocks[k].size <= -SaveArea
                      /\ \A v \in LocalSlots : blockOffs'[k] + func.blocks[k].size <= loc[v].off
                      /\ \A j \in 1..(k - 1) : blockOffs'[k] + func.blocks[k].size <= blockOffs'[j]
    BY <1>7, <1>9 DEF BlocksFit, BlockTop
  <2>1. k \in 1..at
    BY <1>8, LenProperties
  <2>2. DOMAIN blockOffs = 1..(at - 1)
    BY <1>1, <1>2, LenProperties
  <2>3. \A j \in 1..(at - 1) : blockOffs[j] \in Int /\ blockOffs[j] >= -stackBytes
    BY <1>1, <1>2, <2>2 DEF BlocksFit
  <2>4. CASE k = at
    <3>6. blockOffs'[k] = -s /\ func.blocks[k] = b
      BY <1>8, <2>4 DEF b
    <3>1. blockOffs'[k] + func.blocks[k].size <= -stackBytes
      BY <1>2, <1>5, <1>6, <3>6
    <3>2. blockOffs'[k] \in Int /\ func.blocks[k].size \in Int
      BY <1>5, <1>6, <3>6
    <3>3. blockOffs'[k] % func.blocks[k].align = 0 /\ blockOffs'[k] >= -s
      BY <1>6, <1>8, <2>4 DEF b
    <3>4. \A j \in 1..(k - 1) : blockOffs'[j] \in Int /\ blockOffs'[j] >= -stackBytes
      BY <1>8, <2>3, <2>4
    <3>5. \A v \in LocalSlots : blockOffs'[k] + func.blocks[k].size <= loc[v].off
      BY <1>2, <1>11, <3>1, <3>2
    <3> QED
      BY <1>1, <1>2, <1>4, <1>10, <2>4, <3>1, <3>2, <3>3, <3>4, <3>5, SMTT(30)
  <2>5. CASE k \in 1..(at - 1)
    <3>1. /\ k \in DOMAIN func.blocks
          /\ blockOffs[k] % func.blocks[k].align = 0
          /\ blockOffs[k] >= -stackBytes
          /\ blockOffs[k] + func.blocks[k].size <= -SaveArea
          /\ \A v \in LocalSlots : blockOffs[k] + func.blocks[k].size <= loc[v].off
          /\ \A j \in 1..(k - 1) : blockOffs[k] + func.blocks[k].size <= blockOffs[j]
      BY <1>1, <2>2, <2>5 DEF BlocksFit, BlockTop
    <3>2. blockOffs'[k] = blockOffs[k] /\ \A j \in 1..(k - 1) : blockOffs'[j] = blockOffs[j]
      BY <1>2, <1>8, <2>5, SMTT(30)
    <3>3. blockOffs[k] >= -s
      BY <1>2, <1>5, <1>6, <2>3, <2>5, <3>1, SMTT(30)
    <3> QED
      BY <3>1, <3>2, <3>3
  <2> QED
    BY <1>2, <2>1, <2>4, <2>5
<1>15. SaveArea' <= stackBytes'
  BY <1>1, <1>2, <1>5, <1>6, <1>7, <1>9, <1>10
<1>16. Len(blockOffs') = at' - 1 /\ at' <= Len(func'.blocks) + 1
  BY <1>1, <1>2, <1>4, <1>7, <1>8
<1> QED
  BY <1>7, <1>12, <1>13, <1>14, <1>15, <1>16 DEF FInv, Placing

\* Rounding the frame up to 16 bytes closes it.
LEMMA CloseFrameFInv == FInv /\ CloseFrame => FInv'
<1> SUFFICES ASSUME FInv, CloseFrame PROVE FInv'
  OBVIOUS
<1>1. /\ Typed /\ SlotsFit(stackBytes, -SaveArea) /\ SaveArea <= stackBytes /\ BlocksFit
      /\ Len(blockOffs) = at - 1 /\ at <= Len(func.blocks) + 1 /\ at > Len(func.blocks)
  BY DEF FInv, CloseFrame, Placing
<1>2. /\ func' = func /\ loc' = loc /\ at' = at /\ given' = given /\ calleeIdx' = calleeIdx
      /\ pool' = pool /\ blockOffs' = blockOffs /\ stackBytes' = stackBytes
      /\ phase' = "done" /\ frameSize' = AlignUp(stackBytes, 16)
  BY DEF CloseFrame
<1>3. stackBytes \in Nat /\ at \in Nat \ {0}
  BY <1>1 DEF Typed
<1>4. frameSize' \in Nat /\ frameSize' >= stackBytes /\ frameSize' % 16 = 0
  BY <1>2, <1>3, AlignUpRounds
<1>5. Len(blockOffs) = Len(func.blocks)
  <2>1. func.blocks \in Seq([size : Nat, align : {1, 2, 4, 8, 16}])
    BY <1>1, OneFunction DEF Typed
  <2>2. Len(func.blocks) \in Nat
    BY <2>1, LenProperties
  <2> QED
    BY <1>1, <1>3, <2>2
<1>6. Typed' /\ SlotsFit(stackBytes, -SaveArea)' /\ SaveArea' <= stackBytes' /\ BlocksFit'
  BY <1>1, <1>2 DEF Typed, LocsTyped, SlotsFit, LocalSlots, SaveArea, BlocksFit, BlockTop,
                    VRegs, Params
<1> QED
  BY <1>2, <1>4, <1>5, <1>6 DEF FInv, Placing

-----------------------------------------------------------------------------

\* What the first pass collects is not changed by a later one.
LEMMA StepMInv == MInv /\ [Allocate]_avars => MInv'
<1> SUFFICES ASSUME MInv, [Allocate]_avars PROVE MInv'
  OBVIOUS
<1>1. CASE func' = func /\ meta' = meta /\ phase' = phase /\ phase \notin {"meta", "frame"}
  BY <1>1 DEF MInv, MetaOf, VRegs
<1>2. ASSUME NEW p, NEW last, NEW next, PhaseEnds(p, last, next), p # "meta"
      PROVE  MInv'
  BY <1>2 DEF MInv, PhaseEnds
<1>3. CASE CollectMeta
  BY <1>3 DEF MInv, CollectMeta
<1>4. CASE ParamOnCallersStack \/ ParamMoved \/ ParamStays
  BY <1>1, <1>4 DEF ParamOnCallersStack, ParamMoved, ParamStays, InPhase, GoOn
<1>5. CASE TempBoundOrVar \/ TempInRax \/ TempKept \/ TempDead \/ TempInArgReg \/ TempForCallKept
  BY <1>1, <1>5 DEF TempBoundOrVar, TempInRax, TempKept, TempDead, TempInArgReg,
                    TempForCallKept, InPhase, GoOn
<1>6. CASE VarDefined \/ GiveBack \/ BlockLeft \/ NoVarHere
  BY <1>1, <1>6, Zenon DEF VarDefined, GiveBack, BlockLeft, NoVarHere, Leaving, InPhase, GoOn
<1>7. CASE ParamsEnd \/ TempsEnd \/ VarsEnd
  BY <1>2, <1>7 DEF ParamsEnd, TempsEnd, VarsEnd
<1>8. CASE MakeSaveArea
  BY <1>8 DEF MakeSaveArea, MInv, MetaOf, VRegs
<1>9. CASE LayBlock
  BY <1>1, <1>9 DEF LayBlock, InPhase
<1>10. CASE CloseFrame
  BY <1>10 DEF CloseFrame, MInv, MetaOf, VRegs
<1>11. CASE UNCHANGED avars
  BY <1>11 DEF avars, MInv
<1> QED
  BY <1>3, <1>4, <1>5, <1>6, <1>7, <1>8, <1>9, <1>10, <1>11
     DEF Allocate, AllocParam, AllocTemp, AllocVar, AllocFrame

\* Every step of the allocator keeps the layout.
LEMMA StepFInv == FInv /\ MInv /\ [Allocate]_avars => FInv'
<1> SUFFICES ASSUME FInv, MInv, [Allocate]_avars PROVE FInv'
  OBVIOUS
<1>1. CASE CollectMeta
  <2>1. Placing /\ Placing'
    BY <1>1 DEF CollectMeta, Placing
  <2>2. UNCHANGED <<func, loc, calleeIdx, stackBytes, pool, blockOffs>> /\ at' = at /\ given' = given
    BY <1>1 DEF CollectMeta
  <2>3. at \in Nat \ {0} /\ given \in Nat
    BY DEF FInv, Typed
  <2> QED
    BY <2>1, <2>2, <2>3, NothingPlaced
<1>2. CASE UNCHANGED avars
  <2>1. /\ func' = func /\ phase' = phase /\ at' = at /\ given' = given /\ loc' = loc
        /\ calleeIdx' = calleeIdx /\ stackBytes' = stackBytes /\ pool' = pool
        /\ blockOffs' = blockOffs /\ frameSize' = frameSize
    BY <1>2 DEF avars
  <2> QED
    BY <2>1 DEF FInv, Placing, Typed, LocsTyped, SlotsFit, PoolFits, LocalSlots, SaveArea,
                BlocksFit, BlockTop, VRegs, Params
<1> QED
  BY <1>1, <1>2, ParamsFInv, TempsFInv, VarsFInv, MakeSaveAreaFInv, LayBlockFInv,
     CloseFrameFInv DEF Allocate, AllocFrame

\* In every allocation of every function, the frame has room for all that is
\* in it: the save area at the top, aligned slots clear of it, aligned blocks
\* clear of the slots and of each other, a size that keeps calls aligned.
THEOREM FrameAlwaysHolds == AllocSpec => []FrameHolds
<1>1. Init => FInv /\ MInv
  BY InitFInv DEF Init, MInv
<1>2. FInv /\ MInv /\ [Allocate]_avars => (FInv /\ MInv)'
  BY StepFInv, StepMInv
<1>3. FInv => FrameHolds
  <2> SUFFICES ASSUME FInv, phase = "done" PROVE FrameHolds
    BY DEF FrameHolds
  <2>1. /\ Typed /\ SlotsFit(stackBytes, -SaveArea) /\ BlocksFit
        /\ Len(blockOffs) = Len(func.blocks) /\ frameSize >= stackBytes /\ frameSize % 16 = 0
    BY DEF FInv, Placing
  <2>2. stackBytes \in Nat /\ frameSize \in Int
    BY DEF FInv, Typed
  <2>3. ASSUME NEW v \in LocalSlots
        PROVE  /\ loc[v].off % func.width[v] = 0
               /\ loc[v].off >= -frameSize
               /\ loc[v].off + func.width[v] <= -SaveArea
    <3>1. Fits(loc[v].off, func.width[v], stackBytes, -SaveArea) /\ loc[v].off \in Int
      BY <2>1, <2>3 DEF SlotsFit, Typed, LocsTyped, LocalSlots
    <3> QED
      BY <2>1, <2>2, <3>1 DEF Fits
  <2>4. ASSUME NEW k \in DOMAIN func.blocks
        PROVE  /\ blockOffs[k] % func.blocks[k].align = 0
               /\ blockOffs[k] >= -frameSize
               /\ BlockTop(k) <= -SaveArea
               /\ \A v \in LocalSlots : BlockTop(k) <= loc[v].off
               /\ \A j \in 1..(k - 1) : BlockTop(k) <= blockOffs[j]
    <3>1. DOMAIN func.blocks = 1..Len(func.blocks)
      BY <2>1, OneFunction, LenProperties DEF Typed
    <3>2. blockOffs \in Seq(Int) /\ DOMAIN blockOffs = 1..Len(blockOffs)
      BY <2>1, LenProperties DEF Typed
    <3>3. k \in DOMAIN blockOffs
      BY <2>1, <2>4, <3>1, <3>2
    <3>4. blockOffs[k] \in Int
      BY <3>2, <3>3
    <3> QED
      BY <2>1, <2>2, <3>3, <3>4 DEF BlocksFit
  <2> QED
    BY <2>1, <2>3, <2>4 DEF FrameHolds
<1> QED
  BY <1>1, <1>2, <1>3, PTL DEF AllocSpec

-----------------------------------------------------------------------------
-----------------------------------------------------------------------------
\* What the allocator's first pass finds out about the VRegs of a function of the
\* shape PlnVCodeGen produces: where each is set and how long it lives.

\* Up to k, v's uses and the loops they are in have ended.
EndedBy(f, v, k) ==
  /\ \A n \in Uses(f, v) : n <= k
  /\ \A r \in Loops(f) : DefIdx(f, v) < r[1] /\ r[1] <= k => r[2] <= k

\* e is no less than the uses of v, and no more than need be.
Bounds(f, v, e) ==
  /\ e \in 0..Len(f.code)
  /\ \A n \in Uses(f, v) : n <= e
  /\ \A k \in Nat : EndedBy(f, v, k) => e <= k

\* What meta says of the VRegs of the function: the parameters are there from
\* the start; the others are set once, before their uses; of two, the one with
\* the higher number is set after the other or has ended where the other is
\* set; the variables a block's end names have ended there.
MetaSound ==
  /\ \A v \in VRegs(func) : meta[v].def \in Nat /\ meta[v].liveEnd \in Nat
  /\ \A v \in Params(func) : meta[v].def = 0
  /\ \A v \in VRegs(func) \ Params(func) :
       meta[v].plain \/ meta[v].isRet \/ meta[v].calls # {} =>
         1 <= meta[v].def /\ meta[v].def < meta[v].liveEnd
  /\ \A u, v \in VRegs(func) : meta[u].def = meta[v].def /\ meta[v].def # 0 => u = v
  /\ \A u, v \in VRegs(func) :
       u < v /\ 0 < meta[v].def /\ meta[v].def < meta[u].def => meta[v].liveEnd <= meta[u].def
  /\ \A k \in Indices(func) : func.code[k].op = "leave" =>
       \A n \in DOMAIN func.code[k].src :
         LET v == func.code[k].src[n] IN
         /\ v \in VRegs(func) \ Params(func)
         /\ meta[v].isVar
         /\ 1 <= meta[v].def /\ meta[v].def < k /\ meta[v].liveEnd <= k

-----------------------------------------------------------------------------

\* The largest member of a set of numbers up to N.
LEMMA MaxOfIs ==
  ASSUME NEW N \in Nat, NEW S \in SUBSET (0..N), S # {}
  PROVE  MaxOf(S) \in S /\ \A y \in S : MaxOf(S) >= y
<1> DEFINE T == {N - x : x \in S}
<1>1. T \in SUBSET Nat /\ T # {}
  <2>1. \A x \in S : N - x \in Nat
    OBVIOUS
  <2> QED
    BY <2>1
<1>2. PICK m \in T : \A y \in T : m <= y
  <2> HIDE DEF T
  <2> QED
    BY <1>1, LeastNat
<1>3. PICK x \in S : m = N - x
  OBVIOUS
<1>4. \A y \in S : x >= y
  <2> SUFFICES ASSUME NEW y \in S PROVE x >= y
    OBVIOUS
  <2>1. m <= N - y
    BY <1>2
  <2> QED
    BY <1>3, <2>1
<1> QED
  BY <1>4 DEF MaxOf

\* What the assumptions on the functions say of one of them.
LEMMA FunctionShape ==
  ASSUME NEW f \in Funcs
  PROVE  /\ Len(f.code) \in Nat /\ Indices(f) = 1..Len(f.code)
         /\ VRegs(f) = 1..Len(f.width) /\ Len(f.width) \in Nat
         /\ f.params \in 0..Len(f.width)
         /\ \A k \in Indices(f) : f.code[k] \in Instructions
         /\ DefinedOnce(f) /\ OperandsEnd(f) /\ LeavesOnce(f)
         /\ \A k \in Indices(f) : f.code[k].op = "leave" =>
              f.code[k].src \in Seq((f.params + 1)..Len(f.width))
<1>1. WellFormed(f) /\ Shaped(f)
  BY FuncsAreWellFormed, FuncsAreShaped
<1> QED
  BY <1>1 DEF WellFormed, Shaped, VRegs, Indices

\* Where v is set, or 0.
LEMMA DefIdxIs ==
  ASSUME NEW f \in Funcs, NEW v \in VRegs(f)
  PROVE  /\ DefIdx(f, v) \in 0..Len(f.code)
         /\ DefIdx(f, v) # 0 => DefIdx(f, v) \in Indices(f) /\ Defines(f.code[DefIdx(f, v)]) = v
         /\ \A k \in Indices(f) : Defines(f.code[k]) = v => DefIdx(f, v) = k
<1> DEFINE S == {0} \cup {k \in Indices(f) : Defines(f.code[k]) = v}
           N == Len(f.code)
<1>1. N \in Nat /\ Indices(f) = 1..N /\ v # 0 /\ DefinedOnce(f)
  BY FunctionShape
<1>2. S \in SUBSET (0..N) /\ S # {}
  BY <1>1
<1>3. DefIdx(f, v) = MaxOf(S)
  BY DEF DefIdx
<1>4. MaxOf(S) \in S /\ \A y \in S : MaxOf(S) >= y
  <2> HIDE DEF S, N
  <2> QED
    BY <1>1, <1>2, MaxOfIs
<1>5. ASSUME NEW k \in Indices(f), Defines(f.code[k]) = v PROVE DefIdx(f, v) = k
  <2>1. k \in S /\ k \in 1..N
    BY <1>1, <1>5
  <2>2. DefIdx(f, v) # 0 /\ DefIdx(f, v) \in S
    BY <1>1, <1>2, <1>3, <1>4, <2>1
  <2>3. Defines(f.code[DefIdx(f, v)]) = v /\ DefIdx(f, v) \in Indices(f)
    BY <2>2
  <2> QED
    BY <1>1, <1>5, <2>3 DEF DefinedOnce
<1> QED
  BY <1>1, <1>2, <1>3, <1>4, <1>5

\* The two kinds of uses the pass tells apart are all the uses there are.
LEMMA UsesAre ==
  ASSUME NEW f \in Funcs, NEW v \in VRegs(f)
  PROVE  PlainUses(f, v) \cup {u[1] : u \in CallUses(f, v)} = Uses(f, v)
<1> DEFINE C == {u[1] : u \in CallUses(f, v)}
<1>1. ASSUME NEW k \in Indices(f)
      PROVE  f.code[k].src \in Seq(Nat)
  <2>1. f.code[k] \in Instructions
    BY FunctionShape
  <2> QED
    BY <2>1 DEF Instructions
<1>2. Len(IntArgs) \in Nat
  BY LenProperties, RegistersAreNamed
<1>3. ASSUME NEW k \in C PROVE k \in Uses(f, v)
  <2>1. PICK u \in CallUses(f, v) : k = u[1]
    BY <1>3
  <2>2. k \in Indices(f) /\ f.code[k].op = "call" /\ u[2] \in DOMAIN f.code[k].src /\ f.code[k].src[u[2]] = v
    BY <2>1 DEF CallUses, Calls
  <2> QED
    BY <2>2 DEF Uses, Operands
<1>4. ASSUME NEW k \in PlainUses(f, v) PROVE k \in Uses(f, v)
  BY <1>4 DEF PlainUses, Uses, Operands
<1>5. ASSUME NEW k \in Uses(f, v) PROVE k \in PlainUses(f, v) \cup C
  <2>1. CASE f.code[k].op # "call"
    BY <2>1 DEF PlainUses, Uses
  <2>2. CASE f.code[k].op = "call"
    <3>1. PICK a \in DOMAIN f.code[k].src : f.code[k].src[a] = v
      BY <2>2 DEF Uses, Operands
    <3>2. a \in Nat \ {0} /\ k \in Indices(f)
      BY <1>1 DEF Uses
    <3>3. CASE a > Len(IntArgs)
      BY <2>2, <3>1, <3>2, <3>3 DEF PlainUses
    <3>4. CASE ~(a > Len(IntArgs))
      <4>1. a \in 1..Len(IntArgs)
        BY <1>2, <3>2, <3>4
      <4>2. <<k, a>> \in CallUses(f, v)
        BY <2>2, <3>1, <3>2, <4>1 DEF CallUses, Calls
      <4> QED
        BY <4>2
    <3> QED
      BY <3>3, <3>4
  <2> QED
    BY <2>1, <2>2
<1> QED
  BY <1>3, <1>4, <1>5

\* A loop is a pair of instructions, so there are finitely many.
LEMMA LoopsAre ==
  ASSUME NEW f \in Funcs
  PROVE  /\ Loops(f) \subseteq (0..Len(f.code)) \X (0..Len(f.code))
         /\ Cardinality(Loops(f)) \in Nat /\ IsFiniteSet(Loops(f))
<1> DEFINE N == Len(f.code)
           P == (0..N) \X (0..N)
<1>1. N \in Nat /\ Indices(f) = 1..N
  BY FunctionShape
<1>2. Loops(f) \subseteq P
  <2>1. ASSUME NEW k \in Indices(f), f.code[k].to < k PROVE <<f.code[k].to, k>> \in P
    <3>1. f.code[k] \in Instructions
      BY FunctionShape
    <3>2. f.code[k].to \in Nat
      BY <3>1 DEF Instructions
    <3> QED
      BY <1>1, <2>1, <3>2
  <2> QED
    BY <2>1 DEF Loops
<1>3. IsFiniteSet(P)
  <2>1. IsFiniteSet(0..N)
    BY <1>1, FS_Interval
  <2> QED
    BY <2>1, FS_Product
<1>4. Cardinality(Loops(f)) \in Nat /\ IsFiniteSet(Loops(f))
  <2> HIDE DEF P
  <2>1. IsFiniteSet(Loops(f))
    BY <1>2, <1>3, FS_Subset
  <2> QED
    BY <2>1, FS_CardinalityType
<1> QED
  BY <1>2, <1>4

\* v's last use, before loops are looked at.
LEMMA LastUseBounds ==
  ASSUME NEW f \in Funcs, NEW v \in VRegs(f)
  PROVE  Bounds(f, v, MaxOf({0} \cup PlainUses(f, v) \cup {u[1] : u \in CallUses(f, v)}))
<1> DEFINE S == {0} \cup PlainUses(f, v) \cup {u[1] : u \in CallUses(f, v)}
           N == Len(f.code)
<1>1. N \in Nat /\ Indices(f) = 1..N
  BY FunctionShape
<1>2. S = {0} \cup Uses(f, v)
  BY UsesAre
<1>3. Uses(f, v) \subseteq 1..N
  BY <1>1 DEF Uses
<1> HIDE DEF S, N
<1>4. S \in SUBSET (0..N) /\ S # {}
  BY <1>1, <1>2, <1>3
<1>5. MaxOf(S) \in S /\ \A y \in S : MaxOf(S) >= y
  BY <1>1, <1>4, MaxOfIs
<1>6. MaxOf(S) \in 0..N /\ \A n \in Uses(f, v) : n <= MaxOf(S)
  <2>1. ASSUME NEW n \in Uses(f, v) PROVE n <= MaxOf(S)
    <3>1. n \in S /\ n \in 0..N /\ MaxOf(S) \in 0..N /\ MaxOf(S) >= n
      BY <1>2, <1>4, <1>5
    <3> QED
      BY <3>1
  <2> QED
    BY <1>4, <1>5, <2>1
<1>7. ASSUME NEW k \in Nat, EndedBy(f, v, k) PROVE MaxOf(S) <= k
  <2>1. \A n \in Uses(f, v) : n <= k
    BY <1>7 DEF EndedBy
  <2>2. MaxOf(S) = 0 \/ MaxOf(S) \in Uses(f, v)
    BY <1>2, <1>5
  <2> QED
    BY <1>7, <2>1, <2>2
<1> QED
  BY <1>6, <1>7 DEF Bounds, S, N

\* One round of extending e over the loops v was alive before.
Extended(f, v, e) ==
  MaxOf({e} \cup {r[2] : r \in {r \in Loops(f) : DefIdx(f, v) < r[1] /\ r[1] <= e /\ e < r[2]}})

\* One more round of the extension by loops (PlnRegAlloc's live_end) still leaves a range that the loops say the value needs.
LEMMA ExtendedBounds ==
  ASSUME NEW f \in Funcs, NEW v \in VRegs(f), NEW e \in 0..Len(f.code)
  PROVE  /\ Extended(f, v, e) \in 0..Len(f.code)
         /\ Bounds(f, v, e) => Bounds(f, v, Extended(f, v, e))
<1> DEFINE L == {r \in Loops(f) : DefIdx(f, v) < r[1] /\ r[1] <= e /\ e < r[2]}
           S == {e} \cup {r[2] : r \in L}
           N == Len(f.code)
           m == MaxOf(S)
<1>1. N \in Nat /\ Uses(f, v) \subseteq Nat
  BY FunctionShape DEF Uses
<1>2. \A r \in L : r[1] \in 0..N /\ r[2] \in 0..N
  BY LoopsAre
<1>3. S \in SUBSET (0..N) /\ S # {} /\ e \in S
  BY <1>2
<1>4. m \in S /\ \A y \in S : m >= y
  <2> HIDE DEF S, N
  <2> QED
    BY <1>1, <1>3, MaxOfIs
<1>5. m = Extended(f, v, e)
  BY DEF Extended
<1>6. m \in 0..N /\ m >= e
  BY <1>3, <1>4
<1>7. m = e \/ \E r \in L : m = r[2]
  BY <1>4
<1> HIDE DEF m, N
<1>8. ASSUME Bounds(f, v, e) PROVE Bounds(f, v, m)
  <2>1. \A n \in Uses(f, v) : n <= m
    <3> SUFFICES ASSUME NEW n \in Uses(f, v) PROVE n <= m
      OBVIOUS
    <3>1. n <= e /\ n \in Nat
      BY <1>1, <1>8 DEF Bounds
    <3> QED
      BY <1>1, <1>6, <3>1
  <2>2. ASSUME NEW k \in Nat, EndedBy(f, v, k) PROVE m <= k
    <3>1. e <= k
      BY <1>8, <2>2 DEF Bounds
    <3>2. ASSUME NEW r \in L, m = r[2] PROVE m <= k
      <4>1. r \in Loops(f) /\ DefIdx(f, v) < r[1] /\ r[1] <= e /\ r[1] \in 0..N
        BY <1>2
      <4>2. r[1] <= k
        BY <1>1, <3>1, <4>1 DEF N
      <4> QED
        BY <2>2, <3>2, <4>1, <4>2 DEF EndedBy
    <3> QED
      BY <1>7, <3>1, <3>2
  <2> QED
    BY <1>6, <2>1, <2>2 DEF Bounds, N
<1> QED
  BY <1>5, <1>6, <1>8 DEF N

\* v's last use before loops are looked at.
LastUse(f, v) == MaxOf({0} \cup PlainUses(f, v) \cup {u[1] : u \in CallUses(f, v)})

\* e[n] is where v ends after n rounds.
Rounds(f, v, e) ==
  /\ e[0] = LastUse(f, v)
  /\ \A n \in 0..Cardinality(Loops(f)) : e[n] \in 0..Len(f.code)
  /\ \A n \in 1..Cardinality(Loops(f)) : e[n] = Extended(f, v, e[n - 1])
  /\ LiveEnd(f, v) = e[Cardinality(Loops(f))]

\* liveEnd is what the last of as many rounds as there are loops gives.
LEMMA LiveEndIsReached ==
  ASSUME NEW f \in Funcs, NEW v \in VRegs(f)
  PROVE  \E e : Rounds(f, v, e)
<1> DEFINE N == Cardinality(Loops(f))
           S == 0..Len(f.code)
           last == LastUse(f, v)
           step == [en \in S \X (1..N) |-> Extended(f, v, en[1])]
           Is(g) == g = [n \in 0..N |-> IF n = 0 THEN last ELSE Extended(f, v, g[n - 1])]
           ext == CHOOSE g : Is(g)
<1>1. LiveEnd(f, v) = ext[N]
  BY DEF LiveEnd, Extended, LastUse
<1>2. N \in Nat /\ last \in S
  BY LoopsAre, LastUseBounds DEF Bounds, LastUse
<1>3. step \in [S \X (1..N) -> S] /\ \A e \in S, n \in 1..N : step[<<e, n>>] = Extended(f, v, e)
  BY ExtendedBounds
<1> HIDE DEF step, last, N, S
<1>4. PICK g : Recursion(g, N, S, last, step)
  BY <1>2, <1>3, RecursionExists
<1>5. g \in [0..N -> S] /\ g[0] = last /\ \A n \in 1..N : g[n] = Extended(f, v, g[n - 1])
  <2>1. \A n \in 1..N : n - 1 \in 0..N
    BY <1>2
  <2> QED
    BY <1>3, <1>4, <2>1 DEF Recursion
<1>6. Is(g)
  <2>1. \A n \in 0..N : g[n] = IF n = 0 THEN last ELSE Extended(f, v, g[n - 1])
    BY <1>2, <1>5
  <2> QED
    BY <1>5, <2>1
<1>7. Is(ext)
  BY <1>6
<1> HIDE DEF ext
<1>8. ext[0] = last /\ \A n \in 1..N : ext[n] = Extended(f, v, ext[n - 1])
  BY <1>2, <1>7
<1> DEFINE T == {n \in 0..N : ext[n] \notin S}
<1>9. T = {}
  <2> SUFFICES ASSUME T # {} PROVE FALSE
    OBVIOUS
  <2>1. T \in SUBSET Nat
    BY <1>2
  <2>2. PICK n \in T : \A k \in T : n <= k
    <3> HIDE DEF T
    <3> QED
      BY <2>1, LeastNat
  <2>3. n # 0
    BY <1>2, <1>8
  <2>4. n \in 1..N /\ n - 1 \in 0..N /\ ~(n <= n - 1)
    BY <1>2, <2>3
  <2>5. ext[n - 1] \in S
    BY <2>2, <2>4
  <2>6. ext[n] \in S
    BY <1>8, <2>4, <2>5, ExtendedBounds DEF S
  <2> QED
    BY <2>6
<1>10. Rounds(f, v, ext)
  BY <1>1, <1>8, <1>9 DEF Rounds, S, N, last
<1> QED
  BY <1>10

\* liveEnd bounds v's uses, and no loop is left in the middle.
LEMMA LiveEndBounds ==
  ASSUME NEW f \in Funcs, NEW v \in VRegs(f)
  PROVE  Bounds(f, v, LiveEnd(f, v))
<1> DEFINE N == Cardinality(Loops(f))
<1>1. PICK e : Rounds(f, v, e)
  BY LiveEndIsReached
<1>2. N \in Nat /\ Bounds(f, v, e[0])
  BY <1>1, LoopsAre, LastUseBounds DEF Rounds, LastUse
<1>3. /\ \A n \in 0..N : e[n] \in 0..Len(f.code)
      /\ \A n \in 1..N : e[n] = Extended(f, v, e[n - 1])
      /\ LiveEnd(f, v) = e[N]
  BY <1>1 DEF Rounds
<1> HIDE DEF N
<1> DEFINE T == {n \in 0..N : ~Bounds(f, v, e[n])}
<1>4. T = {}
  <2> SUFFICES ASSUME T # {} PROVE FALSE
    OBVIOUS
  <2>1. T \in SUBSET Nat
    BY <1>2
  <2>2. PICK n \in T : \A k \in T : n <= k
    <3> HIDE DEF T
    <3> QED
      BY <2>1, LeastNat
  <2>3. n \in 1..N /\ n - 1 \in 0..N /\ ~(n <= n - 1)
    BY <1>2, <2>2
  <2>4. Bounds(f, v, e[n - 1])
    BY <2>2, <2>3
  <2>5. Bounds(f, v, e[n])
    BY <1>3, <2>3, <2>4, ExtendedBounds
  <2> QED
    BY <2>5
<1> QED
  BY <1>2, <1>3, <1>4

\* No loop v was alive before begins by e and ends after it.
Closed(f, v, e) == \A r \in Loops(f) : DefIdx(f, v) < r[1] /\ r[1] <= e => r[2] <= e

EndedLoops(f, e) == {r \in Loops(f) : r[2] <= e}

\* A round changes nothing any more, or one more loop has ended.
LEMMA RoundEndsALoop ==
  ASSUME NEW f \in Funcs, NEW v \in VRegs(f), NEW e \in 0..Len(f.code)
  PROVE  /\ Closed(f, v, e) => Extended(f, v, e) = e
         /\ ~Closed(f, v, e) => Cardinality(EndedLoops(f, e)) < Cardinality(EndedLoops(f, Extended(f, v, e)))
<1> DEFINE L == {r \in Loops(f) : DefIdx(f, v) < r[1] /\ r[1] <= e /\ e < r[2]}
           S == {e} \cup {r[2] : r \in L}
           N == Len(f.code)
           m == MaxOf(S)
<1>1. N \in Nat /\ IsFiniteSet(Loops(f))
  BY FunctionShape, LoopsAre
<1>2. \A r \in Loops(f) : r[1] \in 0..N /\ r[2] \in 0..N
  BY LoopsAre
<1>3. S \in SUBSET (0..N) /\ S # {} /\ e \in S
  BY <1>2
<1>4. m \in S /\ \A y \in S : m >= y
  <2> HIDE DEF S, N
  <2> QED
    BY <1>1, <1>3, MaxOfIs
<1>5. m = Extended(f, v, e)
  BY DEF Extended
<1>6. e \in Nat /\ m \in Nat /\ m >= e
  BY <1>1, <1>3, <1>4
<1>7. ASSUME Closed(f, v, e) PROVE m = e
  <2>1. L = {}
    BY <1>2, <1>6, <1>7 DEF Closed
  <2> QED
    BY <1>4, <2>1
<1>8. ASSUME ~Closed(f, v, e) PROVE Cardinality(EndedLoops(f, e)) < Cardinality(EndedLoops(f, m))
  <2>1. PICK r \in Loops(f) : DefIdx(f, v) < r[1] /\ r[1] <= e /\ ~(r[2] <= e)
    BY <1>8 DEF Closed
  <2>2. r \in L
    BY <1>2, <1>6, <2>1
  <2>3. m >= r[2]
    BY <1>4, <2>2
  <2> HIDE DEF m, L, S
  <2>4. r \in EndedLoops(f, m) /\ r \notin EndedLoops(f, e)
    BY <1>2, <1>6, <2>1, <2>3 DEF EndedLoops
  <2>5. EndedLoops(f, e) \subseteq EndedLoops(f, m) /\ EndedLoops(f, m) \subseteq Loops(f)
    BY <1>2, <1>6 DEF EndedLoops
  <2>6. IsFiniteSet(EndedLoops(f, m))
    BY <1>1, <2>5, FS_Subset
  <2>7. /\ Cardinality(EndedLoops(f, e)) <= Cardinality(EndedLoops(f, m))
        /\ Cardinality(EndedLoops(f, m)) = Cardinality(EndedLoops(f, e)) => EndedLoops(f, m) = EndedLoops(f, e)
        /\ IsFiniteSet(EndedLoops(f, e))
    BY <2>5, <2>6, FS_Subset
  <2>8. Cardinality(EndedLoops(f, e)) \in Nat /\ Cardinality(EndedLoops(f, m)) \in Nat
    BY <2>6, <2>7, FS_CardinalityType
  <2> QED
    BY <2>4, <2>7, <2>8
<1> QED
  BY <1>5, <1>7, <1>8

\* A value alive where a loop begins, and not set in it, is alive until the loop's end.
LEMMA LiveEndClosed ==
  ASSUME NEW f \in Funcs, NEW v \in VRegs(f)
  PROVE  Closed(f, v, LiveEnd(f, v))
<1> DEFINE N == Cardinality(Loops(f))
<1>1. PICK e : Rounds(f, v, e)
  BY LiveEndIsReached
<1>2. N \in Nat /\ IsFiniteSet(Loops(f))
  BY LoopsAre
<1>3. /\ \A n \in 0..N : e[n] \in 0..Len(f.code)
      /\ \A n \in 1..N : e[n] = Extended(f, v, e[n - 1])
      /\ LiveEnd(f, v) = e[N]
  BY <1>1 DEF Rounds
<1>4. ASSUME NEW x
      PROVE  /\ EndedLoops(f, x) \subseteq Loops(f) /\ Cardinality(EndedLoops(f, x)) \in Nat
             /\ Cardinality(EndedLoops(f, x)) <= N
             /\ Cardinality(EndedLoops(f, x)) = N => EndedLoops(f, x) = Loops(f)
  <2>1. EndedLoops(f, x) \subseteq Loops(f)
    BY DEF EndedLoops
  <2> QED
    BY <1>2, <2>1, FS_Subset, FS_CardinalityType
<1> HIDE DEF N
<1> DEFINE Good(n) == Closed(f, v, e[n]) \/ Cardinality(EndedLoops(f, e[n])) >= n
           T == {n \in 0..N : ~Good(n)}
<1>5. T = {}
  <2> SUFFICES ASSUME T # {} PROVE FALSE
    OBVIOUS
  <2>1. T \in SUBSET Nat
    BY <1>2
  <2>2. PICK n \in T : \A k \in T : n <= k
    <3> HIDE DEF T
    <3> QED
      BY <2>1, LeastNat
  <2>3. n \in 0..N /\ ~Good(n)
    BY <2>2
  <2>4. n # 0
    <3>1. Cardinality(EndedLoops(f, e[0])) \in Nat
      BY <1>4
    <3>2. Good(0)
      BY <3>1
    <3> HIDE DEF Good
    <3> QED
      BY <2>3, <3>2
  <2>5. n \in 1..N /\ n - 1 \in 0..N /\ ~(n <= n - 1) /\ n - 1 \in Nat /\ n \in Nat
    BY <1>2, <2>3, <2>4
  <2>6. Good(n - 1)
    BY <2>2, <2>5
  <2>7. e[n] = Extended(f, v, e[n - 1]) /\ e[n - 1] \in 0..Len(f.code)
    BY <1>3, <2>5
  <2>8. CASE Closed(f, v, e[n - 1])
    <3>1. e[n] = e[n - 1]
      BY <2>7, <2>8, RoundEndsALoop
    <3> QED
      BY <2>3, <2>8, <3>1
  <2>9. CASE ~Closed(f, v, e[n - 1])
    <3>1. Cardinality(EndedLoops(f, e[n - 1])) < Cardinality(EndedLoops(f, e[n]))
      BY <2>7, <2>9, RoundEndsALoop
    <3>2. Cardinality(EndedLoops(f, e[n - 1])) >= n - 1
      BY <2>6, <2>9
    <3>3. Cardinality(EndedLoops(f, e[n - 1])) \in Nat /\ Cardinality(EndedLoops(f, e[n])) \in Nat
      BY <1>4
    <3> QED
      BY <2>3, <2>5, <3>1, <3>2, <3>3
  <2> QED
    BY <2>8, <2>9
<1>6. Good(N)
  BY <1>2, <1>5
<1>7. CASE Closed(f, v, e[N])
  BY <1>3, <1>7
<1>8. CASE Cardinality(EndedLoops(f, e[N])) >= N
  <2>1. EndedLoops(f, e[N]) = Loops(f)
    BY <1>2, <1>4, <1>8
  <2> QED
    BY <1>3, <2>1 DEF Closed, EndedLoops
<1> QED
  BY <1>6, <1>7, <1>8

-----------------------------------------------------------------------------

\* What is defined at d has ended at k.
LEMMA EndsAt ==
  ASSUME NEW f \in Funcs, NEW v \in VRegs(f), NEW d \in Indices(f), NEW k \in Nat,
         Defines(f.code[d]) = v, EndsBy(f, d, k)
  PROVE  DefIdx(f, v) = d /\ LiveEnd(f, v) <= k
<1>1. DefIdx(f, v) = d
  BY DefIdxIs
<1>2. EndedBy(f, v, k)
  BY <1>1 DEF EndsBy, EndedBy
<1> QED
  BY <1>1, <1>2, LiveEndBounds DEF Bounds

\* The first pass finds out what it should.
LEMMA MetaIsSound ==
  ASSUME func \in Funcs, meta = [v \in VRegs(func) |-> MetaOf(func, v)]
  PROVE  MetaSound
<1> DEFINE N == Len(func.code)
<1>1. /\ N \in Nat /\ Indices(func) = 1..N
      /\ VRegs(func) = 1..Len(func.width) /\ Len(func.width) \in Nat
      /\ Params(func) \subseteq VRegs(func) /\ Params(func) = 1..func.params
      /\ func.params \in 0..Len(func.width)
      /\ DefinedOnce(func) /\ OperandsEnd(func) /\ LeavesOnce(func)
  BY FunctionShape DEF Params
<1>2. ASSUME NEW v \in VRegs(func)
      PROVE  /\ meta[v].def = DefIdx(func, v) /\ meta[v].liveEnd = LiveEnd(func, v)
             /\ meta[v].calls = CallUses(func, v)
             /\ DefIdx(func, v) \in Nat /\ LiveEnd(func, v) \in Nat
  <2>1. meta[v] = MetaOf(func, v)
    OBVIOUS
  <2>2. DefIdx(func, v) \in 0..N /\ LiveEnd(func, v) \in 0..N
    BY DefIdxIs, LiveEndBounds DEF Bounds
  <2>3. /\ meta[v].def = DefIdx(func, v) /\ meta[v].liveEnd = LiveEnd(func, v)
        /\ meta[v].calls = CallUses(func, v)
    BY <2>1 DEF MetaOf
  <2> QED
    BY <1>1, <2>2, <2>3
<1>9. ASSUME NEW v \in VRegs(func)
      PROVE  /\ meta[v].plain => PlainUses(func, v) # {}
             /\ meta[v].isRet => \E k \in Indices(func) :
                                   func.code[k].op = "ret" /\ v \in Operands(func.code[k])
             /\ (\E k \in Indices(func) : func.code[k].op = "var" /\ func.code[k].dst = v) => meta[v].isVar
  <2>1. meta[v] = MetaOf(func, v)
    OBVIOUS
  <2>2. meta[v].plain => PlainUses(func, v) # {}
    BY <2>1 DEF MetaOf
  <2>3. meta[v].isRet => \E k \in Indices(func) :
                           func.code[k].op = "ret" /\ v \in Operands(func.code[k])
    BY <2>1, Zenon DEF MetaOf
  <2>4. (\E k \in Indices(func) : func.code[k].op = "var" /\ func.code[k].dst = v) => meta[v].isVar
    BY <2>1, Zenon DEF MetaOf
  <2> QED
    BY <2>2, <2>3, <2>4
<1> HIDE DEF N
<1>3. ASSUME NEW v \in Params(func) PROVE meta[v].def = 0
  <2>1. v \in VRegs(func)
    BY <1>1
  <2>2. DefIdx(func, v) # 0 => DefIdx(func, v) \in Indices(func) /\ Defines(func.code[DefIdx(func, v)]) = v
    BY <2>1, DefIdxIs
  <2> QED
    BY <1>1, <1>2, <2>1, <2>2, SMTT(30) DEF DefinedOnce
<1>4. ASSUME NEW v \in VRegs(func) \ Params(func),
             meta[v].plain \/ meta[v].isRet \/ meta[v].calls # {}
      PROVE  1 <= meta[v].def /\ meta[v].def < meta[v].liveEnd
  <2>1. PICK k \in Indices(func) : k \in Uses(func, v)
    <3>1. CASE meta[v].isRet
      BY <1>9, <3>1 DEF Uses
    <3>2. CASE meta[v].plain \/ meta[v].calls # {}
      <4>1. PlainUses(func, v) \cup {u[1] : u \in CallUses(func, v)} # {}
        <5>1. CASE meta[v].plain
          BY <1>9, <5>1
        <5>2. CASE meta[v].calls # {}
          BY <1>2, <5>2
        <5> QED
          BY <3>2, <5>1, <5>2
      <4>2. Uses(func, v) # {}
        BY <4>1, UsesAre
      <4> QED
        BY <4>2 DEF Uses
    <3> QED
      BY <1>4, <3>1, <3>2
  <2>2. PICK d \in Indices(func) : d < k /\ Defines(func.code[d]) = v
    BY <1>1, <2>1 DEF DefinedOnce
  <2>3. DefIdx(func, v) = d
    BY <2>2, DefIdxIs
  <2>4. k <= LiveEnd(func, v)
    BY <2>1, LiveEndBounds DEF Bounds
  <2>5. meta[v].def = d /\ meta[v].liveEnd = LiveEnd(func, v) /\ LiveEnd(func, v) \in Nat
    BY <1>2, <1>4, <2>3
  <2> QED
    BY <1>1, <2>2, <2>4, <2>5
<1>5. ASSUME NEW u \in VRegs(func), NEW v \in VRegs(func), meta[u].def = meta[v].def, meta[v].def # 0
      PROVE  u = v
  <2>1. DefIdx(func, u) = DefIdx(func, v) /\ DefIdx(func, v) # 0
    BY <1>2, <1>5
  <2> QED
    BY <2>1, DefIdxIs
<1>6. ASSUME NEW u \in VRegs(func), NEW v \in VRegs(func),
             u < v, 0 < meta[v].def, meta[v].def < meta[u].def
      PROVE  meta[v].liveEnd <= meta[u].def
  <2> DEFINE d == DefIdx(func, v)
             e == DefIdx(func, u)
  <2>1. d \in Nat /\ e \in Nat /\ 0 < d /\ d < e
    BY <1>2, <1>6
  <2>2. /\ d \in Indices(func) /\ Defines(func.code[d]) = v
        /\ e \in Indices(func) /\ Defines(func.code[e]) = u
    <3>1. d # 0 /\ e # 0
      BY <2>1
    <3> QED
      BY <3>1, DefIdxIs
  <2> HIDE DEF d, e
  <2>3. u # 0
    BY <1>1
  <2>4. EndsBy(func, d, e)
    BY <1>1, <1>6, <2>1, <2>2, <2>3 DEF OperandsEnd
  <2>5. LiveEnd(func, v) <= e
    BY <2>1, <2>2, <2>4, EndsAt
  <2> QED
    BY <1>2, <2>5 DEF e
<1>7. ASSUME NEW k \in Indices(func), func.code[k].op = "leave", NEW n \in DOMAIN func.code[k].src,
             NEW v, v = func.code[k].src[n]
      PROVE  /\ v \in VRegs(func) \ Params(func)
             /\ meta[v].isVar
             /\ 1 <= meta[v].def /\ meta[v].def < k /\ meta[v].liveEnd <= k
  <2>1. v \in (func.params + 1)..Len(func.width)
    <3> DEFINE R == (func.params + 1)..Len(func.width)
    <3>1. func.code[k].src \in Seq(R)
      BY <1>7, FunctionShape
    <3> HIDE DEF R
    <3>2. func.code[k].src[n] \in R
      BY <3>1
    <3> QED
      BY <1>7, <3>2 DEF R
  <2>2. v \in VRegs(func) \ Params(func)
    BY <1>1, <2>1
  <2>3. PICK d \in Indices(func) : /\ d < k /\ func.code[d].op = "var" /\ func.code[d].dst = v
                                   /\ EndsBy(func, d, k)
    BY <1>1, <1>7 DEF LeavesOnce
  <2>4. Defines(func.code[d]) = v
    BY <2>3 DEF Defines
  <2>5. DefIdx(func, v) = d /\ LiveEnd(func, v) <= k
    BY <1>1, <2>2, <2>3, <2>4, EndsAt
  <2>6. meta[v].isVar
    BY <1>9, <2>2, <2>3
  <2>7. meta[v].def = d /\ meta[v].liveEnd <= k
    BY <1>2, <2>2, <2>5
  <2> QED
    BY <1>1, <2>2, <2>3, <2>6, <2>7
<1>8. \A v \in VRegs(func) : meta[v].def \in Nat /\ meta[v].liveEnd \in Nat
  BY <1>2
<1> QED
  BY <1>3, <1>4, <1>5, <1>6, <1>7, <1>8 DEF MetaSound

-----------------------------------------------------------------------------
\* What its passes make of that.

Together(u, v) == \/ meta[u].def <= meta[v].def /\ meta[v].def < meta[u].liveEnd
                  \/ meta[v].def <= meta[u].def /\ meta[u].def < meta[v].liveEnd

\* AliveApart, of the VRegs placed so far.
KeptApart == \A u, v \in DOMAIN loc : u # v /\ Together(u, v) => ~Overlap(u, v)

Handed(n, r) == \E k \in 1..n : r = CalleeSaved[k]
ArgReg(r) == \E k \in DOMAIN IntArgs : r = IntArgs[k]

\* Where registers come from: handed out once, the return value's, an argument's.
RegsFrom ==
  \A u \in DOMAIN loc : \/ IsStack(loc[u])
                        \/ Handed(calleeIdx, loc[u].reg)
                        \/ ArgReg(loc[u].reg)
                        \/ loc[u].reg = Rax /\ OnlyReturnValue(u)

SameSlot(u, v) == loc[u].off = loc[v].off /\ func.width[u] = func.width[v]

\* Two local slots are the same one or share no byte.
SlotsUniform ==
  \A u, v \in LocalSlots : \/ SameSlot(u, v)
                           \/ loc[u].off + func.width[u] <= loc[v].off
                           \/ loc[v].off + func.width[v] <= loc[u].off

CallersSlots ==
  \A u \in DOMAIN loc : IsStack(loc[u]) /\ loc[u].off > 0 =>
    u > Len(IntArgs) /\ loc[u].off = (u - Len(IntArgs) + 1) * 8

Places == RegsFrom /\ SlotsUniform /\ CallersSlots

\* Parameters are bound in order, each to its own argument register at most.
ParamsInOrder ==
  /\ DOMAIN loc = 1..(at - 1) /\ DOMAIN loc \subseteq Params(func)
  /\ \A u \in DOMAIN loc, k \in DOMAIN IntArgs : loc[u].reg = IntArgs[k] => u = k

\* Before pass B: parameters, and temporaries that are used after they are set.
NoVarsYet ==
  /\ \A u \in DOMAIN loc : \/ u \in Params(func)
                           \/ ~meta[u].isVar /\ 1 <= meta[u].def /\ meta[u].def < meta[u].liveEnd
  /\ pool = [size \in Sizes |-> << >>]

TempsInOrder ==
  /\ Params(func) \subseteq DOMAIN loc
  /\ \A u \in DOMAIN loc : u \in Params(func) \/ u < at

Variable(v) == v \notin Params(func) /\ meta[v].isVar

\* v's block has ended and v's slot was given back.
Gone(v) ==
  \E k \in Indices(func) :
    /\ func.code[k].op = "leave"
    /\ \E n \in DOMAIN func.code[k].src :
         func.code[k].src[n] = v /\ (k < at \/ (k = at /\ n <= given))

\* The pool holds each slot at most once, and slots of variables that have gone;
\* of two in one slot, one of them a variable, one has gone.
PoolDistinct ==
  \A s, t \in Sizes : \A i \in DOMAIN pool[s], j \in DOMAIN pool[t] :
    pool[s][i] = pool[t][j] => s = t /\ i = j
PoolOccupied ==
  \A s \in Sizes : \A i \in DOMAIN pool[s] :
    \E u \in LocalSlots : loc[u].off = pool[s][i] /\ func.width[u] = s
PoolGone ==
  \A s \in Sizes : \A i \in DOMAIN pool[s] :
    \A u \in LocalSlots : loc[u].off = pool[s][i] => Gone(u)
SharersGone ==
  \A u, v \in LocalSlots :
    u # v /\ loc[u].off = loc[v].off /\ Variable(u) => Gone(u) \/ Gone(v)

PoolSound == PoolDistinct /\ PoolOccupied /\ PoolGone /\ SharersGone

AInv ==
  /\ phase \in {"meta", "params", "temps", "vars", "frame", "blocks", "done"}
  /\ phase = "meta" => loc = << >> /\ at = 1 /\ pool = [size \in Sizes |-> << >>]
  /\ phase # "meta" => KeptApart
  /\ phase = "params" => Places /\ ParamsInOrder /\ NoVarsYet
  /\ phase = "temps" => Places /\ TempsInOrder /\ NoVarsYet
  /\ phase = "vars" => Places /\ PoolSound

-----------------------------------------------------------------------------

\* What the lemmas about one placement assume of the state and of the VReg.
Ready(v) ==
  /\ Typed /\ SlotsFit(stackBytes, 0) /\ Places /\ MetaSound
  /\ v \in VRegs(func) /\ v \notin DOMAIN loc
  /\ func' = func /\ meta' = meta

\* v is placed, apart from those it is alive together with.
PlacedApart(v) ==
  /\ DOMAIN loc' = DOMAIN loc \cup {v}
  /\ \A u \in DOMAIN loc : loc'[u] = loc[u]
  /\ Places'
  /\ \A u \in DOMAIN loc : Together(u, v) => ~Overlap(u, v)'

\* Two live ranges overlap each other.
LEMMA OverlapSymmetric == ASSUME NEW u, NEW v PROVE Overlap(u, v) <=> Overlap(v, u)
  BY DEF Overlap

\* Two ranges of bytes, one below the other, share none.
LEMMA RangesApart ==
  ASSUME NEW o \in Int, NEW m \in Nat, NEW p \in Int, NEW n \in Nat, o + m <= p \/ p + n <= o
  PROVE  (o .. (o + m - 1)) \cap (p .. (p + n - 1)) = {}
  OBVIOUS

\* A placement apart from the others keeps all apart.
LEMMA KeepsApart ==
  ASSUME NEW v, PlacedApart(v), KeptApart, v \notin DOMAIN loc, func' = func, meta' = meta
  PROVE  KeptApart'
<1> SUFFICES ASSUME NEW t \in DOMAIN loc', NEW u \in DOMAIN loc', t # u, Together(t, u)'
             PROVE  ~Overlap(t, u)'
  BY DEF KeptApart
<1>1. Together(t, u)
  BY DEF Together
<1>2. CASE t \in DOMAIN loc /\ u \in DOMAIN loc
  <2>1. ~Overlap(t, u)
    BY <1>1, <1>2 DEF KeptApart
  <2>2. loc'[t] = loc[t] /\ loc'[u] = loc[u]
    BY <1>2 DEF PlacedApart
  <2> QED
    BY <2>1, <2>2 DEF Overlap, Bytes
<1>3. CASE t \in DOMAIN loc /\ u = v
  BY <1>1, <1>3 DEF PlacedApart
<1>4. CASE t = v /\ u \in DOMAIN loc
  <2>1. Together(u, v)
    BY <1>1, <1>4 DEF Together
  <2>2. ~Overlap(u, v)'
    BY <1>4, <2>1 DEF PlacedApart
  <2>3. Overlap(u, v)' <=> Overlap(v, u)'
    BY DEF Overlap
  <2> QED
    BY <1>4, <2>2, <2>3
<1> QED
  BY <1>2, <1>3, <1>4 DEF PlacedApart

\* The sizes and offsets of what is placed.
LEMMA PlacedTyped ==
  ASSUME Typed, NEW u \in DOMAIN loc
  PROVE  /\ u \in VRegs(func) /\ u \in Nat /\ func.width[u] \in Sizes /\ func.width[u] \in Nat
         /\ loc[u].off \in Int
         /\ IsStack(loc[u]) => loc[u].off # 0 /\ (loc[u].off > 0 => u \in Params(func))
<1>1. /\ func \in Funcs /\ DOMAIN loc \subseteq VRegs(func) /\ loc[u].off \in Int
      /\ IsStack(loc[u]) => loc[u].off # 0 /\ (loc[u].off > 0 => u \in Params(func))
  BY DEF Typed, LocsTyped
<1>2. u \in VRegs(func) /\ u \in Nat /\ func.width[u] \in Sizes
  BY <1>1, OneFunction
<1> QED
  BY <1>1, <1>2 DEF Sizes

\* In a register that none of those alive with it has.
LEMMA RegApart ==
  ASSUME NEW v, Ready(v), NEW r \in STRING \ {""}, Bind(v, Reg(r)),
         \A q : Handed(calleeIdx, q) => Handed(calleeIdx', q),
         Handed(calleeIdx', r) \/ ArgReg(r) \/ (r = Rax /\ OnlyReturnValue(v)),
         \A u \in DOMAIN loc : Together(u, v) => loc[u] # Reg(r)
  PROVE  PlacedApart(v) /\ loc'[v] = Reg(r)
<1>1. /\ DOMAIN loc' = DOMAIN loc \cup {v} /\ loc'[v] = Reg(r)
      /\ \A u \in DOMAIN loc : loc'[u] = loc[u]
  BY DEF Bind, Ready
<1>2. ~IsStack(Reg(r)) /\ Reg(r).reg = r
  BY DEF IsStack, Reg
<1>3. /\ func' = func /\ meta' = meta /\ Typed /\ Places
      /\ \A u : OnlyReturnValue(u)' <=> OnlyReturnValue(u)
  BY DEF Ready, OnlyReturnValue, VRegs
<1>4. RegsFrom'
  <2> SUFFICES ASSUME NEW u \in DOMAIN loc'
               PROVE  \/ IsStack(loc'[u]) \/ Handed(calleeIdx', loc'[u].reg) \/ ArgReg(loc'[u].reg)
                      \/ loc'[u].reg = Rax /\ OnlyReturnValue(u)'
    BY DEF RegsFrom
  <2>1. CASE u = v
    BY <1>1, <1>2, <1>3, <2>1
  <2>2. CASE u \in DOMAIN loc
    BY <1>1, <1>3, <2>2 DEF Places, RegsFrom
  <2> QED
    BY <1>1, <2>1, <2>2
<1>5. LocalSlots' = LocalSlots /\ SlotsUniform'
  <2>1. LocalSlots' = LocalSlots
    BY <1>1, <1>2 DEF LocalSlots
  <2>2. \A u \in LocalSlots : loc'[u] = loc[u]
    BY <1>1 DEF LocalSlots
  <2>3. SlotsUniform
    BY <1>3 DEF Places
  <2> QED
    BY <1>3, <2>1, <2>2, <2>3, ZenonT(30) DEF SlotsUniform, SameSlot
<1>6. CallersSlots'
  BY <1>1, <1>2, <1>3 DEF Places, CallersSlots
<1>7. ASSUME NEW u \in DOMAIN loc, Together(u, v) PROVE ~Overlap(u, v)'
  <2>1. loc'[u] # loc'[v] /\ ~IsStack(loc'[v])
    BY <1>1, <1>2, <1>7
  <2> QED
    BY <2>1 DEF Overlap
<1> QED
  BY <1>1, <1>4, <1>5, <1>6, <1>7 DEF PlacedApart, Places

\* In a slot that is new, or one of those whose occupants have all ended.
LEMMA SlotApart ==
  ASSUME NEW v, Ready(v), NEW o \in Int, o < 0, Bind(v, Stack(o)), calleeIdx' = calleeIdx,
         o + func.width[v] <= 0,
         \A u \in LocalSlots : \/ loc[u].off = o /\ func.width[u] = func.width[v]
                               \/ loc[u].off + func.width[u] <= o
                               \/ o + func.width[v] <= loc[u].off,
         \A u \in LocalSlots : loc[u].off = o => ~Together(u, v)
  PROVE  PlacedApart(v) /\ loc'[v] = Stack(o) /\ LocalSlots' = LocalSlots \cup {v}
<1>1. /\ DOMAIN loc' = DOMAIN loc \cup {v} /\ loc'[v] = Stack(o)
      /\ \A u \in DOMAIN loc : loc'[u] = loc[u]
  BY DEF Bind, Ready
<1>2. IsStack(Stack(o)) /\ Stack(o).off = o
  BY DEF IsStack, Stack
<1>3. /\ func' = func /\ meta' = meta /\ Typed /\ Places /\ func \in Funcs
      /\ \A u : OnlyReturnValue(u)' <=> OnlyReturnValue(u)
      /\ v \in VRegs(func) /\ v \notin DOMAIN loc
  BY DEF Ready, OnlyReturnValue, VRegs, Typed
<1>4. RegsFrom'
  BY <1>1, <1>2, <1>3, Zenon DEF RegsFrom, Places
<1>5. LocalSlots' = LocalSlots \cup {v}
  BY <1>1, <1>2 DEF LocalSlots
<1>6. \A u \in LocalSlots : loc'[u] = loc[u] /\ u \in DOMAIN loc
  BY <1>1 DEF LocalSlots
<1>7. SlotsUniform'
  <2> SUFFICES ASSUME NEW t \in LocalSlots', NEW u \in LocalSlots'
               PROVE  \/ loc'[t].off = loc'[u].off /\ func.width[t] = func.width[u]
                      \/ loc'[t].off + func.width[t] <= loc'[u].off
                      \/ loc'[u].off + func.width[u] <= loc'[t].off
    BY <1>3, Zenon DEF SlotsUniform, SameSlot
  <2>1. CASE t \in LocalSlots /\ u \in LocalSlots
    BY <1>3, <1>6, <2>1 DEF Places, SlotsUniform, SameSlot
  <2>2. CASE t = v \/ u = v
    BY <1>1, <1>2, <1>5, <1>6, <2>2
  <2> QED
    BY <1>5, <2>1, <2>2
<1>8. CallersSlots'
  BY <1>1, <1>2, <1>3 DEF Places, CallersSlots
<1>9. ASSUME NEW u \in DOMAIN loc, Together(u, v) PROVE ~Overlap(u, v)'
  <2>1. /\ func.width[u] \in Nat /\ func.width[v] \in Nat /\ loc[u].off \in Int
        /\ IsStack(loc[u]) => loc[u].off # 0
    <3>1. /\ func.width[u] \in Nat /\ loc[u].off \in Int
          /\ IsStack(loc[u]) => loc[u].off # 0
      BY <1>3, PlacedTyped
    <3>2. func.width[v] \in Nat
      BY <1>3, OneFunction DEF Sizes
    <3> QED
      BY <3>1, <3>2
  <2>2. CASE ~IsStack(loc[u])
    BY <1>1, <1>2, <2>2 DEF Overlap
  <2>3. CASE IsStack(loc[u])
    <3>1. loc[u].off + func.width[u] <= o \/ o + func.width[v] <= loc[u].off
      <4>1. CASE loc[u].off > 0
        BY <2>1, <4>1
      <4>2. CASE loc[u].off < 0
        <5>1. u \in LocalSlots
          BY <2>3, <4>2 DEF LocalSlots
        <5> QED
          BY <1>9, <5>1
      <4> QED
        BY <2>1, <2>3, <4>1, <4>2
    <3>2. (loc[u].off .. (loc[u].off + func.width[u] - 1)) \cap (o .. (o + func.width[v] - 1)) = {}
      BY <2>1, <3>1, RangesApart
    <3> QED
      BY <1>1, <1>2, <1>3, <2>3, <3>2 DEF Overlap, Bytes
  <2> QED
    BY <2>2, <2>3
<1> QED
  BY <1>1, <1>4, <1>5, <1>7, <1>8, <1>9 DEF PlacedApart, Places

\* A slot below all others, away from any offset that fits in the bytes taken.
LEMMA FreshSlotApart ==
  ASSUME NEW v, Ready(v), FreshSlot(v), calleeIdx' = calleeIdx
  PROVE  /\ PlacedApart(v) /\ LocalSlots' = LocalSlots \cup {v}
         /\ IsStack(loc'[v]) /\ loc'[v].off \in Int /\ loc'[v].off < -stackBytes
<1> DEFINE size == func.width[v]
           top == AlignUp(stackBytes, size) + size
<1>1. Typed /\ SlotsFit(stackBytes, 0) /\ size \in Sizes /\ stackBytes \in Nat
  BY OneFunction DEF Typed, Ready
<1>2. Bind(v, Stack(-top))
  BY DEF FreshSlot
<1>3. top \in Nat /\ top > stackBytes /\ top >= stackBytes + size
  <2>1. AlignUp(stackBytes, size) \in Nat /\ AlignUp(stackBytes, size) >= stackBytes
    <3>1. size \in {1, 2, 4, 8, 16}
      BY <1>1 DEF Sizes
    <3> HIDE DEF size
    <3> QED
      BY <1>1, <3>1, AlignUpRounds
  <2> QED
    BY <1>1, <2>1 DEF Sizes
<1> HIDE DEF top
<1>4. -top \in Int /\ -top < 0 /\ -top + size <= 0
  BY <1>1, <1>3 DEF Sizes
<1>5. ASSUME NEW u \in LocalSlots
      PROVE  -top + size <= loc[u].off /\ loc[u].off # -top
  <2>1. loc[u].off \in Int /\ -stackBytes <= loc[u].off
    BY <1>1 DEF SlotsFit, Fits, LocalSlots, Typed, LocsTyped
  <2> QED
    BY <1>1, <1>3, <2>1 DEF Sizes
<1>6. PlacedApart(v) /\ loc'[v] = Stack(-top) /\ LocalSlots' = LocalSlots \cup {v}
  BY <1>2, <1>4, <1>5, SlotApart
<1>7. IsStack(Stack(-top)) /\ Stack(-top).off = -top
  BY DEF Stack, IsStack
<1>8. -top < -stackBytes
  BY <1>1, <1>3
<1> QED
  BY <1>4, <1>6, <1>7, <1>8

\* In a temporary's slot: one whose occupants have ended, or a new one.
LEMMA TempSlotApart ==
  ASSUME NEW v, Ready(v), TempSlot(v), calleeIdx' = calleeIdx,
         \A u \in DOMAIN loc : meta[u].def <= meta[u].liveEnd
  PROVE  PlacedApart(v) /\ IsStack(loc'[v])
<1>1. CASE FreshSlot(v)
  BY <1>1, FreshSlotApart
<1>2. ASSUME NEW o \in ExpiredSlots(v), Bind(v, Stack(o))
      PROVE  PlacedApart(v) /\ IsStack(loc'[v])
  <2>1. Typed /\ SlotsFit(stackBytes, 0) /\ SlotsUniform /\ MetaSound /\ v \in VRegs(func)
    BY DEF Ready, Places
  <2>2. PICK w \in SlotMates(v) : loc[w].off = o
    BY DEF ExpiredSlots
  <2>3. w \in LocalSlots /\ func.width[w] = func.width[v] /\ o < 0
    BY <2>2 DEF SlotMates, LocalSlots
  <2>4. o \in Int /\ func.width[v] \in Nat
    <3>1. w \in DOMAIN loc
      BY <2>3 DEF LocalSlots
    <3> QED
      BY <2>1, <2>2, <2>3, <3>1, PlacedTyped
  <2>5. o + func.width[v] <= 0
    <3>1. Fits(loc[w].off, func.width[w], stackBytes, 0)
      BY <2>1, <2>3 DEF SlotsFit
    <3> QED
      BY <2>2, <2>3, <3>1 DEF Fits
  <2>6. \A u \in LocalSlots : \/ loc[u].off = o /\ func.width[u] = func.width[v]
                              \/ loc[u].off + func.width[u] <= o
                              \/ o + func.width[v] <= loc[u].off
    BY <2>1, <2>2, <2>3 DEF SlotsUniform, SameSlot
  <2>7. ASSUME NEW u \in LocalSlots, loc[u].off = o PROVE ~Together(u, v)
    <3>1. u \in DOMAIN loc
      BY DEF LocalSlots
    <3>2. u \in VRegs(func) /\ func.width[u] \in Nat \ {0}
      BY <2>1, <3>1, PlacedTyped DEF Sizes
    <3>3. func.width[u] = func.width[v]
      <4>1. func.width[v] # 0
        <5>1. func.width[v] \in Sizes
          BY <2>1, OneFunction DEF Typed
        <5> QED
          BY <5>1 DEF Sizes
      <4> QED
        BY <2>4, <2>6, <2>7, <3>2, <4>1
    <3>4. u \in SlotMates(v)
      BY <3>1, <3>3 DEF SlotMates, LocalSlots
    <3>5. meta[u].liveEnd < meta[v].def
      BY <2>7, <3>4 DEF ExpiredSlots
    <3>6. meta[u].def <= meta[u].liveEnd
      BY <3>1
    <3>7. /\ meta[u].def \in Nat /\ meta[u].liveEnd \in Nat
          /\ meta[v].def \in Nat /\ meta[v].liveEnd \in Nat
      BY <2>1, <3>2 DEF MetaSound
    <3> QED
      BY <3>5, <3>6, <3>7 DEF Together
  <2>8. PlacedApart(v) /\ loc'[v] = Stack(o)
    BY <1>2, <2>3, <2>4, <2>5, <2>6, <2>7, SlotApart
  <2>9. IsStack(Stack(o))
    BY DEF Stack, IsStack
  <2> QED
    BY <2>8, <2>9
<1> QED
  BY <1>1, <1>2 DEF TempSlot

\* Every integer argument register has a name.
LEMMA ArgsNamed == \A k \in DOMAIN IntArgs : IntArgs[k] # ""
<1> SUFFICES ASSUME NEW k \in DOMAIN IntArgs PROVE IntArgs[k] # ""
  OBVIOUS
<1>1. k \in 1..Len(IntArgs)
  BY LenProperties, RegistersAreNamed
<1>2. IntArgs[k] \in STRING \ {""}
  BY <1>1, ElementOfSeq, RegistersAreNamed
<1> QED
  BY <1>2

\* In the next callee-saved register, which nothing has yet, or a slot.
LEMMA CalleeSavedOrStackApart ==
  ASSUME NEW v, Ready(v), CalleeSavedOrStack(v),
         \A u \in DOMAIN loc : meta[u].def <= meta[u].liveEnd
  PROVE  PlacedApart(v) /\ \A k \in DOMAIN IntArgs : loc'[v].reg # IntArgs[k]
<1>1. \A k \in DOMAIN IntArgs : IntArgs[k] # ""
  BY ArgsNamed
<1>2. ASSUME calleeIdx < Len(CalleeSaved), Bind(v, Reg(CalleeSaved[calleeIdx + 1])),
             calleeIdx' = calleeIdx + 1
      PROVE  PlacedApart(v) /\ \A k \in DOMAIN IntArgs : loc'[v].reg # IntArgs[k]
  <2> DEFINE i == calleeIdx + 1
             r == CalleeSaved[i]
  <2>1. calleeIdx \in Nat /\ i \in Nat \ {0} /\ DOMAIN CalleeSaved = 1..Len(CalleeSaved) /\ i \in DOMAIN CalleeSaved
    <3>1. Len(CalleeSaved) \in Nat /\ DOMAIN CalleeSaved = 1..Len(CalleeSaved)
      BY LenProperties, RegistersAreNamed
    <3>2. calleeIdx \in 0..Len(CalleeSaved)
      BY DEF Ready, Typed
    <3> QED
      BY <1>2, <3>1, <3>2
  <2>2. r \in STRING \ {""}
    BY <2>1, ElementOfSeq, RegistersAreNamed
  <2>3. \A q : Handed(calleeIdx, q) => Handed(calleeIdx', q)
    BY <1>2, <2>1 DEF Handed
  <2>4. Handed(calleeIdx', r)
    BY <1>2, <2>1 DEF Handed
  <2>5. ~Handed(calleeIdx, r) /\ ~ArgReg(r) /\ r # Rax
    <3>1. ASSUME NEW k \in 1..calleeIdx PROVE r # CalleeSaved[k]
      <4>1. k \in DOMAIN CalleeSaved /\ k # i
        BY <1>2, <2>1
      <4> QED
        BY <2>1, <4>1, RegistersAreDistinct
    <3> QED
      BY <2>1, <3>1, RegistersAreDistinct DEF Handed, ArgReg
  <2> HIDE DEF r, i
  <2>6. Bind(v, Reg(r))
    BY <1>2 DEF r, i
  <2>7. Reg(r).reg = r /\ ~IsStack(Reg(r))
    BY <2>2 DEF Reg, IsStack
  <2>8. ASSUME NEW u \in DOMAIN loc PROVE loc[u] # Reg(r)
    <3>1. \/ IsStack(loc[u]) \/ Handed(calleeIdx, loc[u].reg) \/ ArgReg(loc[u].reg)
          \/ loc[u].reg = Rax
      BY DEF Ready, Places, RegsFrom
    <3> QED
      BY <2>5, <2>7, <3>1
  <2>9. PlacedApart(v) /\ loc'[v] = Reg(r)
    BY <2>2, <2>3, <2>4, <2>6, <2>8, RegApart
  <2> QED
    BY <2>5, <2>7, <2>9 DEF ArgReg
<1>3. CASE calleeIdx' = calleeIdx /\ (FreshSlot(v) \/ TempSlot(v))
  <2>1. PlacedApart(v) /\ IsStack(loc'[v])
    BY <1>3, FreshSlotApart, TempSlotApart
  <2> QED
    BY <1>1, <2>1 DEF IsStack
<1> QED
  BY <1>2, <1>3 DEF CalleeSavedOrStack

\* Above %rbp, where each parameter has eight bytes.
LEMMA CallersSlotApart ==
  ASSUME NEW v, Ready(v), v > Len(IntArgs), calleeIdx' = calleeIdx,
         Bind(v, Stack((v - Len(IntArgs) + 1) * 8))
  PROVE  PlacedApart(v) /\ IsStack(loc'[v])
<1> DEFINE o == (v - Len(IntArgs) + 1) * 8
<1>1. /\ DOMAIN loc' = DOMAIN loc \cup {v} /\ loc'[v] = Stack(o)
      /\ \A u \in DOMAIN loc : loc'[u] = loc[u]
  BY DEF Bind, Ready
<1>2. IsStack(Stack(o)) /\ Stack(o).off = o
  BY DEF IsStack, Stack
<1>3. /\ func' = func /\ meta' = meta /\ Typed /\ Places /\ func \in Funcs
      /\ \A u : OnlyReturnValue(u)' <=> OnlyReturnValue(u)
      /\ SlotsFit(stackBytes, 0)
      /\ v \in VRegs(func) /\ v \notin DOMAIN loc
  BY DEF Ready, OnlyReturnValue, VRegs, Typed
<1>4. /\ Len(IntArgs) \in Nat /\ v \in Nat
  <2>1. Len(IntArgs) \in Nat
    BY LenProperties, RegistersAreNamed
  <2>2. v \in Nat
    BY <1>3, OneFunction
  <2> QED
    BY <2>1, <2>2
<1>5. o \in Int /\ o > 0
  BY <1>4
<1> HIDE DEF o
<1>6. RegsFrom'
  BY <1>1, <1>2, <1>3, Zenon DEF RegsFrom, Places
<1>7. LocalSlots' = LocalSlots /\ SlotsUniform'
  <2>1. LocalSlots' = LocalSlots
    BY <1>1, <1>2, <1>3, <1>5 DEF LocalSlots
  <2>2. \A u \in LocalSlots : loc'[u] = loc[u]
    BY <1>1 DEF LocalSlots
  <2>3. SlotsUniform
    BY <1>3 DEF Places
  <2> QED
    BY <1>3, <2>1, <2>2, <2>3 DEF SlotsUniform, SameSlot
<1>8. CallersSlots'
  BY <1>1, <1>2, <1>3, <1>5 DEF Places, CallersSlots, o
<1>9. ASSUME NEW u \in DOMAIN loc PROVE ~Overlap(u, v)'
  <2>1. u \in Nat /\ func.width[u] \in Sizes /\ loc[u].off \in Int
    BY <1>3, PlacedTyped
  <2>5. IsStack(loc[u]) => loc[u].off # 0
    BY <1>3, PlacedTyped
  <2>2. func.width[v] \in Sizes /\ u # v
    BY <1>3, OneFunction
  <2>6. func.width[u] \in 1..8 /\ func.width[v] \in 1..8
    BY <2>1, <2>2 DEF Sizes
  <2>3. CASE ~IsStack(loc[u])
    BY <1>1, <1>2, <2>3 DEF Overlap
  <2>4. CASE IsStack(loc[u])
    <3>1. loc[u].off + func.width[u] <= o \/ o + func.width[v] <= loc[u].off
      <4>1. CASE loc[u].off > 0
        <5>1. loc[u].off = (u - Len(IntArgs) + 1) * 8
          BY <1>3, <2>4, <4>1 DEF Places, CallersSlots
        <5>2. loc[u].off + 8 <= o \/ o + 8 <= loc[u].off
          BY <1>4, <2>1, <2>2, <5>1 DEF o
        <5>3. \A p, q \in Int, a, b \in 1..8 : p + 8 <= q \/ q + 8 <= p => p + a <= q \/ q + b <= p
          OBVIOUS
        <5> QED
          BY <1>5, <2>1, <2>6, <5>2, <5>3
      <4>2. CASE loc[u].off < 0
        <5>1. Fits(loc[u].off, func.width[u], stackBytes, 0)
          BY <1>3, <2>4, <4>2 DEF SlotsFit, LocalSlots
        <5>2. loc[u].off + func.width[u] <= 0
          BY <5>1 DEF Fits
        <5> QED
          BY <1>5, <2>1, <2>6, <5>2, SMTT(40)
      <4> QED
        BY <2>1, <2>4, <2>5, <4>1, <4>2
    <3>2. (loc[u].off .. (loc[u].off + func.width[u] - 1)) \cap (o .. (o + func.width[v] - 1)) = {}
      <4>1. func.width[u] \in Nat /\ func.width[v] \in Nat
        BY <2>6
      <4> QED
        BY <1>5, <2>1, <3>1, <4>1, RangesApart
    <3> QED
      BY <1>1, <1>2, <1>3, <2>4, <3>2 DEF Overlap, Bytes
  <2> QED
    BY <2>3, <2>4
<1> QED
  BY <1>1, <1>2, <1>6, <1>7, <1>8, <1>9 DEF PlacedApart, Places

-----------------------------------------------------------------------------

\* A step that places nothing keeps what is said of the places.
LEMMA SamePlaces ==
  ASSUME UNCHANGED <<func, meta, loc, calleeIdx>>
  PROVE  (Places => Places') /\ (KeptApart => KeptApart') /\ LocalSlots' = LocalSlots
<1>1. func' = func /\ meta' = meta /\ loc' = loc /\ calleeIdx' = calleeIdx
  OBVIOUS
<1>2. \A u : OnlyReturnValue(u)' <=> OnlyReturnValue(u)
  BY <1>1 DEF OnlyReturnValue, VRegs
<1>3. LocalSlots' = LocalSlots
  BY <1>1 DEF LocalSlots
<1>4. ASSUME RegsFrom PROVE RegsFrom'
  BY <1>1, <1>2, <1>4, Zenon DEF RegsFrom
<1>5. ASSUME SlotsUniform PROVE SlotsUniform'
  BY <1>1, <1>3, <1>5, Zenon DEF SlotsUniform, SameSlot
<1>6. ASSUME CallersSlots PROVE CallersSlots'
  BY <1>1, <1>6, Zenon DEF CallersSlots
<1>7. ASSUME KeptApart PROVE KeptApart'
  BY <1>1, <1>7, Zenon DEF KeptApart, Together, Overlap, Bytes
<1> QED
  BY <1>3, <1>4, <1>5, <1>6, <1>7 DEF Places

\* While pass B has not begun, what is placed ends after it is set.
LEMMA PlacedEnd ==
  ASSUME Typed, MetaSound, NoVarsYet, NEW u \in DOMAIN loc
  PROVE  meta[u].def <= meta[u].liveEnd
<1>1. u \in VRegs(func)
  BY PlacedTyped
<1>2. meta[u].def \in Nat /\ meta[u].liveEnd \in Nat
  BY <1>1 DEF MetaSound
<1>3. CASE u \in Params(func)
  BY <1>2, <1>3 DEF MetaSound
<1>4. CASE u \notin Params(func)
  BY <1>2, <1>4 DEF NoVarsYet
<1> QED
  BY <1>3, <1>4

\* The parameters are placed apart.
LEMMA ParamsAInv == FInv /\ MInv /\ AInv /\ AllocParam => AInv'
<1> SUFFICES ASSUME FInv, MInv, AInv, AllocParam PROVE AInv'
  OBVIOUS
<1>1. phase = "params"
  BY DEF AllocParam, ParamOnCallersStack, ParamMoved, ParamStays, ParamsEnd, InPhase, PhaseEnds
<1>2. /\ Typed /\ SlotsFit(stackBytes, 0) /\ Places /\ KeptApart /\ ParamsInOrder /\ NoVarsYet
      /\ func \in Funcs /\ at \in Nat \ {0}
  BY <1>1 DEF FInv, AInv, Placing, Typed
<1>3. MetaSound
  BY <1>1, <1>2, MetaIsSound DEF MInv
<1>4. ASSUME at <= func.params
      PROVE  at \in Params(func) /\ at \in VRegs(func) /\ at \notin DOMAIN loc
  <2>1. at \in Params(func)
    BY <1>2, <1>4, OneFunction DEF Params
  <2>2. at \notin 1..(at - 1)
    BY <1>2
  <2> QED
    BY <1>2, <2>1, <2>2, OneFunction DEF ParamsInOrder
<1>5. ASSUME at <= func.params, GoOn, pool' = pool, PlacedApart(at),
             \A k \in DOMAIN IntArgs : loc'[at].reg = IntArgs[k] => k = at
      PROVE  AInv'
  <2>1. func' = func /\ meta' = meta /\ phase' = phase /\ at' = at + 1
    BY <1>5 DEF GoOn
  <2>2. KeptApart' /\ Places'
    <3>1. at \notin DOMAIN loc
      BY <1>4, <1>5
    <3>2. KeptApart'
      BY <1>2, <1>5, <2>1, <3>1, KeepsApart
    <3> QED
      BY <1>5, <3>2 DEF PlacedApart
  <2>3. ParamsInOrder'
    <3>1. DOMAIN loc' = DOMAIN loc \cup {at} /\ \A u \in DOMAIN loc : loc'[u] = loc[u]
      BY <1>5 DEF PlacedApart
    <3>2. DOMAIN loc' = 1..(at' - 1)
      <4>1. DOMAIN loc = 1..(at - 1)
        BY <1>2 DEF ParamsInOrder
      <4> QED
        BY <1>2, <2>1, <3>1, <4>1
    <3>3. DOMAIN loc' \subseteq Params(func)'
      BY <1>2, <1>4, <1>5, <2>1, <3>1 DEF ParamsInOrder, Params
    <3>4. \A u \in DOMAIN loc', k \in DOMAIN IntArgs : loc'[u].reg = IntArgs[k] => u = k
      BY <1>2, <1>5, <3>1 DEF ParamsInOrder
    <3> QED
      BY <3>2, <3>3, <3>4 DEF ParamsInOrder
  <2>4. NoVarsYet'
    BY <1>2, <1>5, <2>1, <2>3 DEF NoVarsYet, ParamsInOrder
  <2> QED
    BY <1>1, <2>1, <2>2, <2>3, <2>4 DEF AInv
<1>6. ASSUME at <= func.params, GoOn PROVE Ready(at)
  BY <1>2, <1>3, <1>4, <1>6 DEF Ready, GoOn
<1>7. CASE ParamOnCallersStack
  <2>1. /\ at <= func.params /\ at > Len(IntArgs) /\ GoOn /\ pool' = pool /\ calleeIdx' = calleeIdx
        /\ Bind(at, Stack((at - Len(IntArgs) + 1) * 8))
    BY <1>7 DEF ParamOnCallersStack, InPhase
  <2>2. PlacedApart(at) /\ IsStack(loc'[at])
    BY <1>6, <2>1, CallersSlotApart
  <2>3. \A k \in DOMAIN IntArgs : loc'[at].reg # IntArgs[k]
    BY <2>2, ArgsNamed DEF IsStack
  <2> QED
    BY <1>5, <2>1, <2>2, <2>3
<1>8. CASE ParamMoved
  <2>1. at <= func.params /\ GoOn /\ pool' = pool /\ CalleeSavedOrStack(at)
    BY <1>8 DEF ParamMoved, InPhase
  <2>2. \A u \in DOMAIN loc : meta[u].def <= meta[u].liveEnd
    BY <1>2, <1>3, PlacedEnd
  <2>3. PlacedApart(at) /\ \A k \in DOMAIN IntArgs : loc'[at].reg # IntArgs[k]
    BY <1>6, <2>1, <2>2, CalleeSavedOrStackApart
  <2> QED
    BY <1>5, <2>1, <2>3
<1>9. CASE ParamStays
  <2>1. /\ at <= func.params /\ at <= Len(IntArgs) /\ GoOn /\ pool' = pool /\ calleeIdx' = calleeIdx
        /\ Bind(at, Reg(IntArgs[at]))
    BY <1>9 DEF ParamStays, InPhase
  <2>2. at \in DOMAIN IntArgs /\ IntArgs[at] \in STRING \ {""}
    <3>1. at \in 1..Len(IntArgs) /\ DOMAIN IntArgs = 1..Len(IntArgs)
      <4>1. DOMAIN IntArgs = 1..Len(IntArgs) /\ Len(IntArgs) \in Nat
        BY LenProperties, RegistersAreNamed
      <4> QED
        BY <1>2, <2>1, <4>1
    <3> QED
      BY <3>1, ElementOfSeq, RegistersAreNamed
  <2>3. Reg(IntArgs[at]).reg = IntArgs[at]
    BY DEF Reg
  <2>4. ASSUME NEW u \in DOMAIN loc PROVE loc[u] # Reg(IntArgs[at])
    BY <1>2, <1>4, <2>1, <2>2, <2>3 DEF ParamsInOrder
  <2>5. ArgReg(IntArgs[at])
    BY <2>2 DEF ArgReg
  <2>6. Ready(at)
    BY <1>6, <2>1
  <2> DEFINE r == IntArgs[at]
  <2> HIDE DEF r
  <2>7. r \in STRING \ {""} /\ Bind(at, Reg(r)) /\ ArgReg(r) /\ \A u \in DOMAIN loc : loc[u] # Reg(r)
    BY <2>1, <2>2, <2>4, <2>5 DEF r
  <2>8. PlacedApart(at) /\ loc'[at] = Reg(r)
    BY <2>1, <2>6, <2>7, RegApart
  <2>9. \A k \in DOMAIN IntArgs : loc'[at].reg = IntArgs[k] => k = at
    BY <2>2, <2>3, <2>8, RegistersAreDistinct DEF r
  <2> QED
    BY <1>5, <2>1, <2>8, <2>9
<1>10. CASE ParamsEnd
  <2>1. /\ at > func.params /\ phase' = "temps" /\ at' = 1 /\ pool' = pool
        /\ UNCHANGED <<func, meta, loc, calleeIdx>>
    BY <1>10 DEF ParamsEnd, PhaseEnds
  <2>2. Places' /\ KeptApart'
    BY <1>2, <2>1, SamePlaces
  <2>3. NoVarsYet'
    BY <1>2, <2>1 DEF NoVarsYet, Params
  <2>4. Params(func) \subseteq DOMAIN loc
    BY <1>2, <2>1, OneFunction DEF Params, ParamsInOrder
  <2>5. TempsInOrder'
    BY <1>2, <2>1, <2>4 DEF TempsInOrder, ParamsInOrder, Params
  <2> QED
    BY <2>1, <2>2, <2>3, <2>5 DEF AInv
<1> QED
  BY <1>7, <1>8, <1>9, <1>10 DEF AllocParam

-----------------------------------------------------------------------------

\* Only one VReg is the only return value.
LEMMA OneReturnValue ==
  ASSUME func \in Funcs, NEW u \in VRegs(func), NEW v \in VRegs(func),
         OnlyReturnValue(u), OnlyReturnValue(v)
  PROVE  u = v
<1> DEFINE S == {w \in VRegs(func) : meta[w].isRet}
<1>1. u \in S /\ v \in S /\ Cardinality(S) = 1
  BY DEF OnlyReturnValue
<1>2. IsFiniteSet(VRegs(func))
  <2>1. VRegs(func) = 1..Len(func.width) /\ Len(func.width) \in Nat
    BY OneFunction
  <2> QED
    BY <2>1, FS_Interval
<1>3. IsFiniteSet(S)
  BY <1>2, FS_Subset
<1> HIDE DEF S
<1>4. \E x : S = {x}
  BY <1>1, <1>3, FS_Singleton
<1> QED
  BY <1>1, <1>4

\* The register a call wants v in is one of the argument registers.
LEMMA DesiredIsArg ==
  ASSUME MInv, phase # "meta", NEW v \in VRegs(func), ~NoCallTakes(v)
  PROVE  ArgReg(Desired(v))
<1> DEFINE use == CHOOSE u \in meta[v].calls : TRUE
<1>1. meta[v].calls = CallUses(func, v)
  BY DEF MInv, MetaOf
<1>2. use \in CallUses(func, v)
  BY <1>1 DEF NoCallTakes
<1>3. use[2] \in 1..Len(IntArgs)
  BY <1>2 DEF CallUses
<1>4. use[2] \in DOMAIN IntArgs
  BY <1>3, LenProperties, RegistersAreNamed
<1> QED
  BY <1>4 DEF Desired, ArgReg

\* Nothing else is in a register that is not occupied while v is alive.
LEMMA NotOccupied ==
  ASSUME Typed, MetaSound, NoVarsYet, TempsInOrder, NEW v \in VRegs(func), v = at,
         v \notin DOMAIN loc, 1 <= meta[v].def, ~Occupied(v),
         NEW u \in DOMAIN loc, Together(u, v)
  PROVE  loc[u] # Reg(Desired(v))
<1> SUFFICES ASSUME loc[u] = Reg(Desired(v)) PROVE FALSE
  OBVIOUS
<1>1. u \in VRegs(func) /\ u \in Nat /\ v \in Nat
  BY PlacedTyped, OneFunction DEF Typed
<1>2. /\ meta[u].def \in Nat /\ meta[u].liveEnd \in Nat
      /\ meta[v].def \in Nat /\ meta[v].liveEnd \in Nat
  BY <1>1 DEF MetaSound
<1>3. ~(AtLeastFirst(meta[u].def) <= meta[v].def /\ meta[u].liveEnd > meta[v].def)
  BY DEF Occupied
<1>4. CASE meta[u].def <= meta[v].def /\ meta[v].def < meta[u].liveEnd
  BY <1>2, <1>3, <1>4 DEF AtLeastFirst
<1>5. CASE meta[v].def <= meta[u].def /\ meta[u].def < meta[v].liveEnd
  <2>1. u \notin Params(func) /\ u < v
    <3>1. meta[u].def # 0
      BY <1>2, <1>5
    <3>2. u \notin Params(func)
      BY <3>1 DEF MetaSound
    <3> QED
      BY <3>2 DEF TempsInOrder
  <2>2. meta[v].def # meta[u].def
    <3>1. meta[u].def = meta[v].def /\ meta[v].def # 0 => u = v
      BY <1>1 DEF MetaSound
    <3> QED
      BY <1>2, <3>1
  <2>3. 0 < meta[v].def /\ meta[v].def < meta[u].def
    BY <1>2, <1>5, <2>2
  <2>4. meta[v].liveEnd <= meta[u].def
    BY <1>1, <2>1, <2>3 DEF MetaSound
  <2> QED
    BY <1>2, <1>5, <2>4
<1> QED
  BY <1>4, <1>5 DEF Together

\* Pass A places temporaries apart.
LEMMA TempsAInv == FInv /\ MInv /\ AInv /\ AllocTemp => AInv'
<1> SUFFICES ASSUME FInv, MInv, AInv, AllocTemp PROVE AInv'
  OBVIOUS
<1>1. phase = "temps"
  BY DEF AllocTemp, TempBoundOrVar, TempInRax, TempKept, TempDead, TempInArgReg, TempForCallKept,
         TempsEnd, InPhase, PhaseEnds
<1>2. /\ Typed /\ SlotsFit(stackBytes, 0) /\ Places /\ KeptApart /\ TempsInOrder /\ NoVarsYet
      /\ func \in Funcs /\ at \in Nat \ {0}
  BY <1>1 DEF FInv, AInv, Placing, Typed
<1>3. MetaSound
  BY <1>1, <1>2, MetaIsSound DEF MInv
<1>4. ASSUME at <= LastVReg PROVE at \in VRegs(func)
  <2>1. Len(func.width) \in Nat /\ VRegs(func) = 1..Len(func.width)
    BY <1>2, OneFunction
  <2>2. LastVReg = Len(func.width)
    BY <2>1, FS_Interval DEF LastVReg
  <2> QED
    BY <1>2, <1>4, <2>1, <2>2
<1>5. ASSUME GoOn, UNCHANGED <<loc, calleeIdx, pool>> PROVE AInv'
  <2>1. /\ func' = func /\ meta' = meta /\ phase' = phase /\ at' = at + 1
        /\ loc' = loc /\ calleeIdx' = calleeIdx /\ pool' = pool
    BY <1>5 DEF GoOn
  <2>2. Places' /\ KeptApart'
    BY <1>2, <2>1, SamePlaces
  <2>3. NoVarsYet'
    BY <1>2, <2>1 DEF NoVarsYet, Params
  <2>4. TempsInOrder'
    <3>1. \A u \in DOMAIN loc : u \in Nat
      BY <1>2, PlacedTyped
    <3> QED
      BY <1>2, <2>1, <3>1 DEF TempsInOrder, Params
  <2> QED
    BY <1>1, <2>1, <2>2, <2>3, <2>4 DEF AInv
<1>6. ASSUME at <= LastVReg, Temp(at), meta[at].isRet \/ meta[at].plain \/ ~NoCallTakes(at)
      PROVE  1 <= meta[at].def /\ meta[at].def < meta[at].liveEnd
  <2>1. at \notin Params(func)
    BY <1>2, <1>6 DEF Temp, TempsInOrder
  <2> QED
    BY <1>3, <1>4, <1>6, <2>1 DEF MetaSound, NoCallTakes
<1>7. ASSUME at <= LastVReg, Temp(at), meta[at].isRet \/ meta[at].plain \/ ~NoCallTakes(at),
             GoOn, pool' = pool, PlacedApart(at)
      PROVE  AInv'
  <2>1. func' = func /\ meta' = meta /\ phase' = phase /\ at' = at + 1
    BY <1>7 DEF GoOn
  <2>2. at \notin DOMAIN loc /\ ~meta[at].isVar
    BY <1>7 DEF Temp
  <2>3. KeptApart' /\ Places'
    <3>1. KeptApart'
      BY <1>2, <1>7, <2>1, <2>2, KeepsApart
    <3> QED
      BY <1>7, <3>1 DEF PlacedApart
  <2>4. DOMAIN loc' = DOMAIN loc \cup {at}
    BY <1>7 DEF PlacedApart
  <2>5. NoVarsYet'
    BY <1>2, <1>6, <1>7, <2>1, <2>2, <2>4 DEF NoVarsYet, Params
  <2>6. TempsInOrder'
    <3>1. \A u \in DOMAIN loc : u \in Nat
      BY <1>2, PlacedTyped
    <3> QED
      BY <1>2, <2>1, <2>4, <3>1 DEF TempsInOrder, Params
  <2> QED
    BY <1>1, <2>1, <2>3, <2>5, <2>6 DEF AInv
<1>8. ASSUME at <= LastVReg, Temp(at), GoOn PROVE Ready(at)
  BY <1>2, <1>3, <1>4, <1>8 DEF Ready, GoOn, Temp
<1>9. CASE TempBoundOrVar \/ TempDead
  BY <1>5, <1>9 DEF TempBoundOrVar, TempDead
<1>10. CASE TempInRax
  <2>1. /\ at <= LastVReg /\ Temp(at) /\ OnlyReturnValue(at) /\ GoOn /\ pool' = pool
        /\ calleeIdx' = calleeIdx /\ Bind(at, Reg(Rax))
    BY <1>10 DEF TempInRax, InPhase
  <2>2. Ready(at) /\ meta[at].isRet
    BY <1>8, <2>1 DEF OnlyReturnValue
  <2>3. ASSUME NEW u \in DOMAIN loc PROVE loc[u] # Reg(Rax)
    <3>1. Rax # "" /\ Reg(Rax).reg = Rax
      BY RegistersAreNamed DEF Reg
    <3>2. ~ArgReg(Rax)
      BY RegistersAreDistinct DEF ArgReg
    <3>3. ~Handed(calleeIdx, Rax)
      <4>1. calleeIdx \in 0..Len(CalleeSaved)
        BY <1>2 DEF Typed
      <4>2. DOMAIN CalleeSaved = 1..Len(CalleeSaved) /\ Len(CalleeSaved) \in Nat
        BY LenProperties, RegistersAreNamed
      <4>3. \A k \in 1..calleeIdx : k \in DOMAIN CalleeSaved
        BY <4>1, <4>2
      <4> QED
        BY <4>3, RegistersAreDistinct DEF Handed
    <3>4. ~OnlyReturnValue(u)
      <4>1. u \in VRegs(func) /\ u # at
        BY <1>2, <2>1, PlacedTyped DEF Temp
      <4> QED
        BY <1>2, <1>4, <2>1, <4>1, OneReturnValue
    <3>5. \/ IsStack(loc[u]) \/ Handed(calleeIdx, loc[u].reg) \/ ArgReg(loc[u].reg)
          \/ loc[u].reg = Rax /\ OnlyReturnValue(u)
      BY <1>2 DEF Places, RegsFrom
    <3> QED
      BY <3>1, <3>2, <3>3, <3>4, <3>5 DEF IsStack
  <2>4. PlacedApart(at)
    <3>1. Rax \in STRING \ {""}
      BY RegistersAreNamed
    <3> QED
      BY <2>1, <2>2, <2>3, <3>1, RegApart
  <2> QED
    BY <1>7, <2>1, <2>2, <2>4
<1>11. CASE TempKept \/ TempForCallKept
  <2>1. /\ at <= LastVReg /\ Temp(at) /\ GoOn /\ pool' = pool /\ CalleeSavedOrStack(at)
        /\ meta[at].isRet \/ meta[at].plain \/ ~NoCallTakes(at)
    BY <1>11 DEF TempKept, TempForCallKept, InPhase
  <2>2. \A u \in DOMAIN loc : meta[u].def <= meta[u].liveEnd
    BY <1>2, <1>3, PlacedEnd
  <2>3. PlacedApart(at)
    BY <1>8, <2>1, <2>2, CalleeSavedOrStackApart
  <2> QED
    BY <1>7, <2>1, <2>3
<1>12. CASE TempInArgReg
  <2>1. /\ at <= LastVReg /\ Temp(at) /\ ~NoCallTakes(at) /\ ~Occupied(at) /\ GoOn /\ pool' = pool
        /\ calleeIdx' = calleeIdx /\ Bind(at, Reg(Desired(at)))
    BY <1>12 DEF TempInArgReg, InPhase
  <2>2. Ready(at) /\ at \in VRegs(func) /\ at \notin DOMAIN loc
    BY <1>4, <1>8, <2>1 DEF Temp
  <2>3. 1 <= meta[at].def
    BY <1>6, <2>1
  <2> DEFINE r == Desired(at)
  <2>4. \A u \in DOMAIN loc : Together(u, at) => loc[u] # Reg(r)
    BY <1>2, <1>3, <2>1, <2>2, <2>3, NotOccupied
  <2>5. r \in STRING \ {""} /\ ArgReg(r) /\ Bind(at, Reg(r))
    BY <1>1, <2>1, <2>2, DesiredIsNamed, DesiredIsArg
  <2> HIDE DEF r
  <2>6. PlacedApart(at)
    BY <2>1, <2>2, <2>4, <2>5, RegApart
  <2> QED
    BY <1>7, <2>1, <2>6
<1>13. CASE TempsEnd
  <2>1. phase' = "vars" /\ pool' = pool /\ UNCHANGED <<func, meta, loc, calleeIdx>>
    BY <1>13 DEF TempsEnd, PhaseEnds
  <2>2. Places' /\ KeptApart' /\ LocalSlots' = LocalSlots
    BY <1>2, <2>1, SamePlaces
  <2>3. \A s \in Sizes : DOMAIN pool'[s] = {}
    BY <1>2, <2>1 DEF NoVarsYet
  <2>4. \A u \in LocalSlots' : ~Variable(u)'
    BY <1>2, <2>1, <2>2 DEF Variable, NoVarsYet, LocalSlots, Params
  <2>5. PoolSound'
    BY <2>3, <2>4, Zenon DEF PoolSound, PoolDistinct, PoolOccupied, PoolGone, SharersGone
  <2> QED
    BY <2>1, <2>2, <2>5 DEF AInv
<1> QED
  BY <1>9, <1>10, <1>11, <1>12, <1>13 DEF AllocTemp

-----------------------------------------------------------------------------

\* What has gone stays so as the pass goes on.
LEMMA GoneStays ==
  ASSUME func \in Funcs, at \in Nat, given \in Nat, func' = func,
         (at' = at /\ given' = given + 1) \/ at' = at + 1,
         NEW u, Gone(u)
  PROVE  Gone(u)'
<1>1. PICK k \in Indices(func) :
        /\ func.code[k].op = "leave"
        /\ \E n \in DOMAIN func.code[k].src :
             func.code[k].src[n] = u /\ (k < at \/ (k = at /\ n <= given))
  BY DEF Gone
<1>2. PICK n \in DOMAIN func.code[k].src :
        func.code[k].src[n] = u /\ (k < at \/ (k = at /\ n <= given))
  BY <1>1
<1>3. k \in Nat /\ n \in Nat
  <2>1. func.code[k].src \in Seq((func.params + 1)..Len(func.width)) /\ k \in 1..Len(func.code)
    BY <1>1, FunctionShape
  <2> QED
    BY <2>1, LenProperties
<1>4. k < at' \/ (k = at' /\ n <= given')
  BY <1>2, <1>3
<1> QED
  BY <1>1, <1>2, <1>4 DEF Gone, Indices

\* A variable that has gone has ended before what a later instruction sets.
LEMMA GoneEnded ==
  ASSUME MetaSound, func \in Funcs, at \in Nat, NEW u, Gone(u), func.code[at].op # "leave",
         NEW v \in VRegs(func), meta[v].def = at
  PROVE  ~Together(u, v)
<1>1. PICK k \in Indices(func) :
        /\ func.code[k].op = "leave"
        /\ \E n \in DOMAIN func.code[k].src :
             func.code[k].src[n] = u /\ (k < at \/ (k = at /\ n <= given))
  BY DEF Gone
<1>2. PICK n \in DOMAIN func.code[k].src :
        func.code[k].src[n] = u /\ (k < at \/ (k = at /\ n <= given))
  BY <1>1
<1>3. k < at /\ k \in Nat
  BY <1>1, <1>2, FunctionShape
<1>4. u \in VRegs(func) /\ 1 <= meta[u].def /\ meta[u].def < k /\ meta[u].liveEnd <= k
  BY <1>1, <1>2 DEF MetaSound
<1>5. /\ meta[u].def \in Nat /\ meta[u].liveEnd \in Nat
      /\ meta[v].def \in Nat /\ meta[v].liveEnd \in Nat
  BY <1>4 DEF MetaSound
<1> QED
  BY <1>3, <1>4, <1>5 DEF Together

\* Offsets in the pool, and where they come from.
LEMMA PoolTyped ==
  ASSUME Typed, PoolFits, NEW s \in Sizes, NEW i \in DOMAIN pool[s]
  PROVE  pool[s][i] \in Int /\ -stackBytes <= pool[s][i] /\ pool[s][i] + s <= 0
<1>1. pool[s] \in Seq(Int)
  BY DEF Typed
<1>2. pool[s][i] \in Int
  BY <1>1
<1> QED
  BY <1>2 DEF PoolFits, Fits

\* The instruction that sets a variable is no block's end, and no parameter's.
LEMMA VarIsSet ==
  ASSUME MInv, Typed, phase = "vars", NEW v \in VarsDefinedAt(at), at <= Len(func.code)
  PROVE  /\ v \in VRegs(func) /\ v \notin DOMAIN loc /\ Variable(v)
         /\ meta[v].def = at /\ func.code[at].op # "leave"
<1>1. v \in VRegs(func) /\ meta[v].isVar /\ meta[v].def = at /\ v \notin DOMAIN loc
  BY DEF VarsDefinedAt
<1>2. func \in Funcs /\ at \in Nat \ {0}
  BY DEF Typed
<1>3. MetaSound
  BY <1>2, MetaIsSound DEF MInv
<1>4. v \notin Params(func)
  BY <1>1, <1>2, <1>3 DEF MetaSound
<1>5. DefIdx(func, v) = at
  BY <1>1 DEF MInv, MetaOf
<1>6. Defines(func.code[at]) = v
  BY <1>1, <1>2, <1>5, DefIdxIs
<1>7. v # 0
  BY <1>1, <1>2, FunctionShape
<1> QED
  BY <1>1, <1>4, <1>6, <1>7 DEF Defines, Variable

\* A variable in a new slot keeps the pool as it is.
LEMMA VarInFreshSlot ==
  ASSUME FInv, MInv, AInv, phase = "vars", NEW v \in VarsDefinedAt(at), at <= Len(func.code),
         FreshSlot(v), pool' = pool, GoOn, calleeIdx' = calleeIdx
  PROVE  PlacedApart(v) /\ PoolSound'
<1>1. /\ Typed /\ SlotsFit(stackBytes, 0) /\ PoolFits /\ Places /\ PoolSound
      /\ func \in Funcs /\ at \in Nat /\ given \in Nat
      /\ func' = func /\ meta' = meta /\ at' = at + 1
  BY DEF FInv, AInv, Placing, Typed, GoOn
<1>2. v \in VRegs(func) /\ v \notin DOMAIN loc /\ Variable(v)
  BY <1>1, VarIsSet
<1>3. Ready(v)
  BY <1>1, <1>2, MetaIsSound DEF Ready, MInv
<1>4. /\ PlacedApart(v) /\ LocalSlots' = LocalSlots \cup {v}
      /\ IsStack(loc'[v]) /\ loc'[v].off \in Int /\ loc'[v].off < -stackBytes
  BY <1>3, FreshSlotApart
<1>5. \A u \in LocalSlots : loc'[u] = loc[u] /\ u # v
  BY <1>2, <1>4 DEF PlacedApart, LocalSlots
<1>6. \A u \in LocalSlots : loc'[u].off # loc'[v].off
  <2> SUFFICES ASSUME NEW u \in LocalSlots PROVE loc[u].off # loc'[v].off
    BY <1>5
  <2>1. Fits(loc[u].off, func.width[u], stackBytes, 0) /\ loc[u].off \in Int /\ stackBytes \in Nat
    BY <1>1 DEF SlotsFit, LocalSlots, Typed, LocsTyped
  <2> QED
    BY <1>4, <2>1 DEF Fits
<1>7. \A u : Gone(u) => Gone(u)'
  BY <1>1, GoneStays
<1>8. PoolDistinct' /\ PoolOccupied'
  BY <1>1, <1>4, <1>5 DEF PoolSound, PoolDistinct, PoolOccupied
<1>9. PoolGone'
  <2> SUFFICES ASSUME NEW s \in Sizes, NEW i \in DOMAIN pool[s], NEW u \in LocalSlots',
                      loc'[u].off = pool[s][i]
               PROVE  Gone(u)'
    BY DEF PoolGone
  <2>1. CASE u = v
    <3>1. -stackBytes <= pool[s][i] /\ pool[s][i] \in Int /\ stackBytes \in Nat
      BY <1>1, PoolTyped DEF Typed
    <3> QED
      BY <1>4, <2>1, <3>1
  <2>2. CASE u \in LocalSlots
    <3>1. Gone(u)
      BY <1>1, <1>5, <2>2 DEF PoolSound, PoolGone
    <3> QED
      BY <1>7, <3>1
  <2> QED
    BY <1>4, <2>1, <2>2
<1>10. SharersGone'
  <2> SUFFICES ASSUME NEW t \in LocalSlots', NEW u \in LocalSlots', t # u,
                      loc'[t].off = loc'[u].off, Variable(t)
               PROVE  Gone(t)' \/ Gone(u)'
    BY <1>1 DEF SharersGone, Variable, Params
  <2>1. t \in LocalSlots /\ u \in LocalSlots
    BY <1>4, <1>6
  <2>2. Gone(t) \/ Gone(u)
    BY <1>1, <1>5, <2>1 DEF PoolSound, SharersGone
  <2> QED
    BY <1>7, <2>2
<1> QED
  BY <1>4, <1>8, <1>9, <1>10 DEF PoolSound

\* So does one in the last slot of the pool, whose occupants have all gone.
LEMMA VarInPoolSlot ==
  ASSUME FInv, MInv, AInv, phase = "vars", NEW v \in VarsDefinedAt(at), at <= Len(func.code),
         NEW free, free = pool[func.width[v]], free # << >>, Bind(v, Stack(free[Len(free)])),
         pool' = [pool EXCEPT ![func.width[v]] = SubSeq(free, 1, Len(free) - 1)],
         GoOn, calleeIdx' = calleeIdx
  PROVE  PlacedApart(v) /\ PoolSound'
<1> DEFINE n == Len(free)
           o == free[n]
           size == func.width[v]
<1>1. /\ Typed /\ SlotsFit(stackBytes, 0) /\ PoolFits /\ Places /\ PoolSound
      /\ func \in Funcs /\ at \in Nat /\ given \in Nat
      /\ func' = func /\ meta' = meta /\ at' = at + 1
  BY DEF FInv, AInv, Placing, Typed, GoOn
<1>2. /\ v \in VRegs(func) /\ v \notin DOMAIN loc /\ Variable(v)
      /\ meta[v].def = at /\ func.code[at].op # "leave"
  BY <1>1, VarIsSet
<1>3. Ready(v) /\ MetaSound
  BY <1>1, <1>2, MetaIsSound DEF Ready, MInv
<1>4. size \in Sizes /\ pool \in [Sizes -> Seq(Int)] /\ free \in Seq(Int)
  BY <1>1, <1>2, OneFunction DEF Typed
<1>5. n \in Nat \ {0} /\ DOMAIN free = 1..n /\ n \in DOMAIN free
  <2>1. n \in Nat /\ DOMAIN free = 1..n /\ n # 0
    BY <1>4, EmptySeq, LenProperties
  <2> QED
    BY <2>1
<1>6. o \in Int /\ o + size <= 0 /\ o < 0
  <2>1. o \in Int /\ o + size <= 0
    BY <1>1, <1>4, <1>5, PoolTyped
  <2>2. size \in 1..8
    BY <1>4 DEF Sizes
  <2> HIDE DEF o, size
  <2> QED
    BY <2>1, <2>2
<1>7. PICK w \in LocalSlots : loc[w].off = o /\ func.width[w] = size
  BY <1>1, <1>4, <1>5, ZenonT(40) DEF PoolSound, PoolOccupied
<1>8. \A u \in LocalSlots : \/ loc[u].off = o /\ func.width[u] = size
                            \/ loc[u].off + func.width[u] <= o
                            \/ o + size <= loc[u].off
  <2> SUFFICES ASSUME NEW u \in LocalSlots
               PROVE  \/ loc[u].off = o /\ func.width[u] = size
                      \/ loc[u].off + func.width[u] <= o
                      \/ o + size <= loc[u].off
    OBVIOUS
  <2>1. SlotsUniform
    BY <1>1 DEF Places
  <2>2. \/ SameSlot(u, w)
        \/ loc[u].off + func.width[u] <= loc[w].off
        \/ loc[w].off + func.width[w] <= loc[u].off
    BY <2>1 DEF SlotsUniform
  <2> HIDE DEF o, size
  <2> QED
    BY <1>7, <2>2 DEF SameSlot
<1>9. \A u \in LocalSlots : loc[u].off = o => Gone(u)
  BY <1>1, <1>4, <1>5 DEF PoolSound, PoolGone
<1>10. \A u \in LocalSlots : loc[u].off = o => ~Together(u, v)
  BY <1>1, <1>2, <1>3, <1>9, GoneEnded
<1>11. PlacedApart(v) /\ loc'[v] = Stack(o) /\ LocalSlots' = LocalSlots \cup {v}
  <2>1. Bind(v, Stack(o)) /\ o + func.width[v] <= 0
    BY <1>6, SMTT(30)
  <2>2. \A u \in LocalSlots : \/ loc[u].off = o /\ func.width[u] = func.width[v]
                              \/ loc[u].off + func.width[u] <= o
                              \/ o + func.width[v] <= loc[u].off
    BY <1>8
  <2> HIDE DEF o, size
  <2> QED
    BY <1>3, <1>6, <1>10, <2>1, <2>2, SlotApart
<1>12. \A u \in LocalSlots : loc'[u] = loc[u] /\ u # v
  BY <1>2, <1>11 DEF PlacedApart, LocalSlots
<1>13. loc'[v].off = o
  <2>1. Stack(o).off = o
    BY DEF Stack
  <2> QED
    BY <1>11, <2>1
<1>14. \A u : Gone(u) => Gone(u)'
  BY <1>1, GoneStays, SMTT(30)
<1>15. ASSUME NEW s \in Sizes, NEW i \in DOMAIN pool'[s]
       PROVE  i \in DOMAIN pool[s] /\ pool'[s][i] = pool[s][i] /\ pool[s][i] # o
  <2> DEFINE rest == SubSeq(free, 1, n - 1)
  <2>1. rest \in Seq(Int) /\ Len(rest) = n - 1 /\ \A k \in 1..(n - 1) : rest[k] = free[k]
    <3>1. \A k \in 1..(n - 1) : free[k] \in Int
      BY <1>4, <1>5, ElementOfSeq
    <3>2. 1 \in Int /\ n - 1 \in Int
      BY <1>5
    <3> QED
      BY <1>5, <3>1, <3>2, SubSeqProperties, SMTT(30)
  <2>2. DOMAIN rest = 1..(n - 1)
    BY <2>1, LenProperties
  <2> HIDE DEF rest
  <2>3. pool' = [pool EXCEPT ![size] = rest]
    BY DEF rest
  <2> HIDE DEF n, size
  <2>4. CASE s # size
    <3>1. pool'[s] = pool[s]
      BY <1>4, <2>3, <2>4
    <3>2. n \in DOMAIN pool[size] /\ pool[size][n] = o
      BY <1>5 DEF size
    <3> HIDE DEF o
    <3>3. pool[s][i] # o
      BY <1>1, <1>4, <1>15, <2>4, <3>1, <3>2, ZenonT(30) DEF PoolSound, PoolDistinct
    <3> QED
      BY <1>15, <3>1, <3>3
  <2>5. CASE s = size
    <3>1. pool'[s] = rest /\ pool[s] = free
      BY <1>4, <2>3, <2>5 DEF size
    <3>2. i \in 1..(n - 1)
      BY <1>15, <2>2, <3>1
    <3>3. i \in DOMAIN pool[s] /\ i # n /\ n \in DOMAIN pool[s] /\ pool[s][n] = o
      BY <1>5, <3>1, <3>2, SMTT(30)
    <3>4. pool'[s][i] = pool[s][i]
      BY <2>1, <3>1, <3>2
    <3> HIDE DEF o
    <3>5. pool[s][i] # o
      BY <1>1, <3>3 DEF PoolSound, PoolDistinct
    <3> QED
      BY <3>3, <3>4, <3>5
  <2> QED
    BY <2>4, <2>5
<1> HIDE DEF n, o, size
<1>16. PoolDistinct'
  BY <1>1, <1>15, SMTT(30) DEF PoolSound, PoolDistinct
<1>17. PoolOccupied'
  <2> SUFFICES ASSUME NEW s \in Sizes, NEW i \in DOMAIN pool'[s]
               PROVE  \E u \in LocalSlots' : loc'[u].off = pool'[s][i] /\ func.width[u] = s
    BY <1>1 DEF PoolOccupied
  <2>1. PICK u \in LocalSlots : loc[u].off = pool[s][i] /\ func.width[u] = s
    BY <1>1, <1>15 DEF PoolSound, PoolOccupied
  <2> QED
    BY <1>11, <1>12, <1>15, <2>1
<1>18. PoolGone'
  <2> SUFFICES ASSUME NEW s \in Sizes, NEW i \in DOMAIN pool'[s], NEW u \in LocalSlots',
                      loc'[u].off = pool'[s][i]
               PROVE  Gone(u)'
    BY DEF PoolGone
  <2>1. u \in LocalSlots /\ loc[u].off = pool[s][i] /\ i \in DOMAIN pool[s]
    BY <1>11, <1>12, <1>13, <1>15
  <2>2. Gone(u)
    BY <1>1, <2>1 DEF PoolSound, PoolGone
  <2> QED
    BY <1>14, <2>2
<1>19. SharersGone'
  <2> SUFFICES ASSUME NEW t \in LocalSlots', NEW u \in LocalSlots', t # u,
                      loc'[t].off = loc'[u].off, Variable(t)
               PROVE  Gone(t)' \/ Gone(u)'
    BY <1>1 DEF SharersGone, Variable, Params
  <2>1. CASE t \in LocalSlots /\ u \in LocalSlots
    <3>1. Gone(t) \/ Gone(u)
      BY <1>1, <1>12, <2>1 DEF PoolSound, SharersGone
    <3> QED
      BY <1>14, <3>1
  <2>2. CASE t \in LocalSlots /\ u = v
    BY <1>9, <1>12, <1>13, <1>14, <2>2
  <2>3. CASE t = v /\ u \in LocalSlots
    BY <1>9, <1>12, <1>13, <1>14, <2>3
  <2> QED
    BY <1>11, <2>1, <2>2, <2>3
<1> QED
  BY <1>11, <1>16, <1>17, <1>18, <1>19 DEF PoolSound

\* What a block's variable gives back is not in the pool, and all that share
\* its slot have gone.
LEMMA GiveBackSound ==
  ASSUME FInv, MInv, AInv, GiveBack
  PROVE  PoolSound'
<1> DEFINE args == func.code[at].src
<1>0. PICK v : v = args[given + 1]
  BY Zenon
<1> DEFINE size == func.width[v]
           o == loc[v].off
<1>1. /\ Typed /\ Places /\ PoolSound /\ func \in Funcs /\ at \in Nat \ {0} /\ given \in Nat
      /\ func' = func /\ meta' = meta /\ loc' = loc /\ at' = at /\ given' = given + 1
      /\ phase = "vars"
  BY Zenon DEF FInv, AInv, Placing, Typed, GiveBack, Leaving, InPhase
<1>2. /\ at \in Indices(func) /\ func.code[at].op = "leave"
      /\ given + 1 \in DOMAIN args /\ DOMAIN args \subseteq Nat
  <2>1. at <= Len(func.code) /\ func.code[at].op = "leave" /\ given < Len(args)
    BY Zenon DEF GiveBack, Leaving, InPhase
  <2>2. at \in Indices(func)
    BY <1>1, <2>1, FunctionShape
  <2>3. args \in Seq((func.params + 1)..Len(func.width))
    BY <1>1, <2>1, <2>2, FunctionShape
  <2>4. DOMAIN args = 1..Len(args) /\ Len(args) \in Nat
    BY <2>3, LenProperties
  <2> HIDE DEF args
  <2> QED
    BY <1>1, <2>1, <2>2, <2>4
<1>3. MetaSound
  BY <1>1, MetaIsSound DEF MInv
<1>4. v \in VRegs(func) /\ v \notin Params(func) /\ meta[v].isVar
  BY <1>0, <1>2, <1>3 DEF MetaSound
<1>5. LocalSlots' = LocalSlots
  BY <1>1 DEF LocalSlots
<1>6. \A u : Gone(u) => Gone(u)'
  BY <1>1, GoneStays
<1>7. Gone(v)'
  <2>1. at = at' /\ given + 1 <= given'
    BY <1>1
  <2> QED
    BY <1>0, <1>1, <1>2, <2>1 DEF Gone, Indices
<1>8. ~Gone(v)
  <2> SUFFICES ASSUME NEW k \in Indices(func), func.code[k].op = "leave",
                      NEW n \in DOMAIN func.code[k].src, func.code[k].src[n] = v,
                      k < at \/ (k = at /\ n <= given)
               PROVE  FALSE
    BY DEF Gone
  <2>1. LeavesOnce(func)
    BY <1>1, FunctionShape
  <2>2. k = at /\ n = given + 1
    BY <1>0, <1>2, <2>1 DEF LeavesOnce
  <2> QED
    BY <1>1, <2>2
<1> HIDE DEF args
<1>9. SharersGone'
  <2> SUFFICES ASSUME NEW t \in LocalSlots, NEW u \in LocalSlots, t # u,
                      loc[t].off = loc[u].off, Variable(t)
               PROVE  Gone(t)' \/ Gone(u)'
    BY <1>1, <1>5 DEF SharersGone, Variable, Params
  <2>1. Gone(t) \/ Gone(u)
    BY <1>1 DEF PoolSound, SharersGone
  <2> QED
    BY <1>6, <2>1
<1>10. CASE ~(v \in DOMAIN loc /\ IsStack(loc[v]))
  <2>1. pool' = pool
    BY <1>0, <1>10, Zenon DEF GiveBack, args
  <2>2. PoolDistinct' /\ PoolOccupied'
    BY <1>1, <1>5, <2>1 DEF PoolSound, PoolDistinct, PoolOccupied
  <2>3. PoolGone'
    BY <1>1, <1>5, <1>6, <2>1 DEF PoolSound, PoolGone
  <2> QED
    BY <1>9, <2>2, <2>3 DEF PoolSound
<1>11. CASE v \in DOMAIN loc /\ IsStack(loc[v])
  <2>1. pool' = [pool EXCEPT ![size] = Append(pool[size], o)]
    BY <1>0, <1>11, Zenon DEF GiveBack, args
  <2>2. v \in LocalSlots /\ o \in Int /\ size \in Sizes
    BY <1>1, <1>4, <1>11, PlacedTyped DEF LocalSlots
  <2>3. \A s \in Sizes : \A i \in DOMAIN pool[s] : pool[s][i] # o
    BY <1>1, <1>8, <2>2 DEF PoolSound, PoolGone
  <2> HIDE DEF size
  <2>4. ASSUME NEW u \in LocalSlots, loc[u].off = o PROVE Gone(u)'
    <3>1. CASE u = v
      BY <1>7, <3>1
    <3>2. CASE u # v
      <4>1. Variable(v)
        BY <1>4 DEF Variable
      <4>2. Gone(u)
        BY <1>1, <1>8, <2>2, <2>4, <3>2, <4>1 DEF PoolSound, SharersGone
      <4> QED
        BY <1>6, <4>2
    <3> QED
      BY <3>1, <3>2
  <2> HIDE DEF o
  <2> DEFINE more == Append(pool[size], o)
             m == Len(pool[size]) + 1
  <2>5. pool \in [Sizes -> Seq(Int)]
    BY <1>1 DEF Typed
  <2>6. /\ m \in Nat /\ DOMAIN pool[size] = 1..(m - 1)
        /\ DOMAIN more = 1..m /\ more[m] = o /\ \A k \in 1..(m - 1) : more[k] = pool[size][k]
    BY <2>2, <2>5
  <2> HIDE DEF more, m
  <2>7. ASSUME NEW s \in Sizes, NEW i \in DOMAIN pool'[s]
        PROVE  \/ i \in DOMAIN pool[s] /\ pool'[s][i] = pool[s][i]
               \/ s = size /\ i = m /\ pool'[s][i] = o
    <3>1. pool' = [pool EXCEPT ![size] = more]
      BY <2>1 DEF more
    <3>2. CASE s # size
      BY <2>5, <2>7, <3>1, <3>2
    <3>3. CASE s = size
      <4>1. pool'[s] = more
        BY <2>5, <3>1, <3>3
      <4>2. i \in 1..(m - 1) \/ i = m
        BY <2>6, <2>7, <4>1
      <4> QED
        BY <2>6, <3>3, <4>1, <4>2
    <3> QED
      BY <3>2, <3>3
  <2>8. PoolDistinct'
    <3> SUFFICES ASSUME NEW s \in Sizes, NEW t \in Sizes,
                        NEW i \in DOMAIN pool'[s], NEW j \in DOMAIN pool'[t],
                        pool'[s][i] = pool'[t][j]
                 PROVE  s = t /\ i = j
      BY DEF PoolDistinct
    <3> QED
      BY <1>1, <2>3, <2>7 DEF PoolSound, PoolDistinct
  <2>9. PoolOccupied'
    <3> SUFFICES ASSUME NEW s \in Sizes, NEW i \in DOMAIN pool'[s]
                 PROVE  \E u \in LocalSlots : loc[u].off = pool'[s][i] /\ func.width[u] = s
      BY <1>1, <1>5 DEF PoolOccupied
    <3> QED
      BY <1>1, <2>2, <2>7 DEF PoolSound, PoolOccupied, o, size
  <2>10. PoolGone'
    <3> SUFFICES ASSUME NEW s \in Sizes, NEW i \in DOMAIN pool'[s], NEW u \in LocalSlots,
                        loc[u].off = pool'[s][i]
                 PROVE  Gone(u)'
      BY <1>1, <1>5 DEF PoolGone
    <3>1. CASE i \in DOMAIN pool[s] /\ pool'[s][i] = pool[s][i]
      <4>1. Gone(u)
        BY <1>1, <3>1 DEF PoolSound, PoolGone
      <4> QED
        BY <1>6, <4>1
    <3>2. CASE pool'[s][i] = o
      BY <2>4, <3>2
    <3> QED
      BY <2>7, <3>1, <3>2
  <2> QED
    BY <1>9, <2>8, <2>9, <2>10 DEF PoolSound
<1> QED
  BY <1>10, <1>11

\* Pass B places variables apart.
LEMMA VarsAInv == FInv /\ MInv /\ AInv /\ AllocVar => AInv'
<1> SUFFICES ASSUME FInv, MInv, AInv, AllocVar PROVE AInv'
  OBVIOUS
<1>1. phase = "vars"
  BY Zenon DEF AllocVar, VarDefined, GiveBack, Leaving, BlockLeft, NoVarHere, VarsEnd, InPhase, PhaseEnds
<1>2. /\ Typed /\ Places /\ KeptApart /\ PoolSound
      /\ func \in Funcs /\ at \in Nat /\ given \in Nat
  BY <1>1 DEF FInv, AInv, Typed
<1>3. CASE VarDefined
  <2>1. PICK v \in VarsDefinedAt(at) : VarSlot(v)
    BY <1>3 DEF VarDefined
  <2>2. /\ at <= Len(func.code) /\ GoOn /\ calleeIdx' = calleeIdx
        /\ func' = func /\ meta' = meta /\ phase' = phase
    BY <1>3 DEF VarDefined, InPhase, GoOn
  <2>3. PlacedApart(v) /\ PoolSound'
    <3>1. CASE FreshSlot(v) /\ pool' = pool
      BY <1>1, <2>1, <2>2, <3>1, VarInFreshSlot
    <3>2. CASE ~(FreshSlot(v) /\ pool' = pool)
      <4> DEFINE free == pool[func.width[v]]
      <4>1. /\ free # << >> /\ Bind(v, Stack(free[Len(free)]))
            /\ pool' = [pool EXCEPT ![func.width[v]] = SubSeq(free, 1, Len(free) - 1)]
        BY <2>1, <3>2 DEF VarSlot
      <4>2. free = pool[func.width[v]]
        OBVIOUS
      <4> HIDE DEF free
      <4> QED
        BY <1>1, <2>1, <2>2, <4>1, <4>2, VarInPoolSlot
    <3> QED
      BY <3>1, <3>2
  <2>4. v \notin DOMAIN loc
    BY <2>1 DEF VarsDefinedAt
  <2>5. KeptApart'
    BY <1>2, <2>2, <2>3, <2>4, KeepsApart
  <2>6. Places'
    BY <2>3 DEF PlacedApart
  <2> QED
    BY <1>1, <2>2, <2>3, <2>5, <2>6 DEF AInv
<1>4. CASE GiveBack
  <2>1. UNCHANGED <<func, meta, loc, calleeIdx>> /\ phase' = phase
    BY <1>4, Zenon DEF GiveBack
  <2>2. Places' /\ KeptApart'
    BY <1>2, <2>1, SamePlaces
  <2>3. PoolSound'
    BY <1>4, GiveBackSound
  <2> QED
    BY <1>1, <2>1, <2>2, <2>3 DEF AInv
<1>5. CASE BlockLeft \/ NoVarHere
  <2>1. /\ UNCHANGED <<func, meta, loc, calleeIdx>> /\ phase' = phase /\ at' = at + 1 /\ pool' = pool
        /\ func' = func /\ meta' = meta /\ loc' = loc
    BY <1>5 DEF BlockLeft, NoVarHere, GoOn
  <2>2. Places' /\ KeptApart' /\ LocalSlots' = LocalSlots
    BY <1>2, <2>1, SamePlaces
  <2>3. \A u : Gone(u) => Gone(u)'
    BY <1>2, <2>1, GoneStays
  <2>4. PoolDistinct' /\ PoolOccupied'
    BY <1>2, <2>1, <2>2 DEF PoolSound, PoolDistinct, PoolOccupied
  <2>5. PoolGone' /\ SharersGone'
    BY <1>2, <2>1, <2>2, <2>3 DEF PoolSound, PoolGone, SharersGone, Variable, Params
  <2> QED
    BY <1>1, <2>1, <2>2, <2>4, <2>5 DEF AInv, PoolSound
<1>6. CASE VarsEnd
  <2>1. UNCHANGED <<func, meta, loc, calleeIdx>> /\ phase' = "frame"
    BY <1>6 DEF VarsEnd, PhaseEnds
  <2>2. KeptApart'
    BY <1>2, <2>1, SamePlaces
  <2> QED
    BY <2>1, <2>2 DEF AInv
<1> QED
  BY <1>3, <1>4, <1>5, <1>6 DEF AllocVar

-----------------------------------------------------------------------------

\* Making room for the saved registers moves all local slots alike.
LEMMA MakeSaveAreaAInv == FInv /\ AInv /\ MakeSaveArea => AInv'
<1> SUFFICES ASSUME FInv, AInv, MakeSaveArea PROVE AInv'
  OBVIOUS
<1>1. /\ Typed /\ SlotsFit(stackBytes, 0) /\ KeptApart /\ phase' = "blocks"
      /\ func' = func /\ meta' = meta /\ DOMAIN loc' = DOMAIN loc
      /\ \A v \in DOMAIN loc : loc'[v] = Shifted(loc[v])
  BY DEF FInv, AInv, MakeSaveArea, Placing
<1>2. SaveArea \in Nat
  <2>1. calleeIdx \in 0..Len(CalleeSaved) /\ Len(CalleeSaved) \in Nat
    BY <1>1, LenProperties, RegistersAreNamed DEF Typed
  <2> QED
    BY <2>1 DEF SaveArea
<1>3. ASSUME NEW v \in DOMAIN loc
      PROVE  /\ IsStack(loc'[v]) <=> IsStack(loc[v])
             /\ v \in LocalSlots => loc'[v].off = loc[v].off - SaveArea
             /\ v \notin LocalSlots => loc'[v] = loc[v]
  <2>1. loc'[v] = IF v \in LocalSlots THEN Stack(loc[v].off - SaveArea) ELSE loc[v]
    BY <1>1 DEF Shifted, LocalSlots
  <2>2. IsStack(Stack(loc[v].off - SaveArea)) /\ Stack(loc[v].off - SaveArea).off = loc[v].off - SaveArea
    BY DEF Stack, IsStack
  <2> QED
    BY <2>1, <2>2 DEF LocalSlots
<1>4. ASSUME NEW t \in DOMAIN loc, NEW u \in DOMAIN loc, Overlap(t, u)' PROVE Overlap(t, u)
  <2>1. /\ loc[t].off \in Int /\ loc[u].off \in Int
        /\ func.width[t] \in Nat /\ func.width[u] \in Nat
        /\ IsStack(loc[t]) => loc[t].off # 0
        /\ IsStack(loc[u]) => loc[u].off # 0
    BY <1>1, PlacedTyped
  <2>2. CASE ~(IsStack(loc[t]) /\ IsStack(loc[u]))
    <3>1. loc'[t] = loc'[u]
      BY <1>3, <1>4, <2>2 DEF Overlap
    <3>2. ~IsStack(loc[t]) /\ ~IsStack(loc[u])
      BY <1>3, <2>2, <3>1
    <3>3. loc'[t] = loc[t] /\ loc'[u] = loc[u]
      BY <1>3, <3>2 DEF LocalSlots
    <3> QED
      BY <3>1, <3>2, <3>3 DEF Overlap
  <2>3. CASE IsStack(loc[t]) /\ IsStack(loc[u])
    <3>1. PICK b \in Bytes(t)' : b \in Bytes(u)'
      BY <1>3, <1>4, <2>3 DEF Overlap
    <3>2. /\ b \in Int
          /\ loc'[t].off <= b /\ b <= loc'[t].off + func.width[t] - 1
          /\ loc'[u].off <= b /\ b <= loc'[u].off + func.width[u] - 1
      BY <1>1, <3>1 DEF Bytes
    <3>3. CASE t \in LocalSlots /\ u \in LocalSlots
      <4>1. loc'[t].off = loc[t].off - SaveArea /\ loc'[u].off = loc[u].off - SaveArea
        BY <1>3, <3>3
      <4>2. b + SaveArea \in Bytes(t) /\ b + SaveArea \in Bytes(u)
        BY <1>2, <2>1, <3>2, <4>1 DEF Bytes
      <4> QED
        BY <2>3, <4>2 DEF Overlap
    <3>4. CASE t \notin LocalSlots /\ u \notin LocalSlots
      <4>1. loc'[t] = loc[t] /\ loc'[u] = loc[u]
        BY <1>3, <3>4
      <4>2. b \in Bytes(t) /\ b \in Bytes(u)
        BY <2>1, <3>2, <4>1 DEF Bytes
      <4> QED
        BY <2>3, <4>2 DEF Overlap
    <3>5. ASSUME NEW x \in DOMAIN loc, NEW y \in DOMAIN loc, x \in LocalSlots, y \notin LocalSlots,
                 IsStack(loc[y]), loc[y].off # 0, loc[y].off \in Int,
                 b <= loc'[x].off + func.width[x] - 1, loc'[y].off <= b
          PROVE  FALSE
      <4>1. loc[x].off + func.width[x] <= 0 /\ loc[x].off \in Int /\ func.width[x] \in Nat
        BY <1>1, <3>5, PlacedTyped DEF SlotsFit, Fits
      <4>2. loc[y].off > 0
        BY <3>5 DEF LocalSlots
      <4>3. loc'[x].off = loc[x].off - SaveArea /\ loc'[y].off = loc[y].off
        BY <1>3, <3>5
      <4> QED
        BY <1>2, <3>2, <3>5, <4>1, <4>2, <4>3
    <3> QED
      BY <2>1, <2>3, <3>2, <3>3, <3>4, <3>5
  <2> QED
    BY <2>2, <2>3
<1>5. KeptApart'
  <2> SUFFICES ASSUME NEW t \in DOMAIN loc, NEW u \in DOMAIN loc, t # u, Together(t, u)
               PROVE  ~Overlap(t, u)'
    BY <1>1 DEF KeptApart, Together
  <2>1. ~Overlap(t, u)
    BY <1>1 DEF KeptApart
  <2> QED
    BY <1>4, <2>1
<1> QED
  BY <1>1, <1>5 DEF AInv

\* Every step keeps VRegs that are alive together apart.
LEMMA StepAInv == FInv /\ MInv /\ AInv /\ [Allocate]_avars => AInv'
<1> SUFFICES ASSUME FInv, MInv, AInv, [Allocate]_avars PROVE AInv'
  OBVIOUS
<1>1. CASE CollectMeta
  <2>1. /\ phase = "meta" /\ phase' = "params" /\ func' = func
        /\ at' = at /\ loc' = loc /\ calleeIdx' = calleeIdx /\ pool' = pool
    BY <1>1 DEF CollectMeta
  <2>2. loc' = << >> /\ at' = 1 /\ pool' = [size \in Sizes |-> << >>]
    BY <2>1 DEF AInv
  <2>3. DOMAIN loc' = {}
    BY <2>2
  <2>4. KeptApart' /\ Places' /\ NoVarsYet'
    BY <2>2, <2>3 DEF KeptApart, Places, RegsFrom, SlotsUniform, CallersSlots, NoVarsYet, LocalSlots
  <2>5. ParamsInOrder'
    BY <2>2, <2>3 DEF ParamsInOrder
  <2> QED
    BY <2>1, <2>4, <2>5 DEF AInv
<1>2. CASE LayBlock \/ CloseFrame
  <2>1. /\ UNCHANGED <<func, meta, loc, calleeIdx>>
        /\ phase = "blocks" /\ phase' \in {"blocks", "done"}
    BY <1>2 DEF LayBlock, CloseFrame, InPhase
  <2>2. KeptApart'
    BY <2>1, SamePlaces DEF AInv
  <2> QED
    BY <2>1, <2>2 DEF AInv
<1>3. CASE UNCHANGED avars
  <2>1. /\ func' = func /\ phase' = phase /\ at' = at /\ given' = given /\ meta' = meta
        /\ loc' = loc /\ calleeIdx' = calleeIdx /\ pool' = pool
    BY <1>3 DEF avars
  <2>2. (Places => Places') /\ (KeptApart => KeptApart') /\ LocalSlots' = LocalSlots
    BY <2>1, SamePlaces
  <2>3. ParamsInOrder => ParamsInOrder'
    BY <2>1 DEF ParamsInOrder, Params
  <2>4. NoVarsYet => NoVarsYet'
    BY <2>1 DEF NoVarsYet, Params
  <2>5. TempsInOrder => TempsInOrder'
    BY <2>1 DEF TempsInOrder, Params
  <2>6. PoolSound => PoolSound'
    BY <2>1, <2>2 DEF PoolSound, PoolDistinct, PoolOccupied, PoolGone, SharersGone, Gone, Variable,
                      Indices, Params
  <2> QED
    BY <2>1, <2>2, <2>3, <2>4, <2>5, <2>6 DEF AInv
<1> QED
  BY <1>1, <1>2, <1>3, ParamsAInv, TempsAInv, VarsAInv, MakeSaveAreaAInv DEF Allocate, AllocFrame

\* In every allocation of every function the code generator can produce, two
\* VRegs that are alive together share no register and no byte of the stack:
\* what one pass hands out, another neither hands out again nor reuses before
\* its holder has ended, the slots of block variables included.
THEOREM AlwaysAliveApart == AllocSpec => []AliveApart
<1>1. Init => FInv /\ MInv /\ AInv
  BY InitFInv DEF Init, MInv, AInv
<1>2. FInv /\ MInv /\ AInv /\ [Allocate]_avars => (FInv /\ MInv /\ AInv)'
  BY StepFInv, StepMInv, StepAInv
<1>3. AInv => AliveApart
  BY DEF AInv, AliveApart, KeptApart, Together
<1> QED
  BY <1>1, <1>2, <1>3, PTL DEF AllocSpec

=============================================================================
