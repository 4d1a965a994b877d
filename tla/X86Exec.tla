------------------------------ MODULE X86Exec ------------------------------
(***************************************************************************)
(* The code PlnX86CodeGen emits for a function after RegAlloc has placed   *)
(* its VRegs, run side by side with what the virtual instructions mean:    *)
(* val is the meaning of every VReg, cell the content of every register    *)
(* and stack slot.  One action per instruction; the moves an instruction   *)
(* is emitted as follow one another inside the action.                     *)
(*                                                                         *)
(* Values are terms <<name, where, operands>>, so two of them are equal    *)
(* only when they were computed alike.  A call's argument shuffle is the   *)
(* simultaneous assignment that RegMoves is shown to implement.            *)
(***************************************************************************)
EXTENDS RegAlloc

CONSTANT MaxTurns    \* bound on the backward jumps of one run

\* A division's registers are not the callee's to keep.
ASSUME RdxIsScratch == /\ Rdx \in STRING \ {""}
                       /\ \A k \in DOMAIN CalleeSaved : CalleeSaved[k] # Rdx
ASSUME FuncsAreExecutable == \A f \in Funcs : Executable(f)
\* Each of several values a function returns has a register.
ASSUME ReturnsFit ==
  \A f \in Funcs : \A k \in Indices(f) :
    f.code[k].op = "ret" /\ Len(f.code[k].src) > 1 => Len(f.code[k].src) <= Len(IntArgs)

VARIABLES pc,        \* next instruction; 0 before the prologue
          val,       \* VReg -> the value the program means it to have
          cell,      \* location -> content
          meant,     \* operands of the last instruction, as meant
          got,       \* the same operands as the emitted code read them
          turns      \* backward jumps taken

xvars == <<pc, val, cell, meant, got, turns>>
vars == <<func, phase, at, given, meta, loc, calleeIdx, stackBytes, copies, pool,
          blockOffs, frameSize, pc, val, cell, meant, got, turns>>

-----------------------------------------------------------------------------

Term(name, where, operands) == <<name, where, operands>>
Junk == Term("junk", 0, << >>)
Arg(k) == Term("arg", k, << >>)
Saved(i) == Term("callers", i, << >>)

Get(c, l) == IF l \in DOMAIN c THEN c[l] ELSE Junk
Put(c, l, v) == [m \in DOMAIN c \cup {l} |-> IF m = l THEN v ELSE c[m]]
Has(v) == v \in DOMAIN loc

\* What a call leaves in the caller-saved registers is anybody's guess.
CallerSaved == {IntArgs[k] : k \in DOMAIN IntArgs} \cup {Rax}
Clobber(c, regs) == [l \in DOMAIN c \cup {Reg(r) : r \in regs} |->
                       IF \E r \in regs : l = Reg(r) THEN Junk ELSE c[l]]

SaveSlot(i) == Stack(-8 * i)

\* The caller's view of the machine when it jumps to the function.
AtEntry ==
  LET n == func.params
      inRegs == {k \in 1..n : k <= Len(IntArgs)}
      argAt(k) == IF k <= Len(IntArgs) THEN Reg(IntArgs[k])
                  ELSE Stack((k - Len(IntArgs) + 1) * 8)
      args == {argAt(k) : k \in 1..n}
      kept == {Reg(CalleeSaved[i]) : i \in DOMAIN CalleeSaved}
  IN  [l \in args \cup kept |->
         IF l \in args THEN Arg(CHOOSE k \in 1..n : argAt(k) = l)
         ELSE Saved(CHOOSE i \in DOMAIN CalleeSaved : Reg(CalleeSaved[i]) = l)]

XInit ==
  /\ Init
  /\ pc = 0
  /\ val = << >>
  /\ cell = << >>
  /\ meant = << >>
  /\ got = << >>
  /\ turns = 0

-----------------------------------------------------------------------------
\* A move <<from, to>>, and several moves one after the other.
Move(c, m) == Put(c, m[2], Get(c, m[1]))
MoveAll(c0, moves) ==
  LET c[k \in 0..Len(moves)] == IF k = 0 THEN c0 ELSE Move(c[k - 1], moves[k]) IN c[Len(moves)]

\* emitFuncPrologue: save the callee-saved registers in use, then copy the
\* parameters that leave their argument registers, in order.
Saves == [i \in 1..calleeIdx |-> <<Reg(CalleeSaved[i]), SaveSlot(i)>>]
Copies == [k \in DOMAIN copies |-> <<Reg(copies[k][1]), loc[copies[k][2]]>>]

Prologue ==
  /\ phase = "done"
  /\ pc = 0
  /\ pc' = 1
  /\ cell' = MoveAll(MoveAll(AtEntry, Saves), Copies)
  /\ val' = [k \in Params(func) |-> Arg(k)]
  /\ UNCHANGED <<meant, got, turns>>
  /\ UNCHANGED avars

Instr == func.code[pc]
Running(op) == phase = "done" /\ pc \in DOMAIN func.code /\ Instr.op = op

Meaning == [k \in DOMAIN Instr.src |-> val[Instr.src[k]]]
\* Where the allocator has put a VReg; nowhere when it has not.
Place(v) == IF Has(v) THEN loc[v] ELSE Stack(0)
Content(c) == [k \in DOMAIN Instr.src |-> Get(c, Place(Instr.src[k]))]
Spilled(v) == Has(v) /\ IsStack(loc[v])

\* Emitters route stack operands through %rax.
ViaRax(c, vs) == IF \E v \in vs : Spilled(v) THEN Clobber(c, {Rax}) ELSE c

PutDst(c, v) == IF Has(Instr.dst) THEN Put(c, loc[Instr.dst], v) ELSE c
Means(v) == val' = [u \in DOMAIN val \cup {Instr.dst} |-> IF u = Instr.dst THEN v ELSE val[u]]
Reads(m, g) == meant' = m /\ got' = g
Goto(k) == pc' = k /\ UNCHANGED avars

\* A constant or an address: one mov or lea into the destination.
Define ==
  /\ \E op \in DefOps : Running(op)
  /\ LET v == Term("def", pc, << >>)
     IN  Means(v) /\ cell' = PutDst(ViaRax(cell, {Instr.dst}), v)
  /\ Reads(<< >>, << >>)
  /\ Goto(pc + 1)
  /\ UNCHANGED turns

\* mov src, dst; op dst.
Unary ==
  /\ Running("un")
  /\ Means(Term("un", pc, Meaning))
  /\ IF Has(Instr.dst)
     THEN /\ Reads(Meaning, Content(cell))
          /\ cell' = PutDst(ViaRax(cell, {Instr.dst}), Term("un", pc, Content(cell)))
     ELSE Reads(<< >>, << >>) /\ UNCHANGED cell
  /\ Goto(pc + 1)
  /\ UNCHANGED turns

\* leaq slot, dst; the emitter aborts when the local is in a register.
AddressOf ==
  /\ Running("lea")
  /\ LET v == Term("addr", Instr.src[1], << >>)
     IN  /\ Means(v)
         /\ Reads(<<v>>, <<IF Spilled(Instr.src[1]) THEN v ELSE Junk>>)
         /\ cell' = PutDst(cell, v)
  /\ Goto(pc + 1)
  /\ UNCHANGED turns

\* emitBinArith: mov lhs, acc; op rhs, acc, where acc is the destination
\* register, or %rax on the way to a stack slot.
Binary ==
  /\ Running("bin")
  /\ Means(Term("bin", pc, Meaning))
  /\ IF Has(Instr.dst)
     THEN LET acc == IF Spilled(Instr.dst) THEN Reg(Rax) ELSE loc[Instr.dst]
              first == Put(cell, acc, Content(cell)[1])
              read == <<Get(first, acc), Content(first)[2]>>
              res == Term("bin", pc, read)
          IN  Reads(Meaning, read) /\ cell' = PutDst(Put(first, acc, res), res)
     ELSE Reads(<< >>, << >>) /\ UNCHANGED cell
  /\ Goto(pc + 1)
  /\ UNCHANGED turns

\* emitIntDivMod: the operands are read first; %rax and %rdx are overwritten.
Divide ==
  /\ Running("div")
  /\ Means(Term("div", pc, Meaning))
  /\ IF Has(Instr.dst)
     THEN /\ Reads(Meaning, Content(cell))
          /\ cell' = PutDst(Clobber(cell, {Rax, Rdx}), Term("div", pc, Content(cell)))
     ELSE Reads(<< >>, << >>) /\ UNCHANGED cell
  /\ Goto(pc + 1)
  /\ UNCHANGED turns

\* Both operands are read before the destination is written.
Compare ==
  /\ Running("cmp")
  /\ Means(Term("cmp", pc, Meaning))
  /\ IF Has(Instr.dst)
     THEN /\ Reads(Meaning, Content(cell))
          /\ cell' = PutDst(ViaRax(cell, {Instr.dst, Instr.src[1]}), Term("cmp", pc, Content(cell)))
     ELSE Reads(<< >>, << >>) /\ UNCHANGED cell
  /\ Goto(pc + 1)
  /\ UNCHANGED turns

Store ==
  /\ Running("store")
  /\ Reads(Meaning, Content(cell))
  /\ cell' = ViaRax(cell, {Instr.src[2]})
  /\ Goto(pc + 1)
  /\ UNCHANGED <<val, turns>>

\* emitInstrMov, also from slot to slot through %rax.
Update ==
  /\ Running("mov")
  /\ Means(val[Instr.src[1]])
  /\ Reads(Meaning, Content(cell))
  /\ IF Has(Instr.dst) /\ Has(Instr.src[1]) /\ loc[Instr.dst] # loc[Instr.src[1]]
     THEN cell' = PutDst(IF Spilled(Instr.dst) THEN ViaRax(cell, {Instr.src[1]}) ELSE cell,
                         Content(cell)[1])
     ELSE UNCHANGED cell
  /\ Goto(pc + 1)
  /\ UNCHANGED turns

\* The arguments are placed all at once; the callee keeps what it must keep.
Call ==
  /\ Running("call")
  /\ Reads(Meaning, Content(cell))
  /\ LET c == Clobber(cell, CallerSaved) IN
     IF Instr.dst = 0
     THEN cell' = c /\ UNCHANGED val
     ELSE /\ Means(Term("call", pc, Meaning))
          /\ cell' = PutDst(c, Term("call", pc, Content(cell)))
  /\ Goto(pc + 1)
  /\ UNCHANGED turns

\* emitInstrRetPln: a single value to %rax, several to the argument registers
\* one after the other, then the callee-saved registers from their slots.
RetReg(k) == Reg(IF Len(Instr.src) = 1 THEN Rax ELSE IntArgs[k])
Results == [k \in DOMAIN Instr.src |-> <<Place(Instr.src[k]), RetReg(k)>>]
Restores == [i \in 1..calleeIdx |-> LET j == calleeIdx + 1 - i IN <<SaveSlot(j), Reg(CalleeSaved[j])>>]

Returned == Len(func.code) + 1

Return ==
  /\ Running("ret")
  /\ LET c == MoveAll(cell, Results)
     IN  /\ Reads(Meaning, [k \in DOMAIN Instr.src |-> Get(c, RetReg(k))])
         /\ cell' = MoveAll(c, Restores)
  /\ Goto(Returned)
  /\ UNCHANGED <<val, turns>>

Branch ==
  /\ Running("cjmp")
  /\ Reads(Meaning, Content(cell))
  /\ \/ Goto(Instr.to)
     \/ turns < MaxTurns /\ Goto(pc + 1)
  /\ UNCHANGED <<val, cell, turns>>

Jump ==
  /\ Running("jmp")
  /\ Goto(Instr.to)
  /\ turns' = IF Instr.to < pc THEN turns + 1 ELSE turns
  /\ UNCHANGED <<val, cell, meant, got>>

NoCode ==
  /\ pc \in DOMAIN func.code /\ phase = "done"
  /\ Silent(Instr)
  /\ Goto(pc + 1)
  /\ UNCHANGED <<val, cell, meant, got, turns>>

Exec == \/ Prologue \/ Define \/ Unary \/ AddressOf \/ Binary \/ Divide \/ Compare
        \/ Store \/ Update \/ Call \/ Return \/ Branch \/ Jump \/ NoCode

Finished == phase = "done" /\ pc = Returned /\ UNCHANGED vars

XNext == (Allocate /\ UNCHANGED xvars) \/ Exec \/ Finished

XSpec == XInit /\ [][XNext]_vars /\ WF_vars(XNext)

-----------------------------------------------------------------------------

Locations == [reg : CallerSaved \cup {CalleeSaved[i] : i \in DOMAIN CalleeSaved} \cup {Rdx, ""},
              off : Int]

\* Types of the allocator's tables and of the machine.
TypeOK ==
  /\ phase \in {"meta", "params", "temps", "vars", "frame", "blocks", "done"}
  /\ at \in 1..(LastVReg + Len(func.code) + Len(func.blocks) + 1)
  /\ DOMAIN loc \subseteq VRegs(func)
  /\ \A v \in DOMAIN loc : loc[v] \in Locations
  /\ calleeIdx \in 0..Len(CalleeSaved)
  /\ stackBytes \in Nat
  /\ pc \in 0..Returned
  /\ DOMAIN val \subseteq VRegs(func)
  /\ turns \in Nat

\* Every instruction reads, from the places the allocator chose and in the
\* order the emitter's moves go, the values the program means its operands to
\* have: nothing has overwritten them, on any path and in any iteration.
ReadsAsMeant == got = meant

\* The caller gets its callee-saved registers back, whatever the function
\* stored in the frame meanwhile.
CalleeSavedKept ==
  phase = "done" /\ pc = Returned =>
    \A i \in DOMAIN CalleeSaved : Get(cell, Reg(CalleeSaved[i])) = Saved(i)
=============================================================================
