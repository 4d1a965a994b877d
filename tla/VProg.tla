------------------------------- MODULE VProg -------------------------------
(***************************************************************************)
(* The virtual program between PlnVCodeGen and the register allocator      *)
(* (src/codegen/PlnVProg.h), reduced to what allocation depends on: which  *)
(* VRegs an instruction defines and reads, and how control moves.          *)
(*                                                                         *)
(* An instruction is a record [op, dst, src, to]:                          *)
(*   def    MovImm, LeaLabel, FrameAddr             dst                    *)
(*   var    InitVar, DeclVar                        dst, a local variable  *)
(*   un     Neg, BitNot, ShiftImm, Convert, Copy,   dst <- src[1]          *)
(*          DerefLoad, CalcAddr                                            *)
(*   bin    Add, Sub, Mul, BitAnd, BitOr, BitXor    dst <- src[1], src[2]  *)
(*   div    Div, Mod                                dst <- src[1], src[2]  *)
(*   cmp    Cmp, Shift, DerefLoadIdx                dst <- src[1], src[2]  *)
(*   store  DerefStore                              *src[1] <- src[2]      *)
(*   lea    LeaLocal                                dst <- address of src[1]*)
(*   mov    Mov, the update of a variable           dst <- src[1]          *)
(*   call   CallPln, CallC, CallSys                 dst (or 0) <- f(src)   *)
(*   ret    RetPln                                  src                    *)
(*   cjmp   CondJmp                                 if src[1] goto to      *)
(*   jmp    Jmp                                     goto to                *)
(*   label  Label, BlockEnter                                              *)
(*   leave  BlockLeave                              src = expiredVars      *)
(* Labels are instruction indices, counted from 1.  VRegs are numbered     *)
(* from 1 in the order allocVReg hands them out, parameters first; VReg 0  *)
(* stands for "no destination".  Values are integers or pointers; widths   *)
(* are in bytes.                                                           *)
(***************************************************************************)
EXTENDS Integers, Sequences, FiniteSets

DefOps  == {"def", "var"}
UnOps   == {"un", "lea"}
BinOps  == {"bin", "div", "cmp"}
Ops     == DefOps \cup UnOps \cup BinOps
           \cup {"store", "mov", "call", "ret", "cjmp", "jmp", "label", "leave"}

\* f.params: how many VRegs are parameters; f.width: bytes of each VReg;
\* f.blocks: the stack-frame storage of `$` variables; f.code: the instructions.
VRegs(f) == DOMAIN f.width
Params(f) == 1..f.params
Code(f) == f.code
Indices(f) == DOMAIN f.code

Operands(i) == IF i.op = "leave" THEN {} ELSE {i.src[k] : k \in DOMAIN i.src}

\* The VReg an instruction sets with setDef; Mov only rewrites one.
Defines(i) == IF i.op \in {"mov", "store", "ret", "cjmp", "jmp", "label", "leave"}
              THEN 0 ELSE i.dst

Calls(f) == {k \in Indices(f) : f.code[k].op = "call"}
DivMods(f) == {k \in Indices(f) : f.code[k].op = "div"}

\* Backward jumps: a loop is the region from its label to the jump.
Loops(f) == {<<f.code[k].to, k>> : k \in {k \in Indices(f) :
                                            f.code[k].op = "jmp" /\ f.code[k].to < k}}

Sizes == {1, 2, 4, 8}    \* sizeOfType

Instructions == [op : Ops, dst : Nat, src : Seq(Nat), to : Nat]

\* What the allocator relies on in a function: sizes it knows, blocks aligned
\* within the frame's own alignment, and blocks that end only with variables.
WellFormed(f) ==
  /\ f.code \in Seq(Instructions)
  /\ f.width \in Seq(Sizes)
  /\ f.params \in 0..Len(f.width)
  /\ f.blocks \in Seq([size : Nat, align : {1, 2, 4, 8, 16}])
  /\ \A k \in DOMAIN f.code : f.code[k].op = "leave" =>
        f.code[k].src \in Seq((f.params + 1)..Len(f.width))

-----------------------------------------------------------------------------
\* The shape PlnVCodeGen gives its code.

\* The instructions that read v or, as a Mov, rewrite it.
Uses(f, v) == {k \in Indices(f) : v \in Operands(f.code[k])
                                  \/ (f.code[k].op = "mov" /\ f.code[k].dst = v)}

\* What the instruction d defines is used up to instruction k at most, also
\* when a loop between the two comes round again.
EndsBy(f, d, k) ==
  /\ \A n \in Uses(f, Defines(f.code[d])) : n <= k
  /\ \A r \in Loops(f) : d < r[1] /\ r[1] <= k => r[2] <= k

\* A VReg that is no parameter is set once, and used after that.
DefinedOnce(f) ==
  /\ \A j, k \in Indices(f) : Defines(f.code[j]) = Defines(f.code[k]) /\ Defines(f.code[k]) # 0 => j = k
  /\ \A k \in Indices(f) : Defines(f.code[k]) \notin Params(f)
  /\ \A v \in VRegs(f) \ Params(f) : \A k \in Uses(f, v) :
       \E d \in Indices(f) : d < k /\ Defines(f.code[d]) = v

\* A destination may be numbered before its operands (the address of an
\* element, a conversion in steps, a copy): they end where it is set.
OperandsEnd(f) ==
  \A d, e \in Indices(f) :
    d < e /\ Defines(f.code[e]) # 0 /\ Defines(f.code[e]) < Defines(f.code[d]) => EndsBy(f, d, e)

\* A block ends with the variables it declares, each once.
LeavesOnce(f) ==
  /\ \A k \in Indices(f) : f.code[k].op = "leave" =>
       \A n \in DOMAIN f.code[k].src :
         \E d \in Indices(f) : /\ d < k /\ f.code[d].op = "var"
                               /\ f.code[d].dst = f.code[k].src[n]
                               /\ EndsBy(f, d, k)
  /\ \A j, k \in Indices(f) : f.code[j].op = "leave" /\ f.code[k].op = "leave" =>
       \A m \in DOMAIN f.code[j].src, n \in DOMAIN f.code[k].src :
         f.code[j].src[m] = f.code[k].src[n] => j = k /\ m = n

Shaped(f) == DefinedOnce(f) /\ OperandsEnd(f) /\ LeavesOnce(f)

\* How many VRegs an operation takes; a call, a return and a block's end take any number.
Arity(op) == CASE op \in DefOps \cup {"jmp", "label"} -> 0
               [] op \in UnOps \cup {"mov", "cjmp"} -> 1
               [] op \in BinOps \cup {"store"} -> 2

\* An instruction takes and sets VRegs of the function. The address of a local is taken, never
\* of a parameter; several values are returned from variables, or from temporaries that no
\* call takes.
Takes(f, i) ==
  /\ \A n \in DOMAIN i.src : i.src[n] \in VRegs(f)
  /\ i.op \notin {"call", "ret", "leave"} => Len(i.src) = Arity(i.op)
  /\ i.op \in DefOps \cup UnOps \cup BinOps \cup {"mov"} => i.dst \in VRegs(f)
  /\ i.op = "call" => i.dst \in VRegs(f) \cup {0}
  /\ i.op = "lea" => i.src[1] \notin Params(f)
  /\ i.op = "ret" /\ Len(i.src) > 1 =>
       \A v \in Operands(i) :
         /\ v \notin Params(f)
         /\ \/ \E d \in Indices(f) : f.code[d].op = "var" /\ f.code[d].dst = v
            \/ \A c \in Calls(f) : v \notin Operands(f.code[c])

\* Only jmp goes back, to its loop's beginning. What a jump forward passes over is not used
\* where it goes, and loops there begin and end.
JumpsOver(f) ==
  \A k \in Indices(f) : f.code[k].op \in {"cjmp", "jmp"} =>
    /\ f.code[k].to \in Indices(f)
    /\ f.code[k].op = "cjmp" => k < f.code[k].to
    /\ \A d \in Indices(f) : k < d /\ d < f.code[k].to /\ Defines(f.code[d]) # 0 => EndsBy(f, d, f.code[k].to - 1)

\* The code ends with a return.
EndsWithReturn(f) == f.code # << >> /\ f.code[Len(f.code)].op = "ret"

Executable(f) == (\A k \in Indices(f) : Takes(f, f.code[k])) /\ JumpsOver(f) /\ EndsWithReturn(f)

\* Instructions for which the emitter writes no code.
Silent(i) == i.op \in {"label", "leave"}
=============================================================================
