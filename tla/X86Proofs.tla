------------------------------ MODULE X86Proofs ------------------------------
(***************************************************************************)
(* The emitted code, proved for every function of the shape PlnVCodeGen    *)
(* produces, every register file and every path: the moves of a shuffle do *)
(* what they would do at once (RegMoves), the code keeps the caller's      *)
(* registers and reads what the program means (X86Exec). Two conditions    *)
(* stand for the two defects that the runs x86_alias and x86_div_param     *)
(* show; beside them nothing can go wrong.                                 *)
(***************************************************************************)
EXTENDS X86Exec, RegMoves, RegAllocProofs

\* How many moves the shuffle has.
HowMany == Cardinality(DOMAIN want)

\* What rewriting may have made of the sources, and that nothing else changes:
\* destinations stay, and a rewritten source is the scratch.
Rewritten == \A k \in DOMAIN want :
                /\ moves[k].dst = want[k].dst
                /\ moves[k].src \in {want[k].src, Scratch}

\* In a pass that has emitted nothing so far, every pending move the cursor
\* has gone over is still needed.
StuckBehind == ~progress => \A k \in Pending : k < cursor => Needed(k)

\* A register no emitted move writes still holds what it held at the start.
OthersUntouched == \A r \in Regs : (\A k \in done : want[k].dst # r) => regs[r] = r

IInv == /\ MovesTypeOK
        /\ Rewritten
        /\ StuckBehind
        /\ PendingSourcesIntact
        /\ EmittedStay
        /\ OthersUntouched

-----------------------------------------------------------------------------

\* The assumption on the shuffles, for one of them: distinct destinations, and
\* the scratch register takes no part.
LEMMA ShuffleShape ==
  ASSUME NEW n \in Nat, NEW m \in Shuffles(n)
  PROVE  /\ DOMAIN m = 1..n
         /\ Cardinality(DOMAIN m) = n
         /\ IsFiniteSet(DOMAIN m)
         /\ m \in [1..n -> [src : Regs \cup Slot, dst : Regs]]
         /\ \A j, k \in DOMAIN m : m[j].dst = m[k].dst => j = k
<1>1. m \in [1..n -> [src : Regs \cup Slot, dst : Regs]]
      /\ \A j, k \in 1..n : m[j].dst = m[k].dst => j = k
  BY DEF Shuffles
<1>2. IsFiniteSet(1..n) /\ Cardinality(1..n) = n
  BY FS_Interval
<1> QED
  BY <1>1, <1>2

\* A nonempty set of indices has a first one.
LEMMA FirstExists ==
  ASSUME NEW S \in SUBSET Nat, S # {}
  PROVE  /\ (CHOOSE i \in S : \A j \in S : i <= j) \in S
<1>1. PICK x \in S : \A y \in S : ~(<<y, x>> \in OpToRel(<, Nat))
  BY NatLessThanWellFounded, WFMin
<1>2. \A y \in S : x <= y
  <2> SUFFICES ASSUME NEW y \in S PROVE x <= y
    OBVIOUS
  <2>1. x \in Nat /\ y \in Nat
    OBVIOUS
  <2>2. ~(y < x)
    BY <1>1, <2>1 DEF OpToRel
  <2> QED
    BY <2>1, <2>2
<1> QED
  BY <1>2

\* The pigeonhole behind "only cycles are left": when every pending move's
\* destination is still read by another pending move, every pending move reads
\* the destination of a pending move, so none of them reads the scratch.
LEMMA OnlyCyclesLeft ==
  ASSUME MovesTypeOK, Rewritten, \A k \in Pending : Needed(k)
  PROVE  \A k \in Pending : moves[k].src # Scratch
<1>1. PICK n \in 0..MaxMoves : want \in Shuffles(n)
  BY DEF MovesTypeOK
<1>2. n \in Nat
  BY <1>1, MaxMovesIsNat
<1>3. IsFiniteSet(DOMAIN want)
  BY <1>1, <1>2, ShuffleShape
<1>4. IsFiniteSet(Pending)
  <2>1. Pending \in SUBSET DOMAIN want
    BY DEF Pending
  <2> QED
    BY <1>3, <2>1, FS_Subset
<1> DEFINE reader == [k \in Pending |-> CHOOSE j \in Pending : moves[j].src = moves[k].dst]
<1>5. \A k \in Pending : reader[k] \in Pending /\ moves[reader[k]].src = moves[k].dst
  BY DEF Needed
<1>6. \A j, k \in DOMAIN want : moves[j].dst = moves[k].dst => j = k
  BY <1>1, <1>2, ShuffleShape DEF Rewritten
<1>7. reader \in Injection(Pending, Pending)
  <2>1. reader \in [Pending -> Pending]
    BY <1>5
  <2>2. \A a, b \in Pending : reader[a] = reader[b] => a = b
    <3> SUFFICES ASSUME NEW a \in Pending, NEW b \in Pending, reader[a] = reader[b]
                 PROVE  a = b
      OBVIOUS
    <3>1. moves[a].dst = moves[b].dst
      BY <1>5
    <3> QED
      BY <1>6, <3>1 DEF Pending
  <2> QED
    BY <2>1, <2>2 DEF Injection, IsInjective
<1>8. reader \in Surjection(Pending, Pending)
  BY <1>4, <1>7, FS_Injection
<1>9. \A j \in Pending : \E k \in Pending : reader[k] = j
  BY <1>8 DEF Surjection
<1> SUFFICES ASSUME NEW j \in Pending PROVE moves[j].src # Scratch
  OBVIOUS
<1>10. PICK k \in Pending : reader[k] = j
  BY <1>9
<1>11. moves[j].src = moves[k].dst
  BY <1>5, <1>10
<1>12. moves[k].dst \in Regs
  BY DEF MovesTypeOK, Pending
<1> QED
  BY <1>11, <1>12, ScratchIsNotAReg

-----------------------------------------------------------------------------

\* Before the first move is emitted every source holds its own value.
LEMMA InitIInv == MovesInit => IInv
<1> SUFFICES ASSUME MovesInit PROVE IInv
  OBVIOUS
<1>1. PICK n \in 0..MaxMoves : want \in Shuffles(n)
  BY DEF MovesInit
<1>2. n \in Nat
  BY <1>1, MaxMovesIsNat
<1>3. want \in [1..n -> [src : Regs \cup Slot, dst : Regs]] /\ DOMAIN want = 1..n /\ HowMany = n
  BY <1>1, <1>2, ShuffleShape DEF HowMany
<1>4. MovesTypeOK
  <2>1. cursor \in 1..(Cardinality(DOMAIN want) + 1)
    BY <1>2, <1>3 DEF MovesInit, HowMany
  <2>2. moves \in [DOMAIN want -> [src : RegOrScratch \cup Slot, dst : Regs]]
    BY <1>3 DEF MovesInit, RegOrScratch
  <2>3. regs \in [RegOrScratch -> Contents]
    BY DEF MovesInit, RegOrScratch, Contents
  <2> QED
    BY <2>1, <2>2, <2>3 DEF MovesInit, MovesTypeOK
<1>5. Rewritten /\ EmittedStay /\ OthersUntouched
  BY DEF MovesInit, Rewritten, EmittedStay, OthersUntouched, RegOrScratch
<1>6. StuckBehind
  BY <1>3 DEF MovesInit, StuckBehind, Pending
<1>7. PendingSourcesIntact
  BY <1>3 DEF MovesInit, PendingSourcesIntact, Val, Pending, RegOrScratch
<1> QED
  BY <1>4, <1>5, <1>6, <1>7 DEF IInv

\* Emitting a move, breaking a cycle or ending a pass keeps the invariant.
LEMMA NextIInv == IInv /\ [MovesNext]_movesVars => IInv'
<1> SUFFICES ASSUME IInv, [MovesNext]_movesVars PROVE IInv'
  OBVIOUS
<1>1. PICK n \in 0..MaxMoves : want \in Shuffles(n)
  BY DEF IInv, MovesTypeOK
<1>2. n \in Nat
  BY <1>1, MaxMovesIsNat
<1>3. /\ DOMAIN want = 1..n
      /\ Cardinality(DOMAIN want) = n
      /\ want \in [1..n -> [src : Regs \cup Slot, dst : Regs]]
      /\ \A j, k \in DOMAIN want : want[j].dst = want[k].dst => j = k
  BY <1>1, <1>2, ShuffleShape
<1>4. \A k \in Pending : k \in DOMAIN want /\ k \in 1..n
  BY <1>3 DEF Pending
<1>5. CASE PassOver
  <2>1. MovesTypeOK'
    BY <1>2, <1>3, <1>5 DEF IInv, MovesTypeOK, PassOver, InPass
  <2>2. Rewritten' /\ PendingSourcesIntact' /\ EmittedStay' /\ OthersUntouched'
    BY <1>5 DEF PassOver, IInv, Rewritten, PendingSourcesIntact, EmittedStay,
                OthersUntouched, Pending, Val
  <2>3. StuckBehind'
    <3> SUFFICES ASSUME ~progress', NEW k \in Pending', k < cursor' PROVE Needed(k)'
      BY DEF StuckBehind
    <3>1. Pending' = Pending /\ ~progress /\ (Needed(k)' <=> Needed(k))
      BY <1>5 DEF PassOver, Pending, Needed
    <3>2. k < cursor \/ k = cursor
      BY <1>4, <1>5, <3>1 DEF PassOver, IInv, MovesTypeOK
    <3> QED
      BY <1>5, <3>1, <3>2 DEF PassOver, IInv, StuckBehind, Pending
  <2> QED
    BY <2>1, <2>2, <2>3 DEF IInv
<1>6. CASE Emit
  <2> DEFINE d == moves[cursor].dst
  <2>1. cursor \in Pending /\ cursor \in 1..n
    BY <1>3, <1>6 DEF Emit, InPass, Pending
  <2>2. d \in Regs /\ d = want[cursor].dst /\ d # Scratch
    BY <1>3, <2>1, ScratchIsNotAReg DEF IInv, MovesTypeOK, Rewritten
  <2>3. Val(moves[cursor].src) = want[cursor].src
    BY <2>1 DEF IInv, PendingSourcesIntact
  <2>4. want[cursor].src \in Contents
    BY <1>3, <2>1 DEF Contents
  <2>5. MovesTypeOK'
    BY <1>2, <1>3, <1>6, <2>1, <2>2, <2>3, <2>4 DEF IInv, MovesTypeOK, Emit, RegOrScratch
  <2>6. Rewritten' /\ StuckBehind'
    BY <1>6 DEF Emit, IInv, Rewritten, StuckBehind
  <2>7. Pending' = Pending \ {cursor}
    BY <1>6 DEF Emit, Pending
  <2>8. regs' = [regs EXCEPT ![d] = want[cursor].src] /\ regs \in [RegOrScratch -> Contents]
    BY <1>6, <2>3 DEF Emit, IInv, MovesTypeOK
  <2>9. PendingSourcesIntact'
    <3> SUFFICES ASSUME NEW k \in Pending' PROVE Val(moves[k].src)' = want[k].src
      BY <1>6 DEF PendingSourcesIntact, Emit
    <3>1. k \in Pending /\ k # cursor
      BY <2>7
    <3>2. moves[k].src # d
      BY <1>6, <3>1 DEF Emit, Needed
    <3>3. Val(moves[k].src)' = Val(moves[k].src)
      BY <1>6, <2>8, <3>2 DEF Val, Emit
    <3> QED
      BY <3>1, <3>3 DEF IInv, PendingSourcesIntact
  <2>10. EmittedStay'
    <3> SUFFICES ASSUME NEW k \in done' PROVE regs'[want[k].dst] = want[k].src
      BY <1>6 DEF EmittedStay, Emit
    <3>1. d \in RegOrScratch
      BY <2>2 DEF RegOrScratch
    <3>2. CASE k = cursor
      BY <2>2, <2>8, <3>1, <3>2
    <3>3. CASE k \in done
      <4>1. k \in DOMAIN want /\ k # cursor
        BY <1>6, <3>3 DEF IInv, MovesTypeOK, Emit
      <4>2. want[k].dst # d
        BY <1>3, <2>1, <2>2, <4>1
      <4> QED
        BY <2>8, <3>3, <4>2 DEF IInv, EmittedStay
    <3> QED
      BY <1>6, <3>2, <3>3 DEF Emit
  <2>11. OthersUntouched'
    <3> SUFFICES ASSUME NEW r \in Regs, \A k \in done' : want[k].dst # r
                 PROVE  regs'[r] = r
      BY <1>6 DEF OthersUntouched, Emit
    <3>1. r # d /\ \A k \in done : want[k].dst # r
      BY <1>6, <2>2 DEF Emit
    <3> QED
      BY <2>8, <3>1 DEF IInv, OthersUntouched, RegOrScratch
  <2> QED
    BY <2>5, <2>6, <2>9, <2>10, <2>11 DEF IInv
<1>7. CASE NextPass
  <2>1. MovesTypeOK'
    <3>1. 1 \in 1..(Cardinality(DOMAIN want) + 1)
      BY <1>2, <1>3
    <3> QED
      BY <1>7, <3>1 DEF IInv, MovesTypeOK, NextPass
  <2>2. Rewritten' /\ PendingSourcesIntact' /\ EmittedStay' /\ OthersUntouched'
    BY <1>7 DEF NextPass, IInv, Rewritten, PendingSourcesIntact, EmittedStay,
                OthersUntouched, Pending, Val
  <2>3. StuckBehind'
    BY <1>4, <1>7 DEF NextPass, StuckBehind, Pending
  <2> QED
    BY <2>1, <2>2, <2>3 DEF IInv
<1>8. CASE BreakCycle
  <2> DEFINE d == moves[FirstPending].dst
  <2>1. FirstPending \in Pending
    <3>1. Pending \in SUBSET Nat /\ Pending # {}
      BY <1>4, <1>8 DEF BreakCycle, EndOfPass
    <3> QED
      BY <3>1, FirstExists DEF FirstPending
  <2>2. d \in Regs /\ d # Scratch
    BY <1>3, <1>4, <2>1, ScratchIsNotAReg DEF IInv, MovesTypeOK
  <2>3. \A k \in Pending : Needed(k)
    BY <1>2, <1>3, <1>4, <1>8 DEF BreakCycle, EndOfPass, IInv, StuckBehind
  <2>4. \A k \in Pending : moves[k].src # Scratch
    BY <2>3, OnlyCyclesLeft DEF IInv
  <2>5. /\ regs' = [regs EXCEPT ![Scratch] = regs[d]]
        /\ moves' = Redirected(d)
        /\ regs \in [RegOrScratch -> Contents]
        /\ moves \in [1..n -> [src : RegOrScratch \cup Slot, dst : Regs]]
        /\ want' = want /\ done' = done /\ Pending' = Pending
        /\ cursor' = 1 /\ progress' = FALSE
    BY <1>3, <1>8 DEF BreakCycle, IInv, MovesTypeOK, Pending
  <2>6. \A k \in 1..n : /\ moves'[k] \in [src : RegOrScratch \cup Slot, dst : Regs]
                       /\ moves'[k].dst = moves[k].dst
                       /\ moves'[k].src = IF k \in Pending /\ moves[k].src = d
                                          THEN Scratch ELSE moves[k].src
    BY <2>5 DEF Redirected, RegOrScratch
  <2>7. moves' \in [1..n -> [src : RegOrScratch \cup Slot, dst : Regs]]
    BY <2>5, <2>6 DEF Redirected
  <2>8. MovesTypeOK'
    <3>1. 1 \in 1..(Cardinality(DOMAIN want) + 1)
      BY <1>2, <1>3
    <3>2. regs' \in [RegOrScratch -> Contents]
      BY <2>2, <2>5 DEF RegOrScratch
    <3>3. moves' \in [DOMAIN want -> [src : RegOrScratch \cup Slot, dst : Regs]]
      BY <1>3, <2>7
    <3> QED
      BY <1>8, <3>1, <3>2, <3>3 DEF IInv, MovesTypeOK, BreakCycle
  <2>9. Rewritten'
    BY <1>3, <2>5, <2>6 DEF IInv, Rewritten
  <2>10. StuckBehind'
    BY <1>4, <2>5 DEF StuckBehind
  <2>11. PendingSourcesIntact'
    <3> SUFFICES ASSUME NEW k \in Pending PROVE Val(moves[k].src)' = want[k].src
      BY <2>5 DEF PendingSourcesIntact
    <3>1. k \in 1..n /\ moves[k].src # Scratch
      BY <1>4, <2>4
    <3>2. Val(moves[k].src) = want[k].src
      BY DEF IInv, PendingSourcesIntact
    <3>3. CASE moves[k].src = d
      BY <2>2, <2>5, <2>6, <3>1, <3>2, <3>3 DEF Val, RegOrScratch
    <3>4. CASE moves[k].src # d
      BY <2>5, <2>6, <3>1, <3>2, <3>4 DEF Val, RegOrScratch
    <3> QED
      BY <3>3, <3>4
  <2>12. EmittedStay'
    <3> SUFFICES ASSUME NEW k \in done PROVE regs'[want[k].dst] = want[k].src
      BY <2>5 DEF EmittedStay
    <3>1. k \in 1..n /\ want[k].dst \in Regs
      BY <1>3 DEF IInv, MovesTypeOK
    <3> QED
      BY <2>5, <3>1, ScratchIsNotAReg DEF IInv, EmittedStay, RegOrScratch
  <2>13. OthersUntouched'
    BY <2>5, ScratchIsNotAReg DEF IInv, OthersUntouched, RegOrScratch
  <2> QED
    BY <2>8, <2>9, <2>10, <2>11, <2>12, <2>13 DEF IInv
<1>9. CASE UNCHANGED movesVars
  BY <1>9 DEF movesVars, IInv, MovesTypeOK, Rewritten, StuckBehind, PendingSourcesIntact,
              EmittedStay, OthersUntouched, Pending, Needed, Val
<1> QED
  BY <1>5, <1>6, <1>7, <1>8, <1>9 DEF MovesNext

\* Whatever the registers, slots and number of moves, the emitter's state and
\* the register file keep their types.
THEOREM TypeCorrect == MovesSpec => []MovesTypeOK
<1>1. IInv => MovesTypeOK
  BY DEF IInv
<1> QED
  BY InitIInv, NextIInv, <1>1, PTL DEF MovesSpec

\* A move that is still to be emitted can always read its source's value.
THEOREM SourcesSurvive == MovesSpec => []PendingSourcesIntact
<1>1. IInv => PendingSourcesIntact
  BY DEF IInv
<1> QED
  BY InitIInv, NextIInv, <1>1, PTL DEF MovesSpec

\* No emitted move's destination is overwritten by the rest of the shuffle.
THEOREM DestinationsSurvive == MovesSpec => []EmittedStay
<1>1. IInv => EmittedStay
  BY DEF IInv
<1> QED
  BY InitIInv, NextIInv, <1>1, PTL DEF MovesSpec

\* One scratch register is enough for any number of cycles.
THEOREM OneScratchSuffices == MovesSpec => []ScratchIsFree
<1>1. IInv => ScratchIsFree
  <2> SUFFICES ASSUME IInv, EndOfPass, ~progress
               PROVE  \A k \in Pending : moves[k].src # Scratch
    BY DEF ScratchIsFree
  <2>1. PICK n \in 0..MaxMoves : want \in Shuffles(n)
    BY DEF IInv, MovesTypeOK
  <2>2. n \in Nat /\ DOMAIN want = 1..n /\ cursor = n + 1
    BY <2>1, MaxMovesIsNat, ShuffleShape DEF EndOfPass
  <2>3. \A k \in Pending : Needed(k)
    BY <2>2 DEF IInv, StuckBehind, Pending
  <2> QED
    BY <2>3, OnlyCyclesLeft DEF IInv
<1> QED
  BY InitIInv, NextIInv, <1>1, PTL DEF MovesSpec

-----------------------------------------------------------------------------

\* The emitter starts where the parallel move starts.
LEMMA InitIsAtOnce == MovesInit => PM!Init
<1> SUFFICES ASSUME MovesInit PROVE PM!Init
  OBVIOUS
<1>1. PICK n \in 0..MaxMoves : want \in Shuffles(n)
  BY DEF MovesInit
<1>2. want \in PM!Shuffles(n)
  BY <1>1 DEF Shuffles, PM!Shuffles, PM!Move
<1>3. [r \in Regs |-> IF Pending = {} THEN regs[r] ELSE r] = PM!Untouched
  BY DEF MovesInit, PM!Untouched, RegOrScratch
<1>4. (Pending = {}) = (DOMAIN want = {})
  BY DEF MovesInit, Pending
<1> QED
  BY <1>1, <1>2, <1>3, <1>4 DEF PM!Init

\* A step of the emitter stutters, except the last, which makes all moves.
LEMMA StepIsAtOnce == IInv /\ IInv' /\ [MovesNext]_movesVars => [PM!MakeAll]_(PM!vars)
<1> DEFINE bar == [r \in Regs |-> IF Pending = {} THEN regs[r] ELSE r]
<1> SUFFICES ASSUME IInv, IInv', [MovesNext]_movesVars PROVE PM!MakeAll \/ UNCHANGED PM!vars
  OBVIOUS
<1>1. want' = want
  BY DEF MovesNext, PassOver, Emit, NextPass, BreakCycle, movesVars
<1>2. PICK n \in 0..MaxMoves : want \in Shuffles(n)
  BY DEF IInv, MovesTypeOK
<1>3. \A j, k \in DOMAIN want : want[j].dst = want[k].dst => j = k
  BY <1>2, MaxMovesIsNat, ShuffleShape
<1>4. CASE Pending' = Pending /\ Pending # {}
  BY <1>1, <1>4 DEF PM!vars
<1>5. CASE Pending = {}
  <2>1. regs' = regs /\ Pending' = Pending
    BY <1>5 DEF MovesNext, PassOver, Emit, NextPass, BreakCycle, InPass, EndOfPass, movesVars, Pending
  <2> QED
    BY <1>1, <1>5, <2>1 DEF PM!vars
<1>6. CASE Pending # {} /\ Pending' # {}
  BY <1>1, <1>6 DEF PM!vars
<1>7. CASE Pending # {} /\ Pending' = {}
  <2>1. done' = DOMAIN want
    BY <1>1, <1>7 DEF IInv, MovesTypeOK, Pending
  <2>2. \A k \in DOMAIN want : regs'[want[k].dst] = want[k].src
    BY <1>1, <2>1 DEF IInv, EmittedStay
  <2>3. \A r \in Regs : (\A k \in DOMAIN want : want[k].dst # r) => regs'[r] = r
    BY <1>1, <2>1 DEF IInv, OthersUntouched
  <2>4. ASSUME NEW r \in Regs PROVE regs'[r] = PM!Shuffled(want)[r]
    <3>1. CASE \E k \in DOMAIN want : want[k].dst = r
      <4> DEFINE c == CHOOSE k \in DOMAIN want : want[k].dst = r
      <4>1. c \in DOMAIN want /\ want[c].dst = r
        BY <3>1
      <4>2. PM!Shuffled(want)[r] = want[c].src
        BY <3>1 DEF PM!Shuffled
      <4> QED
        BY <2>2, <4>1, <4>2
    <3>2. CASE ~\E k \in DOMAIN want : want[k].dst = r
      BY <2>3, <3>2 DEF PM!Shuffled
    <3> QED
      BY <3>1, <3>2
  <2>5. bar' = PM!Shuffled(want)
    BY <1>7, <2>4 DEF PM!Shuffled
  <2> QED
    BY <1>1, <1>7, <2>5 DEF PM!MakeAll
<1> QED
  BY <1>4, <1>5, <1>6, <1>7

\* The code emitted move by move implements the simultaneous assignment (the
\* safety part of MovesAtOnce; that the loop ends is left to TLC).
THEOREM ImplementsParallelMove == MovesSpec => PM!Init /\ [][PM!MakeAll]_(PM!vars)
<1> QED
  BY InitIInv, NextIInv, InitIsAtOnce, StepIsAtOnce, PTL DEF MovesSpec

-----------------------------------------------------------------------------
\* v is set before k and used after it.
AliveAcross(v, k) == meta[v].def < k /\ k < meta[v].liveEnd

\* No sum, difference or product is computed in the register of its right operand.
RightOperandApart ==
  phase = "done" =>
    \A k \in Indices(func) :
      LET i == func.code[k] IN
      i.op = "bin" /\ Has(i.dst) /\ Has(i.src[2]) /\ loc[i.dst] = loc[i.src[2]] =>
        Spilled(i.dst) \/ i.src[1] = i.src[2]

\* No parameter that lives across a division is in a register the division overwrites.
DivisionSparesParams ==
  phase = "done" =>
    \A d \in DivMods(func), v \in Params(func) :
      Has(v) /\ AliveAcross(v, d) => loc[v] \notin {Reg(Rax), Reg(Rdx)}

-----------------------------------------------------------------------------
\* The allocator's result.

IsUsed(v) == meta[v].plain \/ meta[v].isRet \/ meta[v].calls # {}

InCalleeSaved(v) == \E k \in 1..calleeIdx : loc[v] = Reg(CalleeSaved[k])
InSlot(v) == loc[v] = Stack(loc[v].off)

\* In an argument register no call and, for a temporary, no division comes in between.
InArgReg(v) ==
  \E k \in DOMAIN IntArgs :
    /\ loc[v] = Reg(IntArgs[k])
    /\ \A c \in Calls(func) : ~AliveAcross(v, c)
    /\ v \in Params(func) => k = v
    /\ v \notin Params(func) => /\ meta[v].calls # {}
                                /\ IntArgs[k] \in {Rax, Rdx} =>
                                     \A d \in DivMods(func) : ~AliveAcross(v, d)

InRax(v) == v \notin Params(func) /\ loc[v] = Reg(Rax) /\ meta[v].isRet /\ RaxSafe(v)

WellPlaced(v) ==
  /\ InSlot(v) \/ InCalleeSaved(v) \/ InArgReg(v) \/ InRax(v)
  /\ v \notin Params(func) /\ meta[v].isVar => InSlot(v)
PlacedWell == \A v \in DOMAIN loc : WellPlaced(v)

\* A parameter is where the caller has put it or is copied from there.
CopyOf(v) == <<IntArgs[v], v>>
Copied(v) == \E k \in DOMAIN copies : copies[k] = CopyOf(v)
ParamsWhere ==
  \A v \in Params(func) : v \in DOMAIN loc =>
    \/ v > Len(IntArgs) /\ loc[v] = Stack((v - Len(IntArgs) + 1) * 8)
    \/ v \in DOMAIN IntArgs /\ loc[v] = Reg(IntArgs[v])
    \/ v \in DOMAIN IntArgs /\ Copied(v)
CopiesSound ==
  /\ copies \in Seq(STRING \X Nat)
  /\ \A k \in DOMAIN copies :
       \E v \in Params(func) :
         /\ v \in DOMAIN loc /\ v \in DOMAIN IntArgs /\ copies[k] = CopyOf(v)
         /\ (InSlot(v) /\ loc[v].off < 0) \/ InCalleeSaved(v)
  /\ \A j, k \in DOMAIN copies : copies[j] = copies[k] => j = k

PInv ==
  /\ phase = "meta" => copies = << >>
  /\ phase # "meta" => PlacedWell /\ ParamsWhere /\ CopiesSound
  /\ phase \notin {"meta", "params"} => Params(func) \subseteq DOMAIN loc
  /\ phase = "temps" => \A v \in VRegs(func) : IsUsed(v) /\ v < at => v \in DOMAIN loc \/ meta[v].isVar
  /\ phase = "vars" => \A v \in VRegs(func) : IsUsed(v) => v \in DOMAIN loc \/ (meta[v].isVar /\ at <= meta[v].def)
  /\ phase \in {"frame", "blocks", "done"} => \A v \in VRegs(func) : IsUsed(v) => v \in DOMAIN loc

\* How far each pass counts.
AtBound ==
  /\ phase = "meta" => at = 1
  /\ phase = "params" => at <= func.params + 1
  /\ phase = "temps" => at <= LastVReg + 1
  /\ phase = "vars" => at <= Len(func.code) + 1
  /\ phase = "frame" => at = 1
  /\ phase \in {"blocks", "done"} => at <= Len(func.blocks) + 1

-----------------------------------------------------------------------------
\* The machine.

IsMap(c) == c = [l \in DOMAIN c |-> c[l]]

\* Where the caller's i-th callee-saved register is while the function runs.
Keeper(i) == IF i <= calleeIdx THEN SaveSlot(i) ELSE Reg(CalleeSaved[i])

\* pc and the registers the caller wants back.
Kept(c) == \A i \in DOMAIN CalleeSaved : Get(c, Keeper(i)) = Saved(i)
EInv ==
  /\ pc \in 0..Returned
  /\ pc # 0 => phase = "done" /\ IsMap(cell)
  /\ DOMAIN val \subseteq VRegs(func)
  /\ turns \in Nat
  /\ pc \in DOMAIN func.code => Kept(cell)
  /\ pc = Returned => \A i \in DOMAIN CalleeSaved : Get(cell, Reg(CalleeSaved[i])) = Saved(i)

Live(v, k) == meta[v].def < k /\ k <= meta[v].liveEnd

\* Every live VReg's place holds its value.
Carried(v) == v \in DOMAIN val /\ v \in DOMAIN loc /\ Get(cell, loc[v]) = val[v]
VInv ==
  /\ pc # 0 => \A v \in VRegs(func) : Live(v, pc) => Carried(v)
  /\ got = meant

-----------------------------------------------------------------------------
\* The allocator's passes.

\* VRegs are numbered from 1.
LEMMA LastVRegIs ==
  ASSUME func \in Funcs
  PROVE  LastVReg = Len(func.width) /\ VRegs(func) = 1..LastVReg /\ LastVReg \in Nat
<1>1. Len(func.width) \in Nat /\ VRegs(func) = 1..Len(func.width)
  BY OneFunction
<1>2. LastVReg = Len(func.width)
  BY <1>1, FS_Interval DEF LastVReg
<1> QED
  BY <1>1, <1>2

\* A place stays as good as it was.
LEMMA StaysWell ==
  ASSUME func' = func, meta' = meta, calleeIdx \in Nat, calleeIdx' \in Nat, calleeIdx <= calleeIdx',
         NEW v, loc'[v] = loc[v], WellPlaced(v)
  PROVE  WellPlaced(v)'
<1>1. InSlot(v) => InSlot(v)'
  BY DEF InSlot
<1>2. InCalleeSaved(v) => InCalleeSaved(v)'
  BY DEF InCalleeSaved
<1>3. InArgReg(v) => InArgReg(v)'
  BY Zenon DEF InArgReg, AliveAcross, Params, Calls, DivMods, Indices
<1>4. InRax(v) => InRax(v)'
  BY Zenon DEF InRax, RaxSafe, Params
<1> QED
  BY <1>1, <1>2, <1>3, <1>4 DEF WellPlaced, Params

\* Giving v a good place keeps the places of the others.
LEMMA BindWell ==
  ASSUME func' = func, meta' = meta, Typed, calleeIdx' \in Nat, calleeIdx <= calleeIdx',
         PlacedWell, NEW v, v \notin DOMAIN loc, NEW l, Bind(v, l),
         loc'[v] = l => WellPlaced(v)'
  PROVE  /\ PlacedWell' /\ DOMAIN loc' = DOMAIN loc \cup {v} /\ loc'[v] = l
         /\ \A u \in DOMAIN loc : loc'[u] = loc[u]
<1>1. /\ DOMAIN loc' = DOMAIN loc \cup {v} /\ loc'[v] = l
      /\ \A u \in DOMAIN loc : loc'[u] = loc[u]
  BY DEF Bind
<1>2. calleeIdx \in Nat
  <2>1. calleeIdx \in 0..Len(CalleeSaved) /\ Len(CalleeSaved) \in Nat
    BY LenProperties, RegistersAreNamed DEF Typed
  <2> QED
    BY <2>1
<1>3. ASSUME NEW u \in DOMAIN loc PROVE WellPlaced(u)'
  <2>1. WellPlaced(u) /\ loc'[u] = loc[u]
    BY <1>1 DEF PlacedWell
  <2> QED
    BY <1>2, <2>1, StaysWell
<1> QED
  BY <1>1, <1>3 DEF PlacedWell

\* A slot is a place.
LEMMA SlotWell ==
  ASSUME NEW v, NEW o, loc'[v] = Stack(o)
  PROVE  WellPlaced(v)' /\ InSlot(v)'
<1>1. Stack(o).off = o
  BY DEF Stack
<1>2. InSlot(v)'
  BY <1>1 DEF InSlot
<1> QED
  BY <1>2 DEF WellPlaced

\* A register handed out or a slot below %rbp.
KeptIn(v, l) ==
  \/ calleeIdx' = calleeIdx /\ \E o \in Int : l = Stack(o) /\ o < 0
  \/ calleeIdx' = calleeIdx + 1 /\ l = Reg(CalleeSaved[calleeIdx'])

\* allocCalleeSavedOrStack's three outcomes.
LEMMA CalleeSavedOrStackIs ==
  ASSUME Typed, NEW v \in VRegs(func), CalleeSavedOrStack(v)
  PROVE  \E l : Bind(v, l) /\ KeptIn(v, l)
<1>1. CASE calleeIdx < Len(CalleeSaved) /\ calleeIdx' = calleeIdx + 1
           /\ Bind(v, Reg(CalleeSaved[calleeIdx + 1]))
  BY <1>1 DEF KeptIn
<1>2. CASE calleeIdx' = calleeIdx /\ FreshSlot(v)
  <2> DEFINE size == func.width[v]
             top == AlignUp(stackBytes, size) + size
  <2>1. size \in Sizes /\ stackBytes \in Nat
    BY OneFunction DEF Typed
  <2>2. top \in Nat /\ top > stackBytes
    <3> HIDE DEF size
    <3> QED
      BY <2>1, FreshFits
  <2>3. Bind(v, Stack(-top))
    BY <1>2 DEF FreshSlot
  <2> HIDE DEF top
  <2>4. -top \in Int /\ -top < 0
    BY <2>1, <2>2
  <2> QED
    BY <1>2, <2>3, <2>4 DEF KeptIn
<1>3. CASE calleeIdx' = calleeIdx /\ TempSlot(v) /\ ~FreshSlot(v)
  <2>1. PICK o \in ExpiredSlots(v) : Bind(v, Stack(o))
    BY <1>3 DEF TempSlot
  <2>2. PICK u \in SlotMates(v) : o = loc[u].off
    BY DEF ExpiredSlots
  <2>3. o \in Int /\ o < 0
    BY <2>2 DEF SlotMates, Typed, LocsTyped
  <2> QED
    BY <1>3, <2>1, <2>3 DEF KeptIn
<1> QED
  BY <1>1, <1>2, <1>3 DEF CalleeSavedOrStack

\* What CalleeSavedOrStackIs gives is a place for a VReg that is no variable.
LEMMA KeptWell ==
  ASSUME Typed, NEW v, NEW l, KeptIn(v, l), loc'[v] = l, v \in Params(func)' \/ ~meta'[v].isVar
  PROVE  /\ WellPlaced(v)' /\ calleeIdx' \in Nat /\ calleeIdx <= calleeIdx'
         /\ (InSlot(v)' /\ loc'[v].off < 0) \/ InCalleeSaved(v)'
<1>1. calleeIdx \in Nat
  <2>1. calleeIdx \in 0..Len(CalleeSaved) /\ Len(CalleeSaved) \in Nat
    BY LenProperties, RegistersAreNamed DEF Typed
  <2> QED
    BY <2>1
<1>2. CASE calleeIdx' = calleeIdx /\ \E o \in Int : l = Stack(o) /\ o < 0
  <2>1. PICK o \in Int : l = Stack(o) /\ o < 0
    BY <1>2
  <2>2. Stack(o).off = o
    BY DEF Stack
  <2> QED
    BY <1>1, <1>2, <2>1, <2>2, SlotWell
<1>3. CASE calleeIdx' = calleeIdx + 1 /\ l = Reg(CalleeSaved[calleeIdx'])
  <2>1. calleeIdx' \in 1..calleeIdx' /\ calleeIdx' \in Nat
    BY <1>1, <1>3
  <2>2. InCalleeSaved(v)'
    BY <1>3, <2>1 DEF InCalleeSaved
  <2> QED
    BY <1>1, <1>3, <2>1, <2>2 DEF WellPlaced
<1> QED
  BY <1>2, <1>3 DEF KeptIn

\* Placing what is no parameter leaves the parameters where they are.
LEMMA ParamsStay ==
  ASSUME ParamsWhere, CopiesSound, copies' = copies, func' = func,
         calleeIdx \in Nat, calleeIdx' \in Nat, calleeIdx <= calleeIdx',
         DOMAIN loc \subseteq DOMAIN loc', \A u \in DOMAIN loc : loc'[u] = loc[u],
         \A u \in DOMAIN loc' : u \in Params(func) => u \in DOMAIN loc
  PROVE  ParamsWhere' /\ CopiesSound'
<1>1. ParamsWhere'
  BY Zenon DEF ParamsWhere, Copied, Params
<1>2. ASSUME NEW k \in DOMAIN copies
      PROVE  \E v \in Params(func) :
               /\ v \in DOMAIN loc' /\ v \in DOMAIN IntArgs /\ copies[k] = CopyOf(v)
               /\ (InSlot(v)' /\ loc'[v].off < 0) \/ InCalleeSaved(v)'
  <2>1. PICK v \in Params(func) :
          /\ v \in DOMAIN loc /\ v \in DOMAIN IntArgs /\ copies[k] = CopyOf(v)
          /\ (InSlot(v) /\ loc[v].off < 0) \/ InCalleeSaved(v)
    BY DEF CopiesSound
  <2>2. loc'[v] = loc[v]
    BY <2>1
  <2>3. (InSlot(v) => InSlot(v)') /\ (InCalleeSaved(v) => InCalleeSaved(v)')
    BY <2>2 DEF InSlot, InCalleeSaved
  <2> QED
    BY <2>1, <2>2, <2>3
<1>3. CopiesSound'
  BY <1>2, Zenon DEF CopiesSound, Params
<1> QED
  BY <1>1, <1>3

\* What PInv says of the passes, named for the steps.
TempsPlaced == \A v \in VRegs(func) : IsUsed(v) /\ v < at => v \in DOMAIN loc \/ meta[v].isVar
VarsPlaced == \A v \in VRegs(func) : IsUsed(v) => v \in DOMAIN loc \/ (meta[v].isVar /\ at <= meta[v].def)
AllPlaced == \A v \in VRegs(func) : IsUsed(v) => v \in DOMAIN loc

\* The parameters.
LEMMA ParamsPInv == FInv /\ MInv /\ AInv /\ PInv /\ AllocParam => PInv'
<1> SUFFICES ASSUME FInv, MInv, AInv, PInv, AllocParam PROVE PInv'
  OBVIOUS
<1>1. phase = "params"
  BY DEF AllocParam, ParamOnCallersStack, ParamMoved, ParamStays, ParamsEnd, InPhase, PhaseEnds
<1>2. PICK p : p = at
  OBVIOUS
<1>3. /\ Typed /\ PlacedWell /\ ParamsWhere /\ CopiesSound /\ ParamsInOrder
      /\ func \in Funcs /\ p \in Nat \ {0} /\ DOMAIN loc = 1..(p - 1)
  BY <1>1, <1>2 DEF FInv, AInv, PInv, Typed, ParamsInOrder
<1>4. calleeIdx \in Nat /\ DOMAIN IntArgs = 1..Len(IntArgs) /\ Len(IntArgs) \in Nat
  <2>1. calleeIdx \in 0..Len(CalleeSaved) /\ Len(CalleeSaved) \in Nat
    BY <1>3, LenProperties, RegistersAreNamed DEF Typed
  <2>2. calleeIdx \in Nat
    BY <2>1
  <2> QED
    BY <2>2, LenProperties, RegistersAreNamed
<1>5. ASSUME p <= func.params
      PROVE  p \in Params(func) /\ p \in VRegs(func) /\ p \notin DOMAIN loc
  <2>1. p \in Params(func)
    BY <1>3, <1>5, OneFunction DEF Params
  <2>2. p \notin 1..(p - 1)
    BY <1>3
  <2> QED
    BY <1>3, <2>1, <2>2, OneFunction
<1>6. ASSUME p <= func.params, GoOn, NEW l, Bind(p, l), calleeIdx' \in Nat, calleeIdx <= calleeIdx',
             loc'[p] = l => WellPlaced(p)',
             \/ copies' = copies /\ p > Len(IntArgs) /\ l = Stack((p - Len(IntArgs) + 1) * 8)
             \/ copies' = copies /\ p \in DOMAIN IntArgs /\ l = Reg(IntArgs[p])
             \/ /\ copies' = Append(copies, CopyOf(p)) /\ p \in DOMAIN IntArgs
                /\ loc'[p] = l => (InSlot(p)' /\ loc'[p].off < 0) \/ InCalleeSaved(p)'
      PROVE  PInv'
  <2>1. func' = func /\ meta' = meta /\ phase' = phase
    BY <1>6 DEF GoOn
  <2>2. p \in Params(func) /\ p \notin DOMAIN loc
    BY <1>5, <1>6
  <2>3. /\ PlacedWell' /\ DOMAIN loc' = DOMAIN loc \cup {p} /\ loc'[p] = l
        /\ \A u \in DOMAIN loc : loc'[u] = loc[u]
    BY <1>3, <1>6, <2>1, <2>2, BindWell
  <2>4. PICK n : n = Len(copies) /\ n \in Nat /\ DOMAIN copies = 1..n
    BY <1>3, LenProperties DEF CopiesSound
  <2>5. /\ \A k \in 1..n : k \in DOMAIN copies' /\ copies'[k] = copies[k]
        /\ copies' \in Seq(STRING \X Nat)
        /\ \/ copies' = copies /\ DOMAIN copies' = 1..n
           \/ /\ copies' = Append(copies, CopyOf(p)) /\ p \in DOMAIN IntArgs
              /\ (InSlot(p)' /\ loc'[p].off < 0) \/ InCalleeSaved(p)'
              /\ DOMAIN copies' = 1..(n + 1)
              /\ copies'[n + 1] = CopyOf(p)
    <3>1. copies \in Seq(STRING \X Nat)
      BY <1>3 DEF CopiesSound
    <3>2. CASE copies' = copies
      BY <2>4, <3>1, <3>2
    <3>3. CASE /\ copies' = Append(copies, CopyOf(p)) /\ p \in DOMAIN IntArgs
               /\ (InSlot(p)' /\ loc'[p].off < 0) \/ InCalleeSaved(p)'
      <4>1. IntArgs[p] \in STRING
        BY <1>4, <3>3, ElementOfSeq, RegistersAreNamed
      <4>2. CopyOf(p) \in STRING \X Nat
        BY <1>3, <4>1 DEF CopyOf
      <4>3. /\ copies' \in Seq(STRING \X Nat) /\ Len(copies') = n + 1 /\ copies'[n + 1] = CopyOf(p)
            /\ \A k \in 1..n : copies'[k] = copies[k]
        BY <2>4, <3>1, <3>3, <4>2, AppendProperties
      <4>4. DOMAIN copies' = 1..(n + 1)
        BY <4>3, LenProperties
      <4> QED
        BY <2>4, <3>3, <4>3, <4>4
    <3> QED
      BY <1>6, <2>3, <3>2, <3>3
  <2>6. \A u : /\ InSlot(u) /\ loc'[u] = loc[u] => InSlot(u)'
               /\ InCalleeSaved(u) /\ loc'[u] = loc[u] => InCalleeSaved(u)'
    BY <1>4, <1>6 DEF InSlot, InCalleeSaved
  <2>7. ParamsWhere'
    <3> SUFFICES ASSUME NEW u \in Params(func), u \in DOMAIN loc'
                 PROVE  \/ u > Len(IntArgs) /\ loc'[u] = Stack((u - Len(IntArgs) + 1) * 8)
                        \/ u \in DOMAIN IntArgs /\ loc'[u] = Reg(IntArgs[u])
                        \/ u \in DOMAIN IntArgs /\ \E k \in DOMAIN copies' : copies'[k] = CopyOf(u)
      BY <2>1 DEF ParamsWhere, Copied, Params
    <3>1. CASE u = p
      <4>1. CASE copies' = Append(copies, CopyOf(p)) /\ p \in DOMAIN IntArgs
        <5>1. copies'[n + 1] = CopyOf(p) /\ n + 1 \in DOMAIN copies'
          BY <2>4, <4>1, AppendProperties, LenProperties, <2>5
        <5> QED
          BY <3>1, <4>1, <5>1
      <4> QED
        BY <1>6, <2>3, <3>1, <4>1
    <3>2. CASE u \in DOMAIN loc
      <4>1. Copied(u) => \E k \in DOMAIN copies' : copies'[k] = CopyOf(u)
        BY <2>4, <2>5 DEF Copied
      <4> QED
        BY <1>3, <2>3, <3>2, <4>1 DEF ParamsWhere
    <3> QED
      BY <2>3, <3>1, <3>2
  <2>8. ASSUME NEW k \in DOMAIN copies'
        PROVE  \E v \in Params(func) :
                 /\ v \in DOMAIN loc' /\ v \in DOMAIN IntArgs /\ copies'[k] = CopyOf(v)
                 /\ (InSlot(v)' /\ loc'[v].off < 0) \/ InCalleeSaved(v)'
    <3>1. CASE k \in 1..n
      <4>1. PICK v \in Params(func) :
              /\ v \in DOMAIN loc /\ v \in DOMAIN IntArgs /\ copies[k] = CopyOf(v)
              /\ (InSlot(v) /\ loc[v].off < 0) \/ InCalleeSaved(v)
        BY <1>3, <2>4, <3>1 DEF CopiesSound
      <4>2. loc'[v] = loc[v] /\ copies'[k] = copies[k]
        BY <2>3, <2>5, <3>1, <4>1
      <4> QED
        BY <2>3, <2>6, <4>1, <4>2
    <3>2. CASE k \notin 1..n
      BY <2>2, <2>3, <2>4, <2>5, <3>2, SMTT(30)
    <3> QED
      BY <3>1, <3>2
  <2>9. \A j, k \in DOMAIN copies' : copies'[j] = copies'[k] => j = k
    <3>1. ASSUME NEW k \in 1..n PROVE copies'[k] = copies[k] /\ copies[k] # CopyOf(p)
      <4>1. PICK v \in Params(func) : v \in DOMAIN loc /\ copies[k] = CopyOf(v)
        BY <1>3, <2>4, <3>1 DEF CopiesSound
      <4>2. v # p
        BY <2>2, <4>1
      <4> QED
        BY <2>5, <4>1, <4>2 DEF CopyOf
    <3>2. \A j, k \in 1..n : copies[j] = copies[k] => j = k
      BY <1>3, <2>4 DEF CopiesSound
    <3>3. CASE DOMAIN copies' = 1..n
      BY <3>1, <3>2, <3>3
    <3>4. CASE DOMAIN copies' = 1..(n + 1) /\ copies'[n + 1] = CopyOf(p)
      <4>1. \A k \in DOMAIN copies' : k \in 1..n \/ k = n + 1
        BY <2>4, <3>4
      <4> QED
        BY <3>1, <3>2, <3>4, <4>1
    <3> QED
      BY <2>5, <3>3, <3>4
  <2>10. CopiesSound'
    BY <2>1, <2>5, <2>8, <2>9, Zenon DEF CopiesSound, Params
  <2> QED
    BY <1>1, <2>1, <2>3, <2>7, <2>10 DEF PInv
<1>7. CASE ParamOnCallersStack
  <2>1. /\ p <= func.params /\ p > Len(IntArgs) /\ GoOn /\ calleeIdx' = calleeIdx /\ copies' = copies
        /\ Bind(p, Stack((p - Len(IntArgs) + 1) * 8))
    BY <1>2, <1>7 DEF ParamOnCallersStack, InPhase
  <2> DEFINE o == (p - Len(IntArgs) + 1) * 8
  <2>2. loc'[p] = Stack(o) => WellPlaced(p)'
    BY SlotWell
  <2> QED
    BY <1>4, <1>6, <2>1, <2>2
<1>8. CASE ParamMoved
  <2>1. /\ p <= func.params /\ p <= Len(IntArgs) /\ GoOn /\ CalleeSavedOrStack(p)
        /\ copies' = Append(copies, CopyOf(p))
    BY <1>2, <1>8 DEF ParamMoved, InPhase, CopyOf
  <2>2. PICK l : Bind(p, l) /\ KeptIn(p, l)
    BY <1>3, <1>5, <2>1, CalleeSavedOrStackIs
  <2>3. p \in DOMAIN IntArgs
    BY <1>3, <1>4, <2>1
  <2>4. p \in Params(func)'
    BY <1>5, <2>1 DEF GoOn, Params
  <2>5. calleeIdx' \in Nat /\ calleeIdx <= calleeIdx'
    BY <1>4, <2>2 DEF KeptIn
  <2>6. loc'[p] = l => WellPlaced(p)' /\ ((InSlot(p)' /\ loc'[p].off < 0) \/ InCalleeSaved(p)')
    BY <1>3, <2>2, <2>4, KeptWell
  <2> QED
    BY <1>6, <2>1, <2>2, <2>3, <2>5, <2>6
<1>9. CASE ParamStays
  <2>1. /\ p <= func.params /\ p <= Len(IntArgs) /\ GoOn /\ calleeIdx' = calleeIdx /\ copies' = copies
        /\ ~CrossesCall(p) /\ Bind(p, Reg(IntArgs[p]))
    BY <1>2, <1>9 DEF ParamStays, InPhase
  <2>2. p \in DOMAIN IntArgs /\ p \in Params(func)
    BY <1>3, <1>4, <1>5, <2>1
  <2>3. func' = func /\ meta' = meta
    BY <2>1 DEF GoOn
  <2>4. \A c \in Calls(func) : ~(c < meta[p].liveEnd)
    BY <2>1 DEF CrossesCall
  <2>5. ASSUME loc'[p] = Reg(IntArgs[p]) PROVE WellPlaced(p)'
    <3>1. \A c \in Calls(func)' : ~AliveAcross(p, c)'
      BY <2>3, <2>4 DEF AliveAcross, Calls, Indices
    <3>2. p \in Params(func)'
      BY <2>2, <2>3 DEF Params
    <3>3. InArgReg(p)'
      BY <2>2, <2>5, <3>1, <3>2 DEF InArgReg
    <3> QED
      BY <3>2, <3>3 DEF WellPlaced
  <2> QED
    BY <1>4, <1>6, <2>1, <2>2, <2>5
<1>10. CASE ParamsEnd
  <2>1. /\ p > func.params /\ phase' = "temps" /\ at' = 1 /\ copies' = copies
        /\ func' = func /\ meta' = meta /\ loc' = loc /\ calleeIdx' = calleeIdx
    BY <1>2, <1>10 DEF ParamsEnd, PhaseEnds
  <2>2. \A v \in DOMAIN loc : WellPlaced(v)'
    BY <1>3, <1>4, <2>1, StaysWell DEF PlacedWell
  <2>3. ParamsWhere' /\ CopiesSound'
    BY <1>3, <1>4, <2>1, ParamsStay
  <2>4. Params(func) \subseteq DOMAIN loc
    BY <1>3, <2>1, OneFunction DEF Params
  <2>5. TempsPlaced'
    <3>1. \A v \in VRegs(func) : ~(v < 1)
      BY <1>3, OneFunction
    <3> QED
      BY <2>1, <3>1 DEF TempsPlaced, VRegs
  <2> QED
    BY <2>1, <2>2, <2>3, <2>4, <2>5 DEF PInv, PlacedWell, TempsPlaced, Params
<1> QED
  BY <1>7, <1>8, <1>9, <1>10 DEF AllocParam

\* The temporaries.
LEMMA TempsPInv == FInv /\ MInv /\ AInv /\ PInv /\ AllocTemp => PInv'
<1> SUFFICES ASSUME FInv, MInv, AInv, PInv, AllocTemp PROVE PInv'
  OBVIOUS
<1>1. phase = "temps"
  BY DEF AllocTemp, TempBoundOrVar, TempInRax, TempKept, TempDead, TempInArgReg, TempForCallKept,
         TempsEnd, InPhase, PhaseEnds
<1>2. PICK p : p = at
  OBVIOUS
<1>3. /\ Typed /\ PlacedWell /\ ParamsWhere /\ CopiesSound /\ TempsPlaced
      /\ func \in Funcs /\ p \in Nat \ {0} /\ Params(func) \subseteq DOMAIN loc
  BY <1>1, <1>2 DEF FInv, AInv, PInv, Typed, TempsPlaced
<1>4. MetaSound
  BY <1>1, <1>3, MetaIsSound DEF MInv
<1>5. calleeIdx \in Nat
  <2>1. calleeIdx \in 0..Len(CalleeSaved) /\ Len(CalleeSaved) \in Nat
    BY <1>3, LenProperties, RegistersAreNamed DEF Typed
  <2> QED
    BY <2>1
<1>6. ASSUME p <= LastVReg PROVE p \in VRegs(func)
  BY <1>3, <1>6, LastVRegIs
<1>7. ASSUME GoOn, loc' = loc, calleeIdx' = calleeIdx, copies' = copies,
             p \in DOMAIN loc \/ meta[p].isVar \/ ~IsUsed(p)
      PROVE  PInv'
  <2>1. func' = func /\ meta' = meta /\ phase' = phase /\ at' = p + 1
    BY <1>2, <1>7 DEF GoOn
  <2>2. \A v \in DOMAIN loc : WellPlaced(v)'
    BY <1>3, <1>5, <1>7, <2>1, StaysWell DEF PlacedWell
  <2>3. ParamsWhere' /\ CopiesSound'
    BY <1>3, <1>5, <1>7, <2>1, ParamsStay
  <2>4. TempsPlaced'
    <3>1. \A v \in VRegs(func) : v < p + 1 => v < p \/ v = p
      BY <1>3, OneFunction
    <3> QED
      BY <1>2, <1>3, <1>7, <2>1, <3>1 DEF TempsPlaced, VRegs, IsUsed
  <2> QED
    BY <1>1, <1>3, <1>7, <2>1, <2>2, <2>3, <2>4 DEF PInv, PlacedWell, TempsPlaced, Params
<1>8. ASSUME p \in VRegs(func), Temp(p), GoOn, copies' = copies, NEW l, Bind(p, l),
             calleeIdx' \in Nat, calleeIdx <= calleeIdx', loc'[p] = l => WellPlaced(p)'
      PROVE  PInv'
  <2>1. func' = func /\ meta' = meta /\ phase' = phase /\ at' = p + 1
    BY <1>2, <1>8 DEF GoOn
  <2>2. p \notin DOMAIN loc /\ p \notin Params(func)
    BY <1>3, <1>8 DEF Temp
  <2>3. /\ PlacedWell' /\ DOMAIN loc' = DOMAIN loc \cup {p}
        /\ \A u \in DOMAIN loc : loc'[u] = loc[u]
    BY <1>3, <1>8, <2>1, <2>2, BindWell
  <2>4. ParamsWhere' /\ CopiesSound'
    BY <1>3, <1>5, <1>8, <2>1, <2>2, <2>3, ParamsStay
  <2>5. TempsPlaced'
    <3>1. \A v \in VRegs(func) : v < p + 1 => v < p \/ v = p
      BY <1>3, OneFunction
    <3> QED
      BY <1>2, <1>3, <2>1, <2>3, <3>1 DEF TempsPlaced, VRegs, IsUsed
  <2> QED
    BY <1>1, <1>3, <2>1, <2>3, <2>4, <2>5 DEF PInv, TempsPlaced, Params
<1>9. CASE TempBoundOrVar \/ TempDead
  <2>1. GoOn /\ loc' = loc /\ calleeIdx' = calleeIdx /\ copies' = copies
    BY <1>9 DEF TempBoundOrVar, TempDead
  <2>2. p \in DOMAIN loc \/ meta[p].isVar \/ ~IsUsed(p)
    BY <1>2, <1>9 DEF TempBoundOrVar, TempDead, Temp, IsUsed, NoCallTakes
  <2> QED
    BY <1>7, <2>1, <2>2
<1>10. CASE TempInRax
  <2>1. /\ p <= LastVReg /\ Temp(p) /\ OnlyReturnValue(p) /\ RaxSafe(p) /\ GoOn
        /\ copies' = copies /\ calleeIdx' = calleeIdx /\ Bind(p, Reg(Rax))
    BY <1>2, <1>10 DEF TempInRax, InPhase
  <2>2. func' = func /\ meta' = meta /\ p \notin Params(func) /\ ~meta[p].isVar /\ meta[p].isRet
    BY <1>3, <2>1 DEF GoOn, Temp, OnlyReturnValue
  <2>3. loc'[p] = Reg(Rax) => WellPlaced(p)'
    <3>1. RaxSafe(p)'
      BY <2>1, <2>2 DEF RaxSafe
    <3> QED
      BY <2>2, <3>1 DEF WellPlaced, InRax, Params
  <2> QED
    BY <1>5, <1>6, <1>8, <2>1, <2>3
<1>11. CASE TempKept \/ TempForCallKept
  <2>1. p <= LastVReg /\ Temp(p) /\ GoOn /\ copies' = copies /\ CalleeSavedOrStack(p)
    BY <1>2, <1>11 DEF TempKept, TempForCallKept, InPhase
  <2>2. PICK l : Bind(p, l) /\ KeptIn(p, l)
    BY <1>3, <1>6, <2>1, CalleeSavedOrStackIs
  <2>3. ~meta'[p].isVar /\ calleeIdx' \in Nat /\ calleeIdx <= calleeIdx'
    BY <1>5, <2>1, <2>2 DEF GoOn, Temp, KeptIn
  <2>4. loc'[p] = l => WellPlaced(p)'
    BY <1>3, <2>2, <2>3, KeptWell
  <2> QED
    BY <1>6, <1>8, <2>1, <2>2, <2>3, <2>4
<1>12. CASE TempInArgReg
  <2>1. /\ p <= LastVReg /\ Temp(p) /\ ~NoCallTakes(p) /\ ~Outlives(p) /\ ~Divided(p) /\ GoOn
        /\ copies' = copies /\ calleeIdx' = calleeIdx /\ Bind(p, Reg(Desired(p)))
    BY <1>2, <1>12 DEF TempInArgReg, InPhase
  <2>2. p \in VRegs(func) /\ p \notin Params(func) /\ ~meta[p].isVar /\ func' = func /\ meta' = meta
    BY <1>3, <1>6, <2>1 DEF GoOn, Temp
  <2>3. PICK k \in DOMAIN IntArgs : Desired(p) = IntArgs[k]
    BY <1>1, <2>1, <2>2, DesiredIsArg DEF ArgReg
  <2> DEFINE use == CHOOSE u \in meta[p].calls : TRUE
  <2>4. use \in meta[p].calls /\ use[1] = CallOf(p) /\ meta[p].calls = CallUses(func, p)
    BY <1>1, <2>1, <2>2 DEF NoCallTakes, CallOf, MInv, MetaOf
  <2>5. use[1] \in Nat /\ meta[p].liveEnd \in Nat /\ Indices(func) \subseteq Nat
    <3>1. Indices(func) \subseteq Nat
      BY <1>3, FunctionShape
    <3> QED
      BY <1>4, <2>2, <2>4, <3>1, Zenon DEF CallUses, Calls, MetaSound
  <2>6. /\ meta[p].liveEnd <= use[1]
        /\ \A c \in Calls(func) : ~(meta[p].def < c /\ c < use[1])
    BY <2>1, <2>4, <2>5 DEF Outlives
  <2> HIDE DEF use
  <2>7. ASSUME NEW c \in Indices(func), AliveAcross(p, c)
        PROVE  meta[p].def < c /\ c < use[1]
    BY <2>5, <2>6, <2>7 DEF AliveAcross
  <2>8. ASSUME loc'[p] = Reg(Desired(p)) PROVE WellPlaced(p)'
    <3>1. \A c \in Calls(func) : ~AliveAcross(p, c)
      BY <2>6, <2>7 DEF Calls
    <3>2. IntArgs[k] \in {Rax, Rdx} => \A d \in DivMods(func) : ~AliveAcross(p, d)
      BY <2>1, <2>3, <2>4, <2>7 DEF Divided, DivMods
    <3>3. \A c : AliveAcross(p, c)' <=> AliveAcross(p, c)
      BY <2>2 DEF AliveAcross
    <3>4. Calls(func)' = Calls(func) /\ DivMods(func)' = DivMods(func) /\ Params(func)' = Params(func)
      BY <2>2 DEF Calls, DivMods, Params, Indices
    <3>5. meta'[p].calls # {}
      BY <2>1, <2>2 DEF NoCallTakes
    <3>6. InArgReg(p)'
      BY <2>2, <2>3, <2>8, <3>1, <3>2, <3>3, <3>4, <3>5 DEF InArgReg
    <3> QED
      BY <2>2, <3>6 DEF WellPlaced
  <2> QED
    BY <1>5, <1>8, <2>1, <2>2, <2>8
<1>13. CASE TempsEnd
  <2>1. /\ p > LastVReg /\ phase' = "vars" /\ at' = 1 /\ copies' = copies
        /\ func' = func /\ meta' = meta /\ loc' = loc /\ calleeIdx' = calleeIdx
    BY <1>2, <1>13 DEF TempsEnd, PhaseEnds
  <2>2. \A v \in DOMAIN loc : WellPlaced(v)'
    BY <1>3, <1>5, <2>1, StaysWell DEF PlacedWell
  <2>3. ParamsWhere' /\ CopiesSound'
    BY <1>3, <1>5, <2>1, ParamsStay
  <2>4. VarsPlaced'
    <3> SUFFICES ASSUME NEW v \in VRegs(func), IsUsed(v)
                 PROVE  v \in DOMAIN loc \/ (meta[v].isVar /\ 1 <= meta[v].def)
      BY <2>1 DEF VarsPlaced, VRegs, IsUsed
    <3>1. v < p
      BY <1>3, <2>1, LastVRegIs
    <3>2. v \in DOMAIN loc \/ meta[v].isVar
      BY <1>2, <1>3, <3>1 DEF TempsPlaced
    <3>3. v \in Params(func) \/ 1 <= meta[v].def
      BY <1>4 DEF MetaSound, IsUsed
    <3> QED
      BY <1>3, <3>2, <3>3
  <2> QED
    BY <1>3, <2>1, <2>2, <2>3, <2>4 DEF PInv, PlacedWell, VarsPlaced, Params
<1> QED
  BY <1>9, <1>10, <1>11, <1>12, <1>13 DEF AllocTemp

\* The variables.
LEMMA VarsPInv == FInv /\ MInv /\ AInv /\ PInv /\ AllocVar => PInv'
<1> SUFFICES ASSUME FInv, MInv, AInv, PInv, AllocVar PROVE PInv'
  OBVIOUS
<1>1. phase = "vars"
  BY Zenon DEF AllocVar, VarDefined, GiveBack, Leaving, BlockLeft, NoVarHere, VarsEnd, InPhase, PhaseEnds
<1>2. PICK p : p = at
  OBVIOUS
<1>3. /\ Typed /\ PlacedWell /\ ParamsWhere /\ CopiesSound /\ VarsPlaced
      /\ func \in Funcs /\ p \in Nat \ {0} /\ Params(func) \subseteq DOMAIN loc
  BY <1>1, <1>2 DEF FInv, AInv, PInv, Typed, VarsPlaced
<1>4. MetaSound
  BY <1>1, <1>3, MetaIsSound DEF MInv
<1>5. calleeIdx \in Nat
  <2>1. calleeIdx \in 0..Len(CalleeSaved) /\ Len(CalleeSaved) \in Nat
    BY <1>3, LenProperties, RegistersAreNamed DEF Typed
  <2> QED
    BY <2>1
<1>6. \A v \in VRegs(func) : meta[v].def \in Nat
  BY <1>4 DEF MetaSound
<1>7. ASSUME func' = func, meta' = meta, phase' = phase, loc' = loc, calleeIdx' = calleeIdx,
             copies' = copies, at' = p \/ (at' = p + 1 /\ VarsDefinedAt(p) = {})
      PROVE  PInv'
  <2>1. \A v \in DOMAIN loc : WellPlaced(v)'
    BY <1>3, <1>5, <1>7, StaysWell DEF PlacedWell
  <2>2. ParamsWhere' /\ CopiesSound'
    BY <1>3, <1>5, <1>7, ParamsStay
  <2>3. VarsPlaced'
    <3> SUFFICES ASSUME NEW v \in VRegs(func), IsUsed(v)
                 PROVE  v \in DOMAIN loc \/ (meta[v].isVar /\ at' <= meta[v].def)
      BY <1>7 DEF VarsPlaced, VRegs, IsUsed
    <3>1. v \in DOMAIN loc \/ (meta[v].isVar /\ p <= meta[v].def)
      BY <1>2, <1>3 DEF VarsPlaced
    <3>2. VarsDefinedAt(p) = {} /\ meta[v].isVar => v \in DOMAIN loc \/ meta[v].def # p
      BY DEF VarsDefinedAt
    <3> QED
      BY <1>3, <1>6, <1>7, <3>1, <3>2
  <2> QED
    BY <1>1, <1>3, <1>7, <2>1, <2>2, <2>3 DEF PInv, PlacedWell, VarsPlaced, Params
<1>8. CASE VarDefined
  <2>1. PICK v \in VarsDefinedAt(p) : VarSlot(v)
    BY <1>2, <1>8 DEF VarDefined
  <2>2. /\ p <= Len(func.code) /\ calleeIdx' = calleeIdx /\ copies' = copies
        /\ func' = func /\ meta' = meta /\ phase' = phase /\ at' = p + 1
    BY <1>2, <1>8 DEF VarDefined, InPhase, GoOn
  <2>3. v \in VRegs(func) /\ v \notin DOMAIN loc /\ Variable(v) /\ meta[v].def = p
    BY <1>1, <1>2, <1>3, <2>1, <2>2, VarIsSet
  <2>4. PICK l : Bind(v, l) /\ \E o : l = Stack(o)
    BY <2>1 DEF VarSlot, FreshSlot
  <2>5. loc'[v] = l => WellPlaced(v)'
    BY <2>4, SlotWell
  <2>0. calleeIdx' \in Nat /\ calleeIdx <= calleeIdx'
    BY <1>5, <2>2
  <2>6. /\ PlacedWell' /\ DOMAIN loc' = DOMAIN loc \cup {v}
        /\ \A u \in DOMAIN loc : loc'[u] = loc[u]
    BY <1>3, <2>0, <2>2, <2>3, <2>4, <2>5, BindWell
  <2>7. ParamsWhere' /\ CopiesSound'
    BY <1>3, <1>5, <2>2, <2>3, <2>6, ParamsStay DEF Variable
  <2>8. VarsPlaced'
    <3> SUFFICES ASSUME NEW u \in VRegs(func), IsUsed(u)
                 PROVE  u \in DOMAIN loc' \/ (meta[u].isVar /\ p + 1 <= meta[u].def)
      BY <2>2 DEF VarsPlaced, VRegs, IsUsed
    <3>1. u \in DOMAIN loc \/ (meta[u].isVar /\ p <= meta[u].def)
      BY <1>2, <1>3 DEF VarsPlaced
    <3>2. meta[u].def = p => u = v
      BY <1>3, <1>4, <2>3 DEF MetaSound
    <3> QED
      BY <1>3, <1>6, <2>6, <3>1, <3>2
  <2> QED
    BY <1>1, <1>3, <2>2, <2>6, <2>7, <2>8 DEF PInv, VarsPlaced, Params
<1>9. CASE GiveBack
  BY <1>2, <1>7, <1>9, Zenon DEF GiveBack
<1>10. CASE BlockLeft \/ NoVarHere
  <2>1. /\ func' = func /\ meta' = meta /\ phase' = phase /\ loc' = loc /\ calleeIdx' = calleeIdx
        /\ copies' = copies /\ at' = p + 1
    BY <1>2, <1>10 DEF BlockLeft, NoVarHere, GoOn
  <2>2. CASE NoVarHere
    BY <1>2, <1>7, <2>1, <2>2 DEF NoVarHere
  <2>3. CASE BlockLeft
    <3>1. at <= Len(func.code) /\ func.code[at].op = "leave"
      BY <2>3 DEF BlockLeft, Leaving, InPhase
    <3>2. VarsDefinedAt(p) = {}
      BY <1>1, <1>2, <1>3, <3>1, VarIsSet
    <3> QED
      BY <1>7, <2>1, <3>2
  <2> QED
    BY <1>10, <2>2, <2>3
<1>11. CASE VarsEnd
  <2>1. /\ p > Len(func.code) /\ phase' = "frame" /\ copies' = copies
        /\ func' = func /\ meta' = meta /\ loc' = loc /\ calleeIdx' = calleeIdx
    BY <1>2, <1>11 DEF VarsEnd, PhaseEnds
  <2>2. \A v \in DOMAIN loc : WellPlaced(v)'
    BY <1>3, <1>5, <2>1, StaysWell DEF PlacedWell
  <2>3. ParamsWhere' /\ CopiesSound'
    BY <1>3, <1>5, <2>1, ParamsStay
  <2>4. AllPlaced'
    <3> SUFFICES ASSUME NEW v \in VRegs(func), IsUsed(v) PROVE v \in DOMAIN loc
      BY <2>1 DEF AllPlaced, VRegs, IsUsed
    <3>1. meta[v].def = DefIdx(func, v)
      BY <1>1 DEF MInv, MetaOf
    <3>2. DefIdx(func, v) \in 0..Len(func.code) /\ Len(func.code) \in Nat
      BY <1>3, DefIdxIs, FunctionShape
    <3>3. ~(p <= meta[v].def)
      BY <1>3, <2>1, <3>1, <3>2
    <3> QED
      BY <1>2, <1>3, <3>3 DEF VarsPlaced
  <2> QED
    BY <1>3, <2>1, <2>2, <2>3, <2>4 DEF PInv, PlacedWell, AllPlaced, Params
<1> QED
  BY <1>8, <1>9, <1>10, <1>11 DEF AllocVar

\* Moving the slots below the save area, and the blocks.
LEMMA FramePInv == FInv /\ PInv /\ AllocFrame => PInv'
<1> SUFFICES ASSUME FInv, PInv, AllocFrame PROVE PInv'
  OBVIOUS
<1>1. /\ phase \in {"frame", "blocks"} /\ phase' \in {"blocks", "done"}
      /\ func' = func /\ meta' = meta /\ calleeIdx' = calleeIdx /\ copies' = copies
      /\ loc' = loc \/ loc' = [v \in DOMAIN loc |-> Shifted(loc[v])]
  BY DEF AllocFrame, MakeSaveArea, LayBlock, CloseFrame, InPhase
<1>2. /\ Typed /\ PlacedWell /\ ParamsWhere /\ CopiesSound
      /\ Params(func) \subseteq DOMAIN loc /\ AllPlaced
  BY <1>1 DEF FInv, PInv, AllPlaced
<1>3. calleeIdx \in Nat
  <2>1. calleeIdx \in 0..Len(CalleeSaved) /\ Len(CalleeSaved) \in Nat
    BY <1>2, LenProperties, RegistersAreNamed DEF Typed
  <2> QED
    BY <2>1
<1>4. ASSUME PlacedWell', ParamsWhere', CopiesSound', DOMAIN loc' = DOMAIN loc
      PROVE  PInv'
  BY <1>1, <1>2, <1>4 DEF PInv, AllPlaced, Params, VRegs, IsUsed
<1>5. CASE loc' = loc
  <2>1. \A v \in DOMAIN loc : WellPlaced(v)'
    BY <1>1, <1>2, <1>3, <1>5, StaysWell DEF PlacedWell
  <2>2. ParamsWhere' /\ CopiesSound'
    BY <1>1, <1>2, <1>3, <1>5, ParamsStay
  <2> QED
    BY <1>4, <1>5, <2>1, <2>2 DEF PlacedWell
<1>6. CASE loc' = [v \in DOMAIN loc |-> Shifted(loc[v])]
  <2>1. DOMAIN loc' = DOMAIN loc /\ \A v \in DOMAIN loc : loc'[v] = Shifted(loc[v])
    BY <1>6
  <2>2. ASSUME NEW v \in DOMAIN loc
        PROVE  /\ loc'[v] = loc[v] \/ (InSlot(v)' /\ IsStack(loc[v]) /\ loc[v].off < 0 /\ loc'[v].off < 0)
               /\ ~(IsStack(loc[v]) /\ loc[v].off < 0) => loc'[v] = loc[v]
    <3>1. CASE IsStack(loc[v]) /\ loc[v].off < 0
      <4>1. loc'[v] = Stack(loc[v].off - SaveArea)
        BY <2>1, <3>1 DEF Shifted
      <4>2. loc[v].off \in Int
        BY <1>2 DEF Typed, LocsTyped
      <4>6. Stack(loc[v].off - SaveArea).off = loc[v].off - SaveArea
        BY DEF Stack
      <4>3. loc'[v].off = loc[v].off - SaveArea
        BY <4>1, <4>6
      <4>4. loc'[v].off < 0
        BY <1>3, <3>1, <4>2, <4>3 DEF SaveArea
      <4>5. InSlot(v)'
        BY <4>1, <4>3 DEF InSlot
      <4> QED
        BY <3>1, <4>4, <4>5
    <3>2. CASE ~(IsStack(loc[v]) /\ loc[v].off < 0)
      BY <2>1, <3>2 DEF Shifted
    <3> QED
      BY <3>1, <3>2
  <2>3. PlacedWell'
    <3> SUFFICES ASSUME NEW v \in DOMAIN loc PROVE WellPlaced(v)'
      BY <2>1 DEF PlacedWell
    <3>1. CASE loc'[v] = loc[v]
      BY <1>1, <1>2, <1>3, <3>1, StaysWell DEF PlacedWell
    <3>2. CASE InSlot(v)'
      BY <3>2 DEF WellPlaced
    <3> QED
      BY <2>2, <3>1, <3>2
  <2>4. ParamsWhere'
    <3> SUFFICES ASSUME NEW v \in Params(func), v \in DOMAIN loc
                 PROVE  \/ v > Len(IntArgs) /\ loc'[v] = Stack((v - Len(IntArgs) + 1) * 8)
                        \/ v \in DOMAIN IntArgs /\ loc'[v] = Reg(IntArgs[v])
                        \/ v \in DOMAIN IntArgs /\ Copied(v)
      BY <1>1, <2>1 DEF ParamsWhere, Copied, Params
    <3>1. CASE v > Len(IntArgs) /\ loc[v] = Stack((v - Len(IntArgs) + 1) * 8)
      <4>1. Stack((v - Len(IntArgs) + 1) * 8).off = (v - Len(IntArgs) + 1) * 8
        BY DEF Stack
      <4>2. v \in Nat /\ Len(IntArgs) \in Nat
        <5>1. v \in Nat
          BY <1>2, PlacedTyped
        <5> QED
          BY <5>1, LenProperties, RegistersAreNamed
      <4>3. ~(loc[v].off < 0)
        BY <3>1, <4>1, <4>2
      <4> QED
        BY <2>2, <3>1, <4>3
    <3>2. CASE v \in DOMAIN IntArgs /\ loc[v] = Reg(IntArgs[v])
      <4>1. ~IsStack(loc[v])
        <5>1. Reg(IntArgs[v]).reg = IntArgs[v] /\ IntArgs[v] # ""
          BY <3>2, ArgsNamed DEF Reg
        <5> QED
          BY <3>2, <5>1 DEF IsStack
      <4> QED
        BY <2>2, <3>2, <4>1
    <3> QED
      BY <1>2, <3>1, <3>2 DEF ParamsWhere
  <2>5. CopiesSound'
    <3>1. ASSUME NEW k \in DOMAIN copies
          PROVE  \E v \in Params(func) :
                   /\ v \in DOMAIN loc' /\ v \in DOMAIN IntArgs /\ copies[k] = CopyOf(v)
                   /\ (InSlot(v)' /\ loc'[v].off < 0) \/ InCalleeSaved(v)'
      <4>1. PICK v \in Params(func) :
              /\ v \in DOMAIN loc /\ v \in DOMAIN IntArgs /\ copies[k] = CopyOf(v)
              /\ (InSlot(v) /\ loc[v].off < 0) \/ InCalleeSaved(v)
        BY <1>2 DEF CopiesSound
      <4>2. loc'[v] = loc[v] => ((InSlot(v)' /\ loc'[v].off < 0) \/ InCalleeSaved(v)')
        BY <1>1, <4>1 DEF InSlot, InCalleeSaved
      <4> QED
        BY <2>1, <2>2, <4>1, <4>2
    <3> QED
      BY <1>1, <1>2, <3>1, Zenon DEF CopiesSound, Params
  <2> QED
    BY <1>4, <2>1, <2>3, <2>4, <2>5
<1> QED
  BY <1>1, <1>5, <1>6

\* Every step of the allocator keeps what is said of its result.
LEMMA StepPInv == FInv /\ MInv /\ AInv /\ PInv /\ [Allocate]_avars => PInv'
<1> SUFFICES ASSUME FInv, MInv, AInv, PInv, [Allocate]_avars PROVE PInv'
  OBVIOUS
<1>1. CASE CollectMeta
  <2>1. phase = "meta" /\ phase' = "params" /\ loc' = loc /\ copies' = copies
    BY <1>1 DEF CollectMeta
  <2>2. DOMAIN loc' = {} /\ copies' = << >>
    BY <2>1 DEF AInv, PInv
  <2>3. copies' \in Seq(STRING \X Nat) /\ DOMAIN copies' = {}
    BY <2>2
  <2> QED
    BY <2>1, <2>2, <2>3 DEF PInv, PlacedWell, ParamsWhere, CopiesSound
<1>2. CASE UNCHANGED avars
  <2>1. /\ func' = func /\ phase' = phase /\ at' = at /\ meta' = meta
        /\ loc' = loc /\ calleeIdx' = calleeIdx /\ copies' = copies
    BY <1>2 DEF avars
  <2>2. calleeIdx \in Nat
    <3>1. calleeIdx \in 0..Len(CalleeSaved) /\ Len(CalleeSaved) \in Nat
      BY LenProperties, RegistersAreNamed DEF FInv, Typed
    <3> QED
      BY <3>1
  <2>3. PlacedWell => PlacedWell'
    BY <2>1, <2>2, StaysWell DEF PlacedWell
  <2>4. ParamsWhere /\ CopiesSound => ParamsWhere' /\ CopiesSound'
    BY <2>1, <2>2, ParamsStay
  <2>5. (TempsPlaced => TempsPlaced') /\ (VarsPlaced => VarsPlaced') /\ (AllPlaced => AllPlaced')
    BY <2>1 DEF TempsPlaced, VarsPlaced, AllPlaced, VRegs, IsUsed
  <2> QED
    BY <2>1, <2>3, <2>4, <2>5 DEF PInv, TempsPlaced, VarsPlaced, AllPlaced, Params
<1> QED
  BY <1>1, <1>2, ParamsPInv, TempsPInv, VarsPInv, FramePInv DEF Allocate

\* No pass counts further than what it goes through.
LEMMA StepAtBound == FInv /\ AtBound /\ [Allocate]_avars => AtBound'
<1> SUFFICES ASSUME FInv, AtBound, [Allocate]_avars PROVE AtBound'
  OBVIOUS
<1>1. /\ func \in Funcs /\ at \in Nat /\ func.params \in Nat /\ LastVReg \in Nat
      /\ Len(func.code) \in Nat /\ Len(func.blocks) \in Nat
  <2>1. func \in Funcs /\ at \in Nat
    BY DEF FInv, Typed
  <2>2. func.params \in Nat /\ LastVReg \in Nat /\ Len(func.code) \in Nat
    BY <2>1, OneFunction, LastVRegIs, FunctionShape
  <2>3. Len(func.blocks) \in Nat
    BY <2>1, OneFunction, LenProperties
  <2> QED
    BY <2>1, <2>2, <2>3
<1>2. ASSUME func' = func PROVE LastVReg' = LastVReg
  BY <1>2 DEF LastVReg, VRegs
<1>3. ASSUME GoOn PROVE func' = func /\ phase' = phase /\ at' = at + 1
  BY <1>3 DEF GoOn
<1>4. ASSUME NEW p, NEW last, NEW next \in {"temps", "vars", "frame"}, PhaseEnds(p, last, next)
      PROVE  AtBound'
  <2>1. func' = func /\ phase' = next /\ at' = 1
    BY <1>4 DEF PhaseEnds
  <2>2. 1 <= func.params + 1 /\ 1 <= LastVReg + 1 /\ 1 <= Len(func.code) + 1
    BY <1>1
  <2> QED
    BY <1>2, <1>4, <2>1, <2>2 DEF AtBound
<1>5. CASE CollectMeta
  <2>1. func' = func /\ phase' = "params" /\ at' = 1
    BY <1>5 DEF CollectMeta, AtBound
  <2> QED
    BY <1>1, <2>1 DEF AtBound
<1>6. CASE ParamOnCallersStack \/ ParamMoved \/ ParamStays
  <2>1. InPhase("params", func.params) /\ GoOn
    BY <1>6 DEF ParamOnCallersStack, ParamMoved, ParamStays
  <2> QED
    BY <1>1, <1>2, <1>3, <2>1 DEF InPhase, AtBound
<1>7. CASE TempBoundOrVar \/ TempInRax \/ TempKept \/ TempDead \/ TempInArgReg \/ TempForCallKept
  <2>1. InPhase("temps", LastVReg) /\ GoOn
    BY <1>7 DEF TempBoundOrVar, TempInRax, TempKept, TempDead, TempInArgReg, TempForCallKept
  <2> QED
    BY <1>1, <1>2, <1>3, <2>1 DEF InPhase, AtBound
<1>8. CASE VarDefined \/ BlockLeft \/ NoVarHere
  <2>1. InPhase("vars", Len(func.code)) /\ GoOn
    BY <1>8, Zenon DEF VarDefined, BlockLeft, NoVarHere, Leaving
  <2> QED
    BY <1>1, <1>2, <1>3, <2>1 DEF InPhase, AtBound
<1>9. CASE GiveBack
  BY <1>9 DEF GiveBack, Leaving, InPhase, AtBound
<1>10. CASE ParamsEnd \/ TempsEnd \/ VarsEnd
  BY <1>4, <1>10 DEF ParamsEnd, TempsEnd, VarsEnd
<1>11. CASE MakeSaveArea
  <2>1. func' = func /\ phase' = "blocks" /\ at' = 1
    BY <1>11 DEF MakeSaveArea, AtBound
  <2> QED
    BY <1>1, <2>1 DEF AtBound
<1>12. CASE LayBlock
  BY <1>1, <1>12 DEF LayBlock, InPhase, AtBound
<1>13. CASE CloseFrame
  BY <1>13 DEF CloseFrame, AtBound
<1>14. CASE UNCHANGED avars
  BY <1>2, <1>14 DEF avars, AtBound
<1> QED
  BY <1>5, <1>6, <1>7, <1>8, <1>9, <1>10, <1>11, <1>12, <1>13, <1>14
     DEF Allocate, AllocParam, AllocTemp, AllocVar, AllocFrame

\* What the allocator has come to stays.
DoneInv == FInv /\ MInv /\ AInv /\ PInv /\ AtBound

\* The facts about the allocator hold from the start, through its passes and beside the run.
LEMMA InitDoneInv == Init => DoneInv
<1> SUFFICES ASSUME Init PROVE DoneInv
  OBVIOUS
<1>1. FInv
  BY InitFInv
<1> QED
  BY <1>1 DEF Init, DoneInv, MInv, AInv, PInv, AtBound

\* Every pass of the allocator keeps them.
LEMMA StepDoneInv == DoneInv /\ [Allocate]_avars => DoneInv'
  BY StepFInv, StepMInv, StepAInv, StepPInv, StepAtBound DEF DoneInv

\* The allocator is run once.
LEMMA AllocatedOnce == phase = "done" => ~Allocate
  BY DEF Allocate, CollectMeta, AllocParam, ParamOnCallersStack, ParamMoved, ParamStays, ParamsEnd,
         AllocTemp, TempBoundOrVar, TempInRax, TempKept, TempDead, TempInArgReg, TempForCallKept, TempsEnd,
         AllocVar, VarDefined, GiveBack, BlockLeft, NoVarHere, VarsEnd, Leaving, InPhase, PhaseEnds,
         AllocFrame, MakeSaveArea, LayBlock, CloseFrame

-----------------------------------------------------------------------------
\* Registers and slots.

\* Locations are told apart by their registers and offsets.
LEMMA LocsDiffer ==
  ASSUME NEW a, NEW b
  PROVE  /\ Reg(a) = Reg(b) <=> a = b
         /\ Stack(a) = Stack(b) <=> a = b
         /\ a # "" => Reg(a) # Stack(b)
         /\ Stack(a).off = a /\ Reg(a).reg = a /\ Stack(a).reg = ""
<1>1. Reg(a).reg = a /\ Reg(b).reg = b /\ Stack(a).off = a /\ Stack(b).off = b /\ Stack(b).reg = "" /\ Stack(a).reg = ""
  BY DEF Reg, Stack
<1> QED
  BY <1>1

\* Writing one location leaves the others.
LEMMA GetPut ==
  ASSUME NEW c, NEW l, NEW v, NEW m
  PROVE  Get(Put(c, l, v), m) = IF m = l THEN v ELSE Get(c, m)
<1>1. DOMAIN Put(c, l, v) = DOMAIN c \cup {l}
  BY DEF Put
<1>2. m \in DOMAIN c \cup {l} => Put(c, l, v)[m] = IF m = l THEN v ELSE c[m]
  BY DEF Put
<1> QED
  BY <1>1, <1>2 DEF Get

\* A clobbered register loses its content, nothing else does.
LEMMA GetClobber ==
  ASSUME NEW c, NEW rs, NEW m, \A r \in rs : m # Reg(r)
  PROVE  Get(Clobber(c, rs), m) = Get(c, m)
<1> DEFINE d == Clobber(c, rs)
<1>1. DOMAIN d = DOMAIN c \cup {Reg(r) : r \in rs} /\ m \notin {Reg(r) : r \in rs}
  BY DEF Clobber
<1>2. m \in DOMAIN c => d[m] = c[m]
  BY DEF Clobber
<1>3. Get(d, m) = Get(c, m)
  <2> HIDE DEF d
  <2> QED
    BY <1>1, <1>2 DEF Get
<1> QED
  BY <1>3

\* What the machine holds stays a map from locations to contents.
LEMMA MapsStayMaps ==
  ASSUME NEW c, NEW l, NEW v, NEW rs
  PROVE  IsMap(Put(c, l, v)) /\ IsMap(Clobber(c, rs))
<1>1. IsMap(Put(c, l, v))
  BY DEF IsMap, Put
<1>2. IsMap(Clobber(c, rs))
  BY DEF IsMap, Clobber
<1> QED
  BY <1>1, <1>2

\* c is what k moves of the sequence make of c0.
Moves(c0, ms, c) ==
  /\ c[0] = c0 /\ IsMap(c[Len(ms)]) /\ MoveAll(c0, ms) = c[Len(ms)]
  /\ \A k \in 1..Len(ms) : c[k] = Move(c[k - 1], ms[k])

\* Several moves one after the other are a sequence of machine states.
LEMMA MoveAllIs ==
  ASSUME NEW c0, IsMap(c0), NEW ms, Len(ms) \in Nat
  PROVE  \E c : Moves(c0, ms, c)
<1> DEFINE N == Len(ms)
           R == {Junk} \cup {c0[l] : l \in DOMAIN c0}
           L == DOMAIN c0 \cup {ms[k][2] : k \in 1..N}
           S == UNION {[D -> R] : D \in SUBSET L}
           step == [cn \in S \X (1..N) |-> Move(cn[1], ms[cn[2]])]
           Is(g) == g = [k \in 0..N |-> IF k = 0 THEN c0 ELSE Move(g[k - 1], ms[k])]
           run == CHOOSE g : Is(g)
<1>1. MoveAll(c0, ms) = run[N]
  BY DEF MoveAll
<1>2. c0 \in S
  <2>1. c0 \in [DOMAIN c0 -> R]
    BY DEF IsMap
  <2>2. DOMAIN c0 \in SUBSET L
    OBVIOUS
  <2> QED
    BY <2>1, <2>2
<1>3. ASSUME NEW d \in S, NEW k \in 1..N PROVE Move(d, ms[k]) \in S
  <2>1. PICK D \in SUBSET L : d \in [D -> R]
    OBVIOUS
  <2> HIDE DEF R
  <2>2. Get(d, ms[k][1]) \in R
    <3>1. Junk \in R
      BY DEF R
    <3> QED
      BY <2>1, <3>1 DEF Get
  <2>3. Move(d, ms[k]) \in [D \cup {ms[k][2]} -> R]
    BY <2>1, <2>2 DEF Move, Put
  <2>4. D \cup {ms[k][2]} \in SUBSET L
    OBVIOUS
  <2> QED
    BY <2>3, <2>4
<1>4. \A d \in S : IsMap(d)
  <2> SUFFICES ASSUME NEW D \in SUBSET L, NEW d \in [D -> R] PROVE IsMap(d)
    OBVIOUS
  <2> QED
    BY DEF IsMap
<1> HIDE DEF S, R, L
<1>5. step \in [S \X (1..N) -> S] /\ \A d \in S, k \in 1..N : step[<<d, k>>] = Move(d, ms[k])
  BY <1>3
<1> HIDE DEF step, N
<1>6. N \in Nat
  BY DEF N
<1>7. PICK g : Recursion(g, N, S, c0, step)
  BY <1>2, <1>5, <1>6, RecursionExists
<1>8. g \in [0..N -> S] /\ g[0] = c0 /\ \A k \in 1..N : g[k] = Move(g[k - 1], ms[k])
  <2>1. \A k \in 1..N : k - 1 \in 0..N
    BY <1>6
  <2> QED
    BY <1>5, <1>7, <2>1 DEF Recursion
<1>9. Is(g)
  <2>1. \A k \in 0..N : g[k] = IF k = 0 THEN c0 ELSE Move(g[k - 1], ms[k])
    BY <1>6, <1>8
  <2> QED
    BY <1>8, <2>1
<1>10. Is(run)
  BY <1>9
<1> HIDE DEF run
<1>11. run[0] = c0 /\ \A k \in 1..N : run[k] = Move(run[k - 1], ms[k])
  BY <1>6, <1>10
<1> DEFINE T == {k \in 0..N : run[k] \notin S}
<1>12. T = {}
  <2> SUFFICES ASSUME T # {} PROVE FALSE
    OBVIOUS
  <2>1. T \in SUBSET Nat
    BY <1>6
  <2>2. PICK k \in T : \A j \in T : k <= j
    <3> HIDE DEF T
    <3> QED
      BY <2>1, LeastNat
  <2>3. k \in 1..N /\ k - 1 \in 0..N /\ ~(k <= k - 1)
    BY <1>2, <1>6, <1>11, <2>2
  <2>4. run[k - 1] \in S
    BY <2>2, <2>3
  <2> QED
    BY <1>3, <1>11, <2>2, <2>3, <2>4 DEF N
<1>13. IsMap(run[N])
  BY <1>4, <1>6, <1>12
<1>14. Moves(c0, ms, run)
  BY <1>1, <1>11, <1>13 DEF Moves, N
<1> QED
  BY <1>14

\* Between two moves a location keeps its content unless one of them goes there.
LEMMA NotMoved ==
  ASSUME NEW c0, NEW ms, NEW c, Moves(c0, ms, c), Len(ms) \in Nat,
         NEW i \in 0..Len(ms), NEW j \in 0..Len(ms), i <= j,
         NEW l, \A k \in (i + 1)..j : ms[k][2] # l
  PROVE  Get(c[j], l) = Get(c[i], l)
<1> DEFINE T == {k \in i..j : Get(c[k], l) # Get(c[i], l)}
<1>1. T = {}
  <2> SUFFICES ASSUME T # {} PROVE FALSE
    OBVIOUS
  <2>1. T \in SUBSET Nat
    OBVIOUS
  <2>2. PICK k \in T : \A m \in T : k <= m
    <3> HIDE DEF T
    <3> QED
      BY <2>1, LeastNat
  <2>3. k \in (i + 1)..j /\ k \in 1..Len(ms) /\ k - 1 \in i..j /\ ~(k <= k - 1)
    BY <2>2
  <2>4. Get(c[k - 1], l) = Get(c[i], l)
    BY <2>2, <2>3
  <2>5. c[k] = Put(c[k - 1], ms[k][2], Get(c[k - 1], ms[k][1]))
    BY <2>3 DEF Moves, Move
  <2>6. Get(c[k], l) = Get(c[k - 1], l)
    BY <2>3, <2>5, GetPut
  <2> QED
    BY <2>2, <2>4, <2>6
<1> QED
  BY <1>1

\* A location no move goes to keeps its content.
LEMMA Untouched ==
  ASSUME NEW c0, IsMap(c0), NEW ms, Len(ms) \in Nat,
         NEW l, \A k \in 1..Len(ms) : ms[k][2] # l
  PROVE  Get(MoveAll(c0, ms), l) = Get(c0, l)
<1>1. PICK c : Moves(c0, ms, c)
  BY MoveAllIs
<1>2. Get(c[Len(ms)], l) = Get(c[0], l)
  BY <1>1, NotMoved
<1> QED
  BY <1>1, <1>2 DEF Moves

\* A move whose target is its own brings what its source held before all of them,
\* when no earlier move goes there.
LEMMA Arrives ==
  ASSUME NEW c0, IsMap(c0), NEW ms, Len(ms) \in Nat, NEW k \in 1..Len(ms),
         \A j \in 1..Len(ms) : k < j => ms[j][2] # ms[k][2],
         \A j \in 1..Len(ms) : j < k => ms[j][2] # ms[k][1]
  PROVE  Get(MoveAll(c0, ms), ms[k][2]) = Get(c0, ms[k][1])
<1>1. PICK c : Moves(c0, ms, c)
  BY MoveAllIs
<1>2. Get(c[k - 1], ms[k][1]) = Get(c[0], ms[k][1])
  <2>1. \A j \in 1..(k - 1) : ms[j][2] # ms[k][1]
    OBVIOUS
  <2> QED
    BY <1>1, <2>1, NotMoved
<1>3. c[k] = Put(c[k - 1], ms[k][2], Get(c[k - 1], ms[k][1]))
  BY <1>1 DEF Moves, Move
<1>4. Get(c[k], ms[k][2]) = Get(c[k - 1], ms[k][1])
  BY <1>3, GetPut
<1>5. Get(c[Len(ms)], ms[k][2]) = Get(c[k], ms[k][2])
  <2>1. \A j \in (k + 1)..Len(ms) : ms[j][2] # ms[k][2]
    OBVIOUS
  <2> QED
    BY <1>1, <2>1, NotMoved, SMTT(30)
<1> QED
  BY <1>1, <1>2, <1>4, <1>5 DEF Moves

\* After several moves the machine is a machine.
LEMMA MovedIsMap ==
  ASSUME NEW c0, IsMap(c0), NEW ms, Len(ms) \in Nat
  PROVE  IsMap(MoveAll(c0, ms))
  BY MoveAllIs DEF Moves

-----------------------------------------------------------------------------
\* The caller's registers.

\* The tables are sequences.
LEMMA TablesAre ==
  /\ Len(IntArgs) \in Nat /\ DOMAIN IntArgs = 1..Len(IntArgs)
  /\ Len(CalleeSaved) \in Nat /\ DOMAIN CalleeSaved = 1..Len(CalleeSaved)
  BY RegistersAreNamed, LenProperties

\* The names of the registers.
LEMMA RegNames ==
  /\ Len(IntArgs) \in Nat /\ DOMAIN IntArgs = 1..Len(IntArgs)
  /\ Len(CalleeSaved) \in Nat /\ DOMAIN CalleeSaved = 1..Len(CalleeSaved)
  /\ \A k \in DOMAIN IntArgs : IntArgs[k] # ""
  /\ \A k \in DOMAIN CalleeSaved : CalleeSaved[k] # ""
  /\ Rax # "" /\ Rdx # ""
<1>1. /\ Len(IntArgs) \in Nat /\ DOMAIN IntArgs = 1..Len(IntArgs)
      /\ Len(CalleeSaved) \in Nat /\ DOMAIN CalleeSaved = 1..Len(CalleeSaved)
  BY RegistersAreNamed, LenProperties
<1>2. \A k \in DOMAIN CalleeSaved : CalleeSaved[k] \in STRING \ {""}
  BY <1>1, RegistersAreNamed, ElementOfSeq
<1> QED
  BY <1>1, <1>2, ArgsNamed, RegistersAreNamed, RdxIsScratch

\* What is overwritten is no register the caller wants back.
LEMMA ScratchApart ==
  ASSUME NEW r \in CallerSaved \cup {Rdx}
  PROVE  /\ r # "" /\ \A k \in DOMAIN CalleeSaved : CalleeSaved[k] # r
         /\ \A o : Reg(r) # Stack(o)
<1>1. r # "" /\ \A k \in DOMAIN CalleeSaved : CalleeSaved[k] # r
  BY RegNames, RegistersAreDistinct, RdxIsScratch DEF CallerSaved
<1> QED
  BY <1>1, LocsDiffer

\* A callee-saved register is kept where nothing is placed or scratched.
LEMMA KeepersApart ==
  ASSUME DoneInv, phase = "done", NEW i \in DOMAIN CalleeSaved
  PROVE  /\ \A v \in DOMAIN loc : loc[v] # Keeper(i)
         /\ \A r \in CallerSaved \cup {Rdx} : Reg(r) # Keeper(i)
<1>1. /\ Typed /\ SlotsFit(stackBytes, -SaveArea) /\ PlacedWell
      /\ i \in Nat /\ 1 <= i /\ calleeIdx \in Nat /\ calleeIdx <= Len(CalleeSaved)
  <2>1. FInv /\ PInv /\ phase = "done"
    BY DEF DoneInv
  <2>2. Typed /\ SlotsFit(stackBytes, -SaveArea) /\ PlacedWell
    BY <2>1 DEF FInv, Placing, PInv
  <2>3. i \in 1..Len(CalleeSaved) /\ calleeIdx \in 0..Len(CalleeSaved) /\ Len(CalleeSaved) \in Nat
    BY <2>2, RegNames DEF Typed
  <2> QED
    BY <2>2, <2>3
<1>2. CASE i <= calleeIdx
  <2>1. Keeper(i) = Stack(-8 * i)
    BY <1>2 DEF Keeper, SaveSlot
  <2>2. ASSUME NEW v \in DOMAIN loc, loc[v] = Stack(-8 * i) PROVE FALSE
    <3> DEFINE o == -8 * i
    <3>1. loc[v].off = o /\ IsStack(loc[v])
      <4> HIDE DEF o
      <4>1. Stack(o).off = o /\ Stack(o).reg = ""
        BY LocsDiffer
      <4>2. loc[v] = Stack(o)
        BY <2>2 DEF o
      <4> QED
        BY <4>1, <4>2 DEF IsStack
    <3>2. v \in LocalSlots
      BY <1>1, <3>1 DEF LocalSlots
    <3>3. loc[v].off + func.width[v] <= -SaveArea /\ func.width[v] \in Sizes
      BY <1>1, <3>2, PlacedTyped DEF SlotsFit, Fits
    <3> QED
      BY <1>1, <1>2, <3>1, <3>3, SMTT(30) DEF SaveArea, Sizes
  <2> QED
    BY <2>1, <2>2, ScratchApart
<1>3. CASE calleeIdx < i
  <2>1. Keeper(i) = Reg(CalleeSaved[i])
    BY <1>1, <1>3 DEF Keeper
  <2>2. ASSUME NEW r, Reg(r) = Keeper(i) PROVE r = CalleeSaved[i]
    BY <2>1, <2>2, LocsDiffer
  <2>3. ASSUME NEW v \in DOMAIN loc PROVE loc[v] # Keeper(i)
    <3>1. CASE InSlot(v)
      <4>1. loc[v].reg = "" /\ Keeper(i).reg = CalleeSaved[i]
        BY <2>1, <3>1, LocsDiffer, Zenon DEF InSlot
      <4> QED
        BY <4>1, RegNames
    <3>2. CASE InCalleeSaved(v)
      <4>1. PICK k \in 1..calleeIdx : loc[v] = Reg(CalleeSaved[k])
        BY <3>2 DEF InCalleeSaved
      <4>2. k \in 1..Len(CalleeSaved) /\ k # i
        <5>1. calleeIdx \in Nat /\ i \in Nat /\ Len(CalleeSaved) \in Nat /\ calleeIdx <= Len(CalleeSaved)
          BY <1>1, RegNames
        <5> QED
          BY <1>3, <5>1
      <4>3. k \in DOMAIN CalleeSaved
        BY <4>2, RegNames
      <4> QED
        BY <2>2, <4>1, <4>2, <4>3, RegistersAreDistinct
    <3>3. CASE InArgReg(v)
      <4>1. PICK k \in DOMAIN IntArgs : loc[v] = Reg(IntArgs[k])
        BY <3>3 DEF InArgReg
      <4> QED
        BY <2>2, <4>1, RegistersAreDistinct
    <3>4. CASE InRax(v)
      BY <2>2, <3>4, RegistersAreDistinct DEF InRax
    <3> QED
      BY <1>1, <3>1, <3>2, <3>3, <3>4 DEF PlacedWell, WellPlaced
  <2>4. \A r \in CallerSaved \cup {Rdx} : Reg(r) # Keeper(i)
    BY <2>2, ScratchApart
  <2> QED
    BY <2>3, <2>4
<1> QED
  BY <1>1, <1>2, <1>3

\* A machine that still has the caller's registers.
Machine(c) == IsMap(c) /\ Kept(c)

\* Writing a VReg's place or overwriting scratch registers leaves the caller's registers.
LEMMA StaysMachine ==
  ASSUME DoneInv, phase = "done", NEW c, Machine(c), NEW x
  PROVE  /\ \A v \in DOMAIN loc : Machine(Put(c, loc[v], x))
         /\ Machine(Put(c, Reg(Rax), x))
         /\ \A rs \in SUBSET (CallerSaved \cup {Rdx}) : Machine(Clobber(c, rs))
<1>1. ASSUME NEW l, \A i \in DOMAIN CalleeSaved : l # Keeper(i) PROVE Machine(Put(c, l, x))
  <2>1. \A i \in DOMAIN CalleeSaved : Get(Put(c, l, x), Keeper(i)) = Get(c, Keeper(i))
    BY <1>1, GetPut
  <2> QED
    BY <2>1, MapsStayMaps DEF Machine, Kept
<1>2. ASSUME NEW rs \in SUBSET (CallerSaved \cup {Rdx}) PROVE Machine(Clobber(c, rs))
  <2>1. \A i \in DOMAIN CalleeSaved : Get(Clobber(c, rs), Keeper(i)) = Get(c, Keeper(i))
    BY KeepersApart, GetClobber
  <2> QED
    BY <2>1, MapsStayMaps DEF Machine, Kept
<1>3. Rax \in CallerSaved
  BY DEF CallerSaved
<1> QED
  BY <1>1, <1>2, <1>3, KeepersApart

\* The writes of the actions do no more than that.
LEMMA WritesKeep ==
  ASSUME DoneInv, phase = "done", NEW c, Machine(c)
  PROVE  /\ \A x : Machine(PutDst(c, x))
         /\ \A vs : Machine(ViaRax(c, vs))
         /\ Machine(Clobber(c, {Rax, Rdx})) /\ Machine(Clobber(c, CallerSaved))
<1>1. \A x : Machine(PutDst(c, x))
  BY StaysMachine DEF PutDst, Has
<1>2. {Rax} \in SUBSET (CallerSaved \cup {Rdx}) /\ {Rax, Rdx} \in SUBSET (CallerSaved \cup {Rdx})
      /\ CallerSaved \in SUBSET (CallerSaved \cup {Rdx})
  BY DEF CallerSaved
<1>3. \A vs : Machine(ViaRax(c, vs))
  BY <1>2, StaysMachine DEF ViaRax
<1> QED
  BY <1>1, <1>2, <1>3, StaysMachine

\* Where control goes next is in the code, and what an instruction takes is as VProg says.
LEMMA NextIsCode ==
  ASSUME func \in Funcs, NEW k \in Indices(func)
  PROVE  /\ k \in Nat /\ Takes(func, func.code[k])
         /\ func.code[k].op # "ret" => k + 1 \in Indices(func)
         /\ func.code[k].op \in {"cjmp", "jmp"} => func.code[k].to \in Indices(func)
         /\ 1 \in Indices(func) /\ Indices(func) = 1..Len(func.code) /\ Len(func.code) \in Nat
<1>1. Executable(func) /\ Indices(func) = 1..Len(func.code) /\ Len(func.code) \in Nat
  BY FuncsAreExecutable, FunctionShape
<1>2. func.code[Len(func.code)].op = "ret"
  BY <1>1 DEF Executable, EndsWithReturn
<1> QED
  BY <1>1, <1>2 DEF Executable, JumpsOver

\* The allocator leaves the function as it is.
LEMMA FuncStays == Allocate => func' = func
  BY Zenon DEF Allocate, CollectMeta, AllocParam, ParamOnCallersStack, ParamMoved, ParamStays, ParamsEnd,
         AllocTemp, TempBoundOrVar, TempInRax, TempKept, TempDead, TempInArgReg, TempForCallKept, TempsEnd,
         AllocVar, VarDefined, GiveBack, BlockLeft, NoVarHere, VarsEnd, Leaving, PhaseEnds, GoOn,
         AllocFrame, MakeSaveArea, LayBlock, CloseFrame

\* An instruction that goes on within the code and keeps the caller's registers.
LEMMA GoesOn ==
  ASSUME EInv, phase = "done", UNCHANGED avars, pc' \in Indices(func), Machine(cell'),
         DOMAIN val' \subseteq VRegs(func), turns' \in Nat, func \in Funcs
  PROVE  EInv'
<1>1. func' = func /\ phase' = "done" /\ calleeIdx' = calleeIdx
  BY DEF avars
<1>2. Indices(func) = 1..Len(func.code) /\ Len(func.code) \in Nat
  BY FunctionShape
<1>3. pc' \in 1..Len(func.code) /\ pc' # Returned' /\ pc' \in 0..Returned' /\ VRegs(func)' = VRegs(func)
  BY <1>1, <1>2 DEF Returned, VRegs
<1>4. \A i \in DOMAIN CalleeSaved : Keeper(i)' = Keeper(i)
  BY <1>1 DEF Keeper, SaveSlot
<1>5. Kept(cell)'
  BY <1>4 DEF Machine, Kept
<1> QED
  BY <1>1, <1>3, <1>5 DEF EInv, Machine
-----------------------------------------------------------------------------
\* Entering and leaving.

\* Different places of VRegs that are alive together.
LEMMA ApartPlaces ==
  ASSUME DoneInv, phase = "done", NEW u \in DOMAIN loc, NEW v \in DOMAIN loc, u # v, Together(u, v)
  PROVE  loc[u] # loc[v]
<1>1. ~Overlap(u, v) /\ Typed
  BY DEF DoneInv, AInv, KeptApart, FInv
<1>2. func.width[u] \in Sizes /\ func.width[v] \in Sizes /\ loc[u].off \in Int
  BY <1>1, PlacedTyped
<1>3. CASE IsStack(loc[u]) /\ IsStack(loc[v])
  <2>1. Bytes(u) \cap Bytes(v) = {}
    BY <1>1, <1>3 DEF Overlap
  <2>2. loc[u].off \in Bytes(u)
    BY <1>2 DEF Bytes, Sizes
  <2>3. loc[u] = loc[v] => loc[u].off \in Bytes(v)
    BY <1>2 DEF Bytes, Sizes
  <2> QED
    BY <2>1, <2>2, <2>3
<1> QED
  BY <1>1, <1>3 DEF Overlap

\* What is in the machine when the function is called.
LEMMA EntryIs ==
  ASSUME func \in Funcs
  PROVE  /\ IsMap(AtEntry)
         /\ \A i \in DOMAIN CalleeSaved : Get(AtEntry, Reg(CalleeSaved[i])) = Saved(i)
         /\ \A k \in Params(func) : k \in DOMAIN IntArgs => Get(AtEntry, Reg(IntArgs[k])) = Arg(k)
         /\ \A k \in Params(func) : k > Len(IntArgs) =>
              Get(AtEntry, Stack((k - Len(IntArgs) + 1) * 8)) = Arg(k)
<1> DEFINE n == func.params
           argAt(k) == IF k <= Len(IntArgs) THEN Reg(IntArgs[k])
                       ELSE Stack((k - Len(IntArgs) + 1) * 8)
           args == {argAt(k) : k \in 1..n}
           kept == {Reg(CalleeSaved[i]) : i \in DOMAIN CalleeSaved}
           e == [l \in args \cup kept |->
                   IF l \in args THEN Arg(CHOOSE k \in 1..n : argAt(k) = l)
                   ELSE Saved(CHOOSE i \in DOMAIN CalleeSaved : Reg(CalleeSaved[i]) = l)]
<1>1. AtEntry = e
  BY Zenon DEF AtEntry
<1>2. n \in Nat /\ Params(func) = 1..n
  BY OneFunction DEF Params
<1> HIDE DEF n
<1>3. ASSUME NEW j \in 1..n, NEW k \in 1..n, argAt(j) = argAt(k) PROVE j = k
  <2>1. CASE j <= Len(IntArgs) /\ k <= Len(IntArgs)
    <3>1. j \in DOMAIN IntArgs /\ k \in DOMAIN IntArgs
      BY <1>2, <2>1, TablesAre
    <3>2. Reg(IntArgs[j]) = Reg(IntArgs[k])
      BY <1>3, <2>1
    <3>3. IntArgs[j] = IntArgs[k]
      BY <3>2, LocsDiffer
    <3> QED
      BY <3>1, <3>3, RegistersAreDistinct
  <2>2. CASE ~(j <= Len(IntArgs)) /\ ~(k <= Len(IntArgs))
    <3>1. Stack((j - Len(IntArgs) + 1) * 8) = Stack((k - Len(IntArgs) + 1) * 8)
      BY <1>3, <2>2
    <3>2. (j - Len(IntArgs) + 1) * 8 = (k - Len(IntArgs) + 1) * 8
      BY <3>1, LocsDiffer
    <3>3. j \in Int /\ k \in Int /\ Len(IntArgs) \in Int
      BY <1>2, TablesAre
    <3> QED
      BY <3>2, <3>3
  <2>3. ASSUME NEW i \in 1..n, NEW m \in 1..n, i <= Len(IntArgs), ~(m <= Len(IntArgs))
        PROVE  argAt(i) # argAt(m)
    <3>1. i \in DOMAIN IntArgs
      BY <1>2, <2>3, TablesAre
    <3>2. IntArgs[i] # ""
      BY <3>1, RegNames
    <3> QED
      BY <2>3, <3>2, LocsDiffer
  <2> QED
    BY <1>3, <2>1, <2>2, <2>3
<1>4. ASSUME NEW i \in DOMAIN CalleeSaved, NEW k \in 1..n PROVE argAt(k) # Reg(CalleeSaved[i])
  <2>1. CASE k <= Len(IntArgs)
    <3>1. k \in DOMAIN IntArgs
      BY <1>2, <2>1, TablesAre
    <3> QED
      BY <2>1, <3>1, LocsDiffer, RegistersAreDistinct, ZenonT(60)
  <2>2. CASE ~(k <= Len(IntArgs))
    BY <2>2, RegNames, LocsDiffer
  <2> QED
    BY <2>1, <2>2
<1>5. ASSUME NEW k \in 1..n PROVE Get(AtEntry, argAt(k)) = Arg(k)
  <2>1. (CHOOSE j \in 1..n : argAt(j) = argAt(k)) = k
    <3> DEFINE l == argAt(k)
    <3>1. argAt(k) = l
      OBVIOUS
    <3>2. \A j \in 1..n : argAt(j) = l => j = k
      BY <1>3
    <3> HIDE DEF l, argAt
    <3> QED
      BY <3>1, <3>2 DEF l
  <2>2. argAt(k) \in args
    OBVIOUS
  <2> HIDE DEF argAt, args, kept
  <2>3. argAt(k) \in DOMAIN e /\ e[argAt(k)] = Arg(k)
    BY <2>1, <2>2
  <2> HIDE DEF e
  <2> QED
    BY <1>1, <2>3 DEF Get
<1>6. ASSUME NEW i \in DOMAIN CalleeSaved PROVE Get(AtEntry, Reg(CalleeSaved[i])) = Saved(i)
  <2> DEFINE l == Reg(CalleeSaved[i])
  <2>1. (CHOOSE j \in DOMAIN CalleeSaved : Reg(CalleeSaved[j]) = l) = i
    <3>1. \A j \in DOMAIN CalleeSaved : Reg(CalleeSaved[j]) = l => j = i
      BY LocsDiffer, RegistersAreDistinct, ZenonT(40)
    <3> QED
      BY <3>1
  <2>2. l \notin args
    BY <1>4
  <2>3. l \in kept
    OBVIOUS
  <2> HIDE DEF args, kept, l, argAt
  <2>4. l \in DOMAIN e /\ e[l] = Saved(i)
    BY <2>1, <2>2, <2>3
  <2> HIDE DEF e
  <2> QED
    BY <1>1, <2>4 DEF Get, l
<1>7. IsMap(AtEntry)
  <2> HIDE DEF args, kept, argAt
  <2> QED
    BY <1>1 DEF IsMap
<1>8. ASSUME NEW k \in 1..n
      PROVE  /\ k \in DOMAIN IntArgs => argAt(k) = Reg(IntArgs[k])
             /\ k > Len(IntArgs) => argAt(k) = Stack((k - Len(IntArgs) + 1) * 8)
  <2>1. k \in Int /\ Len(IntArgs) \in Nat
    BY <1>2, TablesAre
  <2>2. k \in DOMAIN IntArgs => k <= Len(IntArgs)
    BY TablesAre
  <2>3. k > Len(IntArgs) => ~(k <= Len(IntArgs))
    BY <2>1
  <2> QED
    BY <2>2, <2>3
<1> HIDE DEF argAt
<1> QED
  BY <1>2, <1>5, <1>6, <1>7, <1>8

\* The caller's registers have been saved; the arguments are where they were.
LEMMA SavesAre ==
  ASSUME DoneInv, phase = "done"
  PROVE  LET c == MoveAll(AtEntry, Saves) IN
         /\ Machine(c)
         /\ \A r : (\A i \in DOMAIN CalleeSaved : CalleeSaved[i] # r) /\ r # "" => Get(c, Reg(r)) = Get(AtEntry, Reg(r))
         /\ \A o \in Nat : Get(c, Stack(o)) = Get(AtEntry, Stack(o))
<1> DEFINE c == MoveAll(AtEntry, Saves)
<1>1. func \in Funcs /\ calleeIdx \in Nat /\ calleeIdx <= Len(CalleeSaved)
  <2>1. func \in Funcs /\ calleeIdx \in 0..Len(CalleeSaved)
    BY DEF DoneInv, FInv, Typed
  <2> QED
    BY <2>1, TablesAre
<1>2. /\ IsMap(AtEntry)
      /\ \A i \in DOMAIN CalleeSaved : Get(AtEntry, Reg(CalleeSaved[i])) = Saved(i)
  BY <1>1, EntryIs
<1>3. /\ Len(Saves) = calleeIdx
      /\ \A i \in 1..calleeIdx : Saves[i][1] = Reg(CalleeSaved[i]) /\ Saves[i][2] = Stack(-8 * i)
  BY <1>1 DEF Saves, SaveSlot
<1> HIDE DEF c
<1>4. ASSUME NEW l, \A i \in 1..calleeIdx : Stack(-8 * i) # l PROVE Get(c, l) = Get(AtEntry, l)
  <2>1. \A i \in 1..Len(Saves) : Saves[i][2] # l
    BY <1>3, <1>4
  <2> QED
    BY <1>1, <1>2, <1>3, <2>1, Untouched DEF c
<1>5. ASSUME NEW r, r # "" PROVE Get(c, Reg(r)) = Get(AtEntry, Reg(r))
  <2>1. \A o : Stack(o) # Reg(r)
    BY <1>5, LocsDiffer
  <2> QED
    BY <1>4, <2>1
<1>6. ASSUME NEW i \in 1..calleeIdx PROVE Get(c, Stack(-8 * i)) = Saved(i)
  <2>1. i \in DOMAIN CalleeSaved
    BY <1>1, TablesAre
  <2>2. \A j \in 1..Len(Saves) : i < j => Saves[j][2] # Saves[i][2]
    <3> SUFFICES ASSUME NEW j \in 1..calleeIdx, i < j PROVE Stack(-8 * j) # Stack(-8 * i)
      BY <1>3
    <3>1. -8 * j # -8 * i
      BY <1>1
    <3> QED
      BY <3>1, LocsDiffer
  <2>3. \A j \in 1..Len(Saves) : j < i => Saves[j][2] # Saves[i][1]
    <3> SUFFICES ASSUME NEW j \in 1..calleeIdx PROVE Stack(-8 * j) # Reg(CalleeSaved[i])
      BY <1>3
    <3> QED
      BY <2>1, RegNames, LocsDiffer
  <2>4. Get(c, Saves[i][2]) = Get(AtEntry, Saves[i][1])
    BY <1>1, <1>2, <1>3, <2>2, <2>3, Arrives, ZenonT(30) DEF c
  <2> QED
    BY <1>2, <1>3, <2>1, <2>4
<1>7. Kept(c)
  <2> SUFFICES ASSUME NEW i \in DOMAIN CalleeSaved PROVE Get(c, Keeper(i)) = Saved(i)
    BY DEF Kept
  <2>1. CASE i <= calleeIdx
    <3>1. i \in 1..calleeIdx
      BY <1>1, <2>1, TablesAre
    <3> QED
      BY <1>6, <2>1, <3>1 DEF Keeper, SaveSlot
  <2>2. CASE ~(i <= calleeIdx)
    BY <1>2, <1>5, <2>2, RegNames DEF Keeper
  <2> QED
    BY <2>1, <2>2
<1>8. IsMap(c)
  BY <1>1, <1>2, <1>3, MovedIsMap DEF c
<1>9. ASSUME NEW o \in Nat PROVE Get(c, Stack(o)) = Get(AtEntry, Stack(o))
  <2>1. \A i \in 1..calleeIdx : -8 * i # o
    BY <1>1
  <2> QED
    BY <1>4, <2>1, LocsDiffer
<1> QED
  BY <1>5, <1>7, <1>8, <1>9 DEF Machine, c

\* The allocator's result, as the machine relies on it.
LEMMA ResultIs ==
  ASSUME DoneInv, phase = "done"
  PROVE  /\ func \in Funcs /\ Typed /\ MetaSound /\ PlacedWell /\ ParamsWhere /\ CopiesSound /\ AllPlaced
         /\ Params(func) \subseteq DOMAIN loc /\ DOMAIN loc \subseteq VRegs(func)
         /\ meta = [v \in VRegs(func) |-> MetaOf(func, v)]
         /\ calleeIdx \in Nat /\ calleeIdx <= Len(CalleeSaved)
<1>1. /\ Typed /\ PlacedWell /\ ParamsWhere /\ CopiesSound /\ AllPlaced
      /\ Params(func) \subseteq DOMAIN loc
      /\ meta = [v \in VRegs(func) |-> MetaOf(func, v)]
  BY DEF DoneInv, FInv, MInv, PInv, AllPlaced
<1>2. func \in Funcs /\ DOMAIN loc \subseteq VRegs(func) /\ calleeIdx \in 0..Len(CalleeSaved)
  BY <1>1 DEF Typed, LocsTyped
<1>3. MetaSound
  BY <1>1, <1>2, MetaIsSound
<1> QED
  BY <1>1, <1>2, <1>3, TablesAre

\* Each copy takes a parameter from its argument register to its place.
LEMMA CopyIs ==
  ASSUME DoneInv, phase = "done", NEW k \in DOMAIN copies
  PROVE  \E v \in Params(func) :
           /\ v \in DOMAIN loc /\ v \in DOMAIN IntArgs /\ copies[k] = CopyOf(v)
           /\ Copies[k][1] = Reg(IntArgs[v]) /\ Copies[k][2] = loc[v]
           /\ \A r \in CallerSaved \cup {Rdx} : loc[v] # Reg(r)
           /\ \A o \in Nat : loc[v] # Stack(o)
<1>1. PICK v \in Params(func) :
        /\ v \in DOMAIN loc /\ v \in DOMAIN IntArgs /\ copies[k] = CopyOf(v)
        /\ (InSlot(v) /\ loc[v].off < 0) \/ InCalleeSaved(v)
  BY ResultIs DEF CopiesSound
<1>2. copies[k][1] = IntArgs[v] /\ copies[k][2] = v
  BY <1>1 DEF CopyOf
<1>3. Copies[k][1] = Reg(IntArgs[v]) /\ Copies[k][2] = loc[v]
  BY <1>2 DEF Copies
<1>4. CASE InSlot(v) /\ loc[v].off < 0
  <2>1. \A r \in CallerSaved \cup {Rdx} : loc[v] # Reg(r)
    BY <1>4, ScratchApart DEF InSlot
  <2>2. \A o \in Nat : loc[v] # Stack(o)
    <3> SUFFICES ASSUME NEW o \in Nat, loc[v] = Stack(o) PROVE FALSE
      OBVIOUS
    <3>1. loc[v].off = o
      BY LocsDiffer
    <3> QED
      BY <1>4, <3>1
  <2> QED
    BY <1>1, <1>3, <2>1, <2>2
<1>5. CASE InCalleeSaved(v)
  <2>1. PICK i \in 1..calleeIdx : loc[v] = Reg(CalleeSaved[i])
    BY <1>5 DEF InCalleeSaved
  <2>2. i \in DOMAIN CalleeSaved
    <3>1. calleeIdx \in Nat /\ calleeIdx <= Len(CalleeSaved)
      BY ResultIs
    <3> QED
      BY <3>1, TablesAre
  <2>3. \A r \in CallerSaved \cup {Rdx} : loc[v] # Reg(r)
    <3> SUFFICES ASSUME NEW r \in CallerSaved \cup {Rdx}, loc[v] = Reg(r) PROVE FALSE
      OBVIOUS
    <3>1. CalleeSaved[i] = r
      BY <2>1, LocsDiffer
    <3> QED
      BY <2>2, <3>1, ScratchApart
  <2>4. \A o \in Nat : loc[v] # Stack(o)
    <3>1. CalleeSaved[i] # ""
      BY <2>2, RegNames
    <3>2. \A o : Reg(CalleeSaved[i]) # Stack(o)
      BY <3>1, LocsDiffer
    <3> QED
      BY <2>1, <3>2
  <2> QED
    BY <1>1, <1>3, <2>3, <2>4
<1> QED
  BY <1>1, <1>4, <1>5

\* After the copies every parameter still used is in its place.
LEMMA CopiesAre ==
  ASSUME DoneInv, phase = "done", NEW c, Machine(c)
  PROVE  LET d == MoveAll(c, Copies) IN
         /\ Machine(d)
         /\ \A v \in Params(func) : 0 < meta[v].liveEnd =>
              \/ /\ v > Len(IntArgs) /\ loc[v] = Stack((v - Len(IntArgs) + 1) * 8)
                 /\ Get(d, loc[v]) = Get(c, loc[v])
              \/ v \in DOMAIN IntArgs /\ Get(d, loc[v]) = Get(c, Reg(IntArgs[v]))
<1> DEFINE d == MoveAll(c, Copies)
<1>1. IsMap(c) /\ Kept(c)
  BY DEF Machine
<1>2. PICK n : n = Len(copies) /\ n \in Nat /\ DOMAIN copies = 1..n /\ Len(Copies) = n
  <2>1. copies \in Seq(STRING \X Nat)
    BY ResultIs DEF CopiesSound
  <2>2. Len(copies) \in Nat /\ DOMAIN copies = 1..Len(copies)
    BY <2>1, LenProperties
  <2> QED
    BY <2>2 DEF Copies
<1> HIDE DEF d
<1>3. ASSUME NEW l, \A k \in DOMAIN copies : Copies[k][2] # l PROVE Get(d, l) = Get(c, l)
  <2>1. \A k \in 1..Len(Copies) : Copies[k][2] # l
    BY <1>2, <1>3
  <2> QED
    BY <1>1, <1>2, <2>1, Untouched DEF d
<1>4. Machine(d)
  <2>1. ASSUME NEW i \in DOMAIN CalleeSaved PROVE Get(d, Keeper(i)) = Get(c, Keeper(i))
    <3>1. \A k \in DOMAIN copies : Copies[k][2] # Keeper(i)
      BY CopyIs, KeepersApart
    <3> QED
      BY <1>3, <3>1
  <2>2. IsMap(d)
    BY <1>1, <1>2, MovedIsMap DEF d
  <2> QED
    BY <1>1, <2>1, <2>2 DEF Machine, Kept
<1>5. ASSUME NEW v \in Params(func), 0 < meta[v].liveEnd
      PROVE  \/ /\ v > Len(IntArgs) /\ loc[v] = Stack((v - Len(IntArgs) + 1) * 8)
                /\ Get(d, loc[v]) = Get(c, loc[v])
             \/ v \in DOMAIN IntArgs /\ Get(d, loc[v]) = Get(c, Reg(IntArgs[v]))
  <2>1. v \in DOMAIN loc
    BY ResultIs
  <2>2. CASE v > Len(IntArgs) /\ loc[v] = Stack((v - Len(IntArgs) + 1) * 8)
    <3>1. (v - Len(IntArgs) + 1) * 8 \in Nat
      <4>1. v \in Nat
        BY <2>1, ResultIs, PlacedTyped
      <4> QED
        BY <2>2, <4>1, TablesAre
    <3>2. \A k \in DOMAIN copies : Copies[k][2] # loc[v]
      BY <2>2, <3>1, CopyIs
    <3> QED
      BY <1>3, <2>2, <3>2
  <2>3. CASE v \in DOMAIN IntArgs /\ loc[v] = Reg(IntArgs[v])
    <3>1. IntArgs[v] \in CallerSaved \cup {Rdx}
      BY <2>3 DEF CallerSaved
    <3>2. \A k \in DOMAIN copies : Copies[k][2] # loc[v]
      BY <2>3, <3>1, CopyIs
    <3> QED
      BY <1>3, <2>3, <3>2
  <2>4. CASE v \in DOMAIN IntArgs /\ Copied(v)
    <3>1. PICK k \in DOMAIN copies : copies[k] = CopyOf(v)
      BY <2>4 DEF Copied
    <3>2. ASSUME NEW j \in DOMAIN copies, copies[j] = CopyOf(v) PROVE j = k
      BY <3>1, <3>2, ResultIs DEF CopiesSound
    <3>3. \A u, w : CopyOf(u) = CopyOf(w) => u = w
      BY DEF CopyOf
    <3>4. Copies[k][1] = Reg(IntArgs[v]) /\ Copies[k][2] = loc[v]
      BY <3>1, <3>3, CopyIs
    <3>5. ASSUME NEW j \in DOMAIN copies, j # k PROVE Copies[j][2] # Copies[k][2]
      <4>1. PICK u \in Params(func) : u \in DOMAIN loc /\ copies[j] = CopyOf(u) /\ Copies[j][2] = loc[u]
        BY CopyIs
      <4>2. u # v
        BY <3>2, <3>5, <4>1
      <4>3. meta[u].def = 0 /\ meta[v].def = 0
        BY ResultIs DEF MetaSound
      <4>4. Together(u, v)
        BY <2>4, <4>3, <1>5 DEF Together
      <4> QED
        BY <2>1, <3>4, <4>1, <4>2, <4>4, ApartPlaces
    <3>6. ASSUME NEW j \in DOMAIN copies PROVE Copies[j][2] # Copies[k][1]
      <4>1. IntArgs[v] \in CallerSaved \cup {Rdx}
        BY <2>4 DEF CallerSaved
      <4> QED
        BY <3>4, <4>1, CopyIs
    <3>7. /\ k \in 1..Len(Copies)
          /\ \A j \in 1..Len(Copies) : k < j => Copies[j][2] # Copies[k][2]
          /\ \A j \in 1..Len(Copies) : j < k => Copies[j][2] # Copies[k][1]
      BY <1>2, <3>5, <3>6
    <3>8. Get(d, Copies[k][2]) = Get(c, Copies[k][1])
      BY <1>1, <1>2, <3>7, Arrives DEF d
    <3> QED
      BY <2>4, <3>4, <3>8
  <2> QED
    BY <2>1, <2>2, <2>3, <2>4, ResultIs DEF ParamsWhere
<1> QED
  BY <1>4, <1>5 DEF d

\* Entered, the function has the caller's registers safe and its parameters in place.
LEMMA Entered ==
  ASSUME DoneInv, phase = "done"
  PROVE  LET d == MoveAll(MoveAll(AtEntry, Saves), Copies) IN
         /\ Machine(d)
         /\ \A v \in Params(func) : 0 < meta[v].liveEnd => Get(d, loc[v]) = Arg(v)
<1> DEFINE c == MoveAll(AtEntry, Saves)
           d == MoveAll(c, Copies)
<1>1. /\ Machine(c)
      /\ \A r : (\A i \in DOMAIN CalleeSaved : CalleeSaved[i] # r) /\ r # "" => Get(c, Reg(r)) = Get(AtEntry, Reg(r))
      /\ \A o \in Nat : Get(c, Stack(o)) = Get(AtEntry, Stack(o))
  BY SavesAre
<1> HIDE DEF c
<1>2. /\ Machine(d)
      /\ \A v \in Params(func) : 0 < meta[v].liveEnd =>
           \/ /\ v > Len(IntArgs) /\ loc[v] = Stack((v - Len(IntArgs) + 1) * 8)
              /\ Get(d, loc[v]) = Get(c, loc[v])
           \/ v \in DOMAIN IntArgs /\ Get(d, loc[v]) = Get(c, Reg(IntArgs[v]))
  BY <1>1, CopiesAre
<1> HIDE DEF d
<1>3. ASSUME NEW v \in Params(func), 0 < meta[v].liveEnd PROVE Get(d, loc[v]) = Arg(v)
  <2>1. CASE v > Len(IntArgs) /\ loc[v] = Stack((v - Len(IntArgs) + 1) * 8) /\ Get(d, loc[v]) = Get(c, loc[v])
    <3>1. (v - Len(IntArgs) + 1) * 8 \in Nat
      <4>1. v \in Nat
        BY ResultIs, PlacedTyped
      <4> QED
        BY <2>1, <4>1, TablesAre
    <3>2. Get(AtEntry, Stack((v - Len(IntArgs) + 1) * 8)) = Arg(v)
      BY <2>1, ResultIs, EntryIs
    <3> QED
      BY <1>1, <2>1, <3>1, <3>2
  <2>2. CASE v \in DOMAIN IntArgs /\ Get(d, loc[v]) = Get(c, Reg(IntArgs[v]))
    <3>1. Get(AtEntry, Reg(IntArgs[v])) = Arg(v)
      BY <2>2, ResultIs, EntryIs
    <3>2. (\A i \in DOMAIN CalleeSaved : CalleeSaved[i] # IntArgs[v]) /\ IntArgs[v] # ""
      BY <2>2, RegistersAreDistinct, RegNames
    <3> QED
      BY <1>1, <2>2, <3>1, <3>2
  <2> QED
    BY <1>2, <1>3, <2>1, <2>2
<1> QED
  BY <1>2, <1>3 DEF c, d

\* The instruction at pc.
LEMMA InstrIs ==
  ASSUME func \in Funcs, pc \in Indices(func)
  PROVE  /\ Instr \in Instructions /\ Takes(func, Instr) /\ pc \in Nat /\ pc # 0
         /\ Len(Instr.src) \in Nat /\ DOMAIN Instr.src = 1..Len(Instr.src)
         /\ Instr.op # "ret" => pc + 1 \in Indices(func)
         /\ Instr.op \in {"cjmp", "jmp"} => Instr.to \in Indices(func)
         /\ \A n \in DOMAIN Instr.src : Instr.src[n] \in VRegs(func)
<1>1. /\ Instr \in Instructions /\ Indices(func) = 1..Len(func.code) /\ Len(func.code) \in Nat
  BY FunctionShape DEF Instr
<1>2. /\ Takes(func, Instr)
      /\ Instr.op # "ret" => pc + 1 \in Indices(func)
      /\ Instr.op \in {"cjmp", "jmp"} => Instr.to \in Indices(func)
  BY NextIsCode DEF Instr
<1>3. Instr.src \in Seq(Nat)
  BY <1>1 DEF Instructions
<1>4. Len(Instr.src) \in Nat /\ DOMAIN Instr.src = 1..Len(Instr.src)
  BY <1>3, LenProperties
<1> QED
  BY <1>1, <1>2, <1>4 DEF Takes

\* The results go to scratch registers.
LEMMA ResultsGo ==
  ASSUME func \in Funcs, pc \in Indices(func), Instr.op = "ret"
  PROVE  /\ Len(Results) = Len(Instr.src) /\ Len(Results) \in Nat
         /\ \A k \in 1..Len(Results) :
              /\ k \in DOMAIN Instr.src
              /\ Results[k][1] = Place(Instr.src[k]) /\ Results[k][2] = RetReg(k)
              /\ \E r \in CallerSaved : RetReg(k) = Reg(r)
              /\ Len(Results) # 1 => k \in DOMAIN IntArgs /\ RetReg(k) = Reg(IntArgs[k])
<1>1. Len(Instr.src) \in Nat /\ DOMAIN Instr.src = 1..Len(Instr.src)
  BY InstrIs
<1>2. Len(Results) = Len(Instr.src)
  BY <1>1 DEF Results
<1>3. ASSUME NEW k \in 1..Len(Results)
      PROVE  /\ k \in DOMAIN Instr.src
             /\ Results[k][1] = Place(Instr.src[k]) /\ Results[k][2] = RetReg(k)
             /\ \E r \in CallerSaved : RetReg(k) = Reg(r)
             /\ Len(Results) # 1 => k \in DOMAIN IntArgs /\ RetReg(k) = Reg(IntArgs[k])
  <2>1. k \in DOMAIN Instr.src
    BY <1>1, <1>2
  <2>2. Results[k][1] = Place(Instr.src[k]) /\ Results[k][2] = RetReg(k)
    BY <2>1 DEF Results
  <2>3. CASE Len(Instr.src) = 1
    BY <1>2, <2>1, <2>2, <2>3 DEF RetReg, CallerSaved
  <2>4. CASE Len(Instr.src) # 1
    <3>1. Len(Instr.src) > 1
      <4>1. PICK n : n = Len(Instr.src)
        OBVIOUS
      <4>2. n \in Nat /\ k \in 1..n /\ n # 1
        BY <1>1, <2>1, <2>4, <4>1
      <4>3. n > 1
        BY <4>2
      <4> QED
        BY <4>1, <4>3
    <3>2. Len(Instr.src) <= Len(IntArgs)
      BY <3>1, ReturnsFit DEF Instr
    <3>3. k \in DOMAIN IntArgs
      BY <1>1, <2>1, <3>2, TablesAre
    <3>4. RetReg(k) = Reg(IntArgs[k])
      BY <2>4 DEF RetReg
    <3> QED
      BY <2>1, <2>2, <3>3, <3>4 DEF CallerSaved
  <2> QED
    BY <2>3, <2>4
<1> QED
  BY <1>1, <1>2, <1>3

\* The caller's registers come back from their slots.
LEMMA RestoresGo ==
  ASSUME DoneInv, phase = "done", NEW c, Machine(c)
  PROVE  LET d == MoveAll(c, Restores) IN
         /\ IsMap(d)
         /\ \A i \in DOMAIN CalleeSaved : Get(d, Reg(CalleeSaved[i])) = Saved(i)
<1> DEFINE d == MoveAll(c, Restores)
           j(i) == calleeIdx + 1 - i
<1>1. calleeIdx \in Nat /\ calleeIdx <= Len(CalleeSaved) /\ IsMap(c) /\ Kept(c)
  BY ResultIs DEF Machine
<1>2. /\ Len(Restores) = calleeIdx
      /\ \A i \in 1..calleeIdx : Restores[i][1] = SaveSlot(j(i)) /\ Restores[i][2] = Reg(CalleeSaved[j(i)])
  BY <1>1 DEF Restores
<1>3. \A i \in 1..calleeIdx : j(i) \in 1..calleeIdx /\ j(j(i)) = i /\ j(i) \in DOMAIN CalleeSaved
  BY <1>1, TablesAre
<1>4. \A i, k \in 1..calleeIdx : i # k => j(i) # j(k)
  BY <1>1
<1> HIDE DEF d, j
<1>5. ASSUME NEW i \in DOMAIN CalleeSaved PROVE Get(d, Reg(CalleeSaved[i])) = Saved(i)
  <2>1. CASE i <= calleeIdx
    <3>1. PICK k : k = j(i) /\ k \in 1..calleeIdx /\ j(k) = i
      <4>1. i \in 1..calleeIdx
        BY <1>1, <2>1, TablesAre
      <4> QED
        BY <1>3, <4>1
    <3>2. Restores[k][1] = SaveSlot(i) /\ Restores[k][2] = Reg(CalleeSaved[i])
      BY <1>2, <3>1
    <3>3. ASSUME NEW m \in 1..calleeIdx, m # k PROVE Restores[m][2] # Restores[k][2]
      <4>1. j(m) # i /\ j(m) \in DOMAIN CalleeSaved
        BY <1>3, <1>4, <3>1, <3>3
      <4>2. CalleeSaved[j(m)] # CalleeSaved[i]
        BY <4>1, RegistersAreDistinct
      <4>3. Reg(CalleeSaved[j(m)]) # Reg(CalleeSaved[i])
        BY <4>2, LocsDiffer
      <4> QED
        BY <1>2, <3>2, <4>3
    <3>4. ASSUME NEW m \in 1..calleeIdx PROVE Restores[m][2] # Restores[k][1]
      <4>1. CalleeSaved[j(m)] # ""
        BY <1>3, RegNames
      <4>2. \A o : Reg(CalleeSaved[j(m)]) # Stack(o)
        BY <4>1, LocsDiffer
      <4> QED
        BY <1>2, <3>2, <4>2 DEF SaveSlot
    <3>5. /\ k \in 1..Len(Restores) /\ Len(Restores) \in Nat
          /\ \A m \in 1..Len(Restores) : k < m => Restores[m][2] # Restores[k][2]
          /\ \A m \in 1..Len(Restores) : m < k => Restores[m][2] # Restores[k][1]
      BY <1>1, <1>2, <3>1, <3>3, <3>4
    <3>6. Get(d, Restores[k][2]) = Get(c, Restores[k][1])
      BY <1>1, <3>5, Arrives DEF d
    <3>7. Get(c, SaveSlot(i)) = Saved(i)
      BY <1>1, <2>1 DEF Kept, Keeper
    <3> QED
      BY <3>2, <3>6, <3>7
  <2>2. CASE ~(i <= calleeIdx)
    <3>1. ASSUME NEW k \in 1..Len(Restores) PROVE Restores[k][2] # Reg(CalleeSaved[i])
      <4>1. k \in 1..calleeIdx /\ Restores[k][2] = Reg(CalleeSaved[j(k)])
        BY <1>1, <1>2
      <4>2. j(k) \in 1..calleeIdx /\ j(k) \in DOMAIN CalleeSaved
        BY <1>3, <4>1
      <4>3. j(k) # i
        BY <1>1, <2>2, <4>2
      <4>4. CalleeSaved[j(k)] # CalleeSaved[i]
        BY <4>2, <4>3, RegistersAreDistinct
      <4> QED
        BY <4>1, <4>4, LocsDiffer
    <3>2. Get(d, Reg(CalleeSaved[i])) = Get(c, Reg(CalleeSaved[i]))
      BY <1>1, <1>2, <3>1, Untouched DEF d
    <3>3. Get(c, Reg(CalleeSaved[i])) = Saved(i)
      BY <1>1, <2>2 DEF Kept, Keeper
    <3> QED
      BY <3>2, <3>3
  <2> QED
    BY <2>1, <2>2
<1>6. IsMap(d)
  BY <1>1, <1>2, MovedIsMap DEF d
<1> QED
  BY <1>5, <1>6 DEF d

\* Moving the results leaves the caller's registers kept.
LEMMA ResultsKeep ==
  ASSUME DoneInv, phase = "done", pc \in Indices(func), Instr.op = "ret", Machine(cell)
  PROVE  Machine(MoveAll(cell, Results))
<1>1. /\ Len(Results) \in Nat
      /\ \A k \in 1..Len(Results) : \E r \in CallerSaved : Results[k][2] = Reg(r)
  BY ResultIs, ResultsGo
<1>2. IsMap(cell)
  BY DEF Machine
<1>3. ASSUME NEW i \in DOMAIN CalleeSaved
      PROVE  Get(MoveAll(cell, Results), Keeper(i)) = Get(cell, Keeper(i))
  <2>1. \A k \in 1..Len(Results) : Results[k][2] # Keeper(i)
    BY <1>1, KeepersApart
  <2> QED
    BY <1>1, <1>2, <2>1, Untouched
<1>4. IsMap(MoveAll(cell, Results))
  BY <1>1, <1>2, MovedIsMap
<1> QED
  BY <1>3, <1>4 DEF Machine, Kept

\* The step a definition of Means makes of val.
LEMMA MeansIs ==
  ASSUME NEW x, Means(x)
  PROVE  /\ DOMAIN val' = DOMAIN val \cup {Instr.dst} /\ val'[Instr.dst] = x
         /\ \A u \in DOMAIN val : u # Instr.dst => val'[u] = val[u]
  BY DEF Means

\* What every instruction that falls through has in common.
FallsThrough ==
  /\ phase = "done" /\ pc \in Indices(func) /\ Instr.op # "ret"
  /\ UNCHANGED avars
  /\ Machine(cell')
  /\ val' = val \/ (Instr.dst \in VRegs(func) /\ \E x : Means(x))
  /\ turns' \in Nat
  /\ pc' = pc + 1 \/ (Instr.op \in {"cjmp", "jmp"} /\ pc' = Instr.to)

\* While the function runs the machine has the caller's registers.
LEMMA MachineIs ==
  ASSUME DoneInv, EInv, phase = "done", pc \in Indices(func)
  PROVE  Machine(cell) /\ turns \in Nat /\ func \in Funcs
<1>1. func \in Funcs
  BY ResultIs
<1>2. pc # 0
  BY <1>1, InstrIs
<1> QED
  BY <1>1, <1>2 DEF EInv, Machine, Indices

\* The instructions that set a VReg.
LEMMA DefinitionsFall ==
  ASSUME DoneInv, EInv, Define \/ Unary \/ AddressOf \/ Binary \/ Divide \/ Compare \/ Update
  PROVE  FallsThrough
<1>1. /\ phase = "done" /\ pc \in Indices(func) /\ UNCHANGED avars /\ pc' = pc + 1 /\ turns' = turns
      /\ Instr.op \in DefOps \cup UnOps \cup BinOps \cup {"mov"}
  BY DEF Define, Unary, AddressOf, Binary, Divide, Compare, Update, Running, Goto, Indices, Code,
         DefOps, UnOps, BinOps
<1>2. Machine(cell) /\ turns \in Nat /\ func \in Funcs
  BY <1>1, MachineIs
<1>3. Instr.dst \in VRegs(func) /\ Instr.op # "ret"
  BY <1>1, <1>2, InstrIs DEF Takes, DefOps, UnOps, BinOps
<1>4. \E x : Means(x)
  BY DEF Define, Unary, AddressOf, Binary, Divide, Compare, Update
<1>5. Machine(cell')
  <2>1. CASE Define
    BY <1>1, <1>2, <2>1, WritesKeep DEF Define
  <2>2. CASE Unary
    BY <1>1, <1>2, <2>2, WritesKeep DEF Unary
  <2>3. CASE AddressOf
    BY <1>1, <1>2, <2>3, WritesKeep DEF AddressOf
  <2>4. CASE Binary
    <3>1. CASE Has(Instr.dst)
      <4> DEFINE acc == IF Spilled(Instr.dst) THEN Reg(Rax) ELSE loc[Instr.dst]
                 first == Put(cell, acc, Content(cell)[1])
                 read == <<Get(first, acc), Content(first)[2]>>
                 res == Term("bin", pc, read)
      <4>1. cell' = PutDst(Put(first, acc, res), res)
        BY <2>4, <3>1 DEF Binary
      <4>2. \A c, x : Machine(c) => Machine(Put(c, acc, x))
        BY <1>1, <3>1, StaysMachine DEF Has
      <4> HIDE DEF acc, res
      <4>3. Machine(Put(first, acc, res))
        BY <1>2, <4>2
      <4> HIDE DEF first
      <4> QED
        BY <1>1, <4>1, <4>3, WritesKeep
    <3>2. CASE ~Has(Instr.dst)
      BY <1>2, <2>4, <3>2 DEF Binary
    <3> QED
      BY <3>1, <3>2
  <2>5. CASE Divide
    BY <1>1, <1>2, <2>5, WritesKeep DEF Divide
  <2>6. CASE Compare
    BY <1>1, <1>2, <2>6, WritesKeep DEF Compare
  <2>7. CASE Update
    BY <1>1, <1>2, <2>7, WritesKeep DEF Update
  <2> QED
    BY <2>1, <2>2, <2>3, <2>4, <2>5, <2>6, <2>7
<1> QED
  BY <1>1, <1>2, <1>3, <1>4, <1>5 DEF FallsThrough

\* A call.
LEMMA CallFalls ==
  ASSUME DoneInv, EInv, Call
  PROVE  FallsThrough
<1>1. /\ phase = "done" /\ pc \in Indices(func) /\ UNCHANGED avars /\ pc' = pc + 1 /\ turns' = turns
      /\ Instr.op = "call"
  BY DEF Call, Running, Goto, Indices
<1>2. Machine(cell) /\ turns \in Nat /\ func \in Funcs
  BY <1>1, MachineIs
<1>3. Instr.dst \in VRegs(func) \cup {0}
  BY <1>1, <1>2, InstrIs DEF Takes
<1>4. CASE Instr.dst = 0
  <2>1. cell' = Clobber(cell, CallerSaved) /\ val' = val
    BY <1>4 DEF Call
  <2> QED
    BY <1>1, <1>2, <2>1, WritesKeep DEF FallsThrough
<1>5. CASE Instr.dst # 0
  <2>1. /\ cell' = PutDst(Clobber(cell, CallerSaved), Term("call", pc, Content(cell)))
        /\ Means(Term("call", pc, Meaning))
    BY <1>5 DEF Call
  <2>2. Machine(Clobber(cell, CallerSaved))
    BY <1>1, <1>2, WritesKeep
  <2>3. Machine(cell')
    BY <1>1, <2>1, <2>2, WritesKeep
  <2> QED
    BY <1>1, <1>2, <1>3, <1>5, <2>1, <2>3 DEF FallsThrough
<1> QED
  BY <1>4, <1>5

\* The others.
LEMMA OthersFall ==
  ASSUME DoneInv, EInv, Store \/ Branch \/ Jump \/ NoCode
  PROVE  FallsThrough
<1>1. /\ phase = "done" /\ pc \in Indices(func) /\ UNCHANGED avars /\ val' = val
      /\ Instr.op \in {"store", "cjmp", "jmp", "label", "leave"}
      /\ pc' = pc + 1 \/ (Instr.op \in {"cjmp", "jmp"} /\ pc' = Instr.to)
  BY DEF Store, Branch, Jump, NoCode, Running, Goto, Indices, Silent
<1>2. Machine(cell) /\ turns \in Nat
  BY <1>1, MachineIs
<1>3. turns' \in Nat
  BY <1>2 DEF Store, Branch, Jump, NoCode
<1>4. Machine(cell')
  <2>1. CASE Store
    BY <1>1, <1>2, <2>1, WritesKeep DEF Store
  <2>2. CASE Branch \/ Jump \/ NoCode
    BY <1>2, <2>2 DEF Branch, Jump, NoCode
  <2> QED
    BY <2>1, <2>2
<1> QED
  BY <1>1, <1>3, <1>4 DEF FallsThrough

\* Every step keeps the caller's registers safe.
LEMMA StepEInv == DoneInv /\ EInv /\ [XNext]_vars => EInv'
<1> SUFFICES ASSUME DoneInv, EInv, [XNext]_vars PROVE EInv'
  OBVIOUS
<1>1. ASSUME FallsThrough PROVE EInv'
  <2>1. func \in Funcs
    BY <1>1, ResultIs DEF FallsThrough
  <2>2. pc' \in Indices(func)
    BY <1>1, <2>1, InstrIs DEF FallsThrough
  <2>3. DOMAIN val' \subseteq VRegs(func)
    BY <1>1, MeansIs DEF FallsThrough, EInv
  <2> QED
    BY <1>1, <2>1, <2>2, <2>3, GoesOn DEF FallsThrough
<1>2. CASE Prologue
  <2>1. /\ phase = "done" /\ pc' = 1 /\ UNCHANGED avars /\ turns' = turns
        /\ cell' = MoveAll(MoveAll(AtEntry, Saves), Copies)
        /\ val' = [k \in Params(func) |-> Arg(k)]
    BY <1>2 DEF Prologue
  <2>2. func \in Funcs /\ Params(func) \subseteq VRegs(func)
    BY <2>1, ResultIs
  <2>3. 1 \in Indices(func)
    <3>1. func.code # << >> /\ func.code \in Seq(Instructions)
      BY <2>2, FuncsAreExecutable, FuncsAreWellFormed DEF Executable, EndsWithReturn, WellFormed
    <3> QED
      BY <3>1, LenProperties DEF Indices
  <2>4. Machine(cell')
    BY <2>1, Entered
  <2>5. DOMAIN val' \subseteq VRegs(func) /\ turns' \in Nat
    BY <2>1, <2>2 DEF EInv
  <2> QED
    BY <2>1, <2>2, <2>3, <2>4, <2>5, GoesOn
<1>3. CASE Return
  <2>1. /\ phase = "done" /\ pc \in Indices(func) /\ Instr.op = "ret" /\ pc' = Returned
        /\ UNCHANGED avars /\ turns' = turns /\ val' = val
        /\ cell' = MoveAll(MoveAll(cell, Results), Restores)
    BY <1>3 DEF Return, Running, Goto, Indices
  <2>2. Machine(cell) /\ func \in Funcs /\ Indices(func) = 1..Len(func.code) /\ Len(func.code) \in Nat
    BY <2>1, MachineIs, FunctionShape
  <2>3. Machine(MoveAll(cell, Results))
    BY <2>1, <2>2, ResultsKeep
  <2>4. IsMap(cell') /\ \A i \in DOMAIN CalleeSaved : Get(cell', Reg(CalleeSaved[i])) = Saved(i)
    BY <2>1, <2>3, RestoresGo
  <2>5. func' = func /\ phase' = "done"
    BY <2>1 DEF avars
  <2>6. Returned' = Returned /\ Returned \in Nat /\ Returned # 0 /\ Returned \notin DOMAIN func.code
    BY <2>2, <2>5 DEF Returned, Indices
  <2> QED
    BY <2>1, <2>4, <2>5, <2>6 DEF EInv, VRegs
<1>4. CASE Define \/ Unary \/ AddressOf \/ Binary \/ Divide \/ Compare \/ Update
  BY <1>1, <1>4, DefinitionsFall
<1>5. CASE Call
  BY <1>1, <1>5, CallFalls
<1>6. CASE Store \/ Branch \/ Jump \/ NoCode
  BY <1>1, <1>6, OthersFall
<1>7. CASE UNCHANGED vars
  <2>1. UNCHANGED <<func, phase, calleeIdx, pc, val, cell, turns>>
    BY <1>7 DEF vars
  <2> QED
    BY <2>1 DEF EInv, Returned, VRegs, Kept, Keeper, SaveSlot
<1>8. CASE Allocate /\ UNCHANGED xvars
  <2>1. func' = func /\ phase # "done" /\ UNCHANGED <<pc, val, cell, turns>>
    BY <1>8, FuncStays, AllocatedOnce DEF xvars
  <2>2. pc = 0 /\ func \in Funcs
    BY <2>1 DEF EInv, DoneInv, FInv, Typed
  <2>3. 0 \notin DOMAIN func.code /\ 0 # Returned /\ 0 \in 0..Returned
    <3>1. Indices(func) = 1..Len(func.code) /\ Len(func.code) \in Nat
      BY <2>2, FunctionShape
    <3> QED
      BY <3>1 DEF Indices, Returned
  <2> QED
    BY <2>1, <2>2, <2>3 DEF EInv, Returned, VRegs
<1> QED
  BY <1>2, <1>3, <1>4, <1>5, <1>6, <1>7, <1>8 DEF XNext, Exec, Finished

\* Before the function is entered the machine holds what the caller left.
LEMMA InitEInv == XInit => EInv
<1> SUFFICES ASSUME XInit PROVE EInv
  OBVIOUS
<1>1. func \in Funcs /\ pc = 0 /\ val = << >> /\ turns = 0
  BY DEF XInit, Init
<1>2. 0 \notin DOMAIN func.code /\ 0 # Returned /\ 0 \in 0..Returned
  <2>1. Indices(func) = 1..Len(func.code) /\ Len(func.code) \in Nat
    BY <1>1, FunctionShape
  <2> QED
    BY <2>1 DEF Indices, Returned
<1> QED
  BY <1>1, <1>2 DEF EInv

\* A step of the program is a step of the allocator or leaves its tables alone.
LEMMA AllocatesOrNot == [XNext]_vars => [Allocate]_avars
  BY DEF XNext, Exec, Finished, vars, avars, Goto, Prologue, Define, Unary, AddressOf, Binary, Divide,
         Compare, Store, Update, Call, Return, Branch, Jump, NoCode

\* Places are registers of the tables or slots.
LEMMA PlacesTyped ==
  ASSUME DoneInv
  PROVE  \A v \in DOMAIN loc : loc[v] \in Locations
<1> SUFFICES ASSUME NEW v \in DOMAIN loc PROVE loc[v] \in Locations
  OBVIOUS
<1>1. FInv /\ AInv /\ PInv
  BY DEF DoneInv
<1>2. phase # "meta" /\ WellPlaced(v) /\ Typed
  BY <1>1 DEF AInv, PInv, PlacedWell, FInv
<1>3. calleeIdx \in Nat /\ calleeIdx <= Len(CalleeSaved)
  <2>1. calleeIdx \in 0..Len(CalleeSaved)
    BY <1>2 DEF Typed
  <2> QED
    BY <2>1, TablesAre
<1> DEFINE S == CallerSaved \cup {CalleeSaved[i] : i \in DOMAIN CalleeSaved} \cup {Rdx, ""}
<1>8. \A r \in S : Reg(r) \in Locations
  <2> HIDE DEF S
  <2>1. \A r \in S : Reg(r) \in [reg : S, off : Int]
    BY DEF Reg
  <2> QED
    BY <2>1 DEF Locations, S
<1>4. CASE InSlot(v)
  <2>1. loc[v] = Stack(loc[v].off) /\ loc[v].off \in Int
    BY <1>2, <1>4, PlacedTyped DEF InSlot
  <2>2. \A o \in Int : Stack(o) \in Locations
    BY DEF Stack, Locations
  <2> QED
    BY <2>1, <2>2
<1>5. CASE InCalleeSaved(v)
  <2>1. PICK k \in 1..calleeIdx : loc[v] = Reg(CalleeSaved[k])
    BY <1>5 DEF InCalleeSaved
  <2>2. k \in DOMAIN CalleeSaved
    BY <1>3, TablesAre
  <2> QED
    BY <1>8, <2>1, <2>2
<1>6. CASE InArgReg(v)
  <2>1. PICK k \in DOMAIN IntArgs : loc[v] = Reg(IntArgs[k])
    BY <1>6 DEF InArgReg
  <2> QED
    BY <1>8, <2>1 DEF CallerSaved
<1>7. CASE InRax(v)
  BY <1>7, <1>8 DEF InRax, CallerSaved
<1> QED
  BY <1>2, <1>4, <1>5, <1>6, <1>7 DEF WellPlaced

\* The counters and tables stay within their bounds.
LEMMA InvTyped == DoneInv /\ EInv => TypeOK
<1> SUFFICES ASSUME DoneInv, EInv PROVE TypeOK
  OBVIOUS
<1>1. FInv /\ AInv /\ AtBound /\ Typed
  BY DEF DoneInv, FInv
<1>2. /\ func \in Funcs /\ at \in Nat \ {0} /\ calleeIdx \in 0..Len(CalleeSaved) /\ stackBytes \in Nat
      /\ DOMAIN loc \subseteq VRegs(func)
  BY <1>1 DEF Typed, LocsTyped
<1>3. phase \in {"meta", "params", "temps", "vars", "frame", "blocks", "done"}
  BY <1>1 DEF AInv
<1>4. at \in 1..(LastVReg + Len(func.code) + Len(func.blocks) + 1)
  <2>1. /\ LastVReg = Len(func.width) /\ Len(func.width) \in Nat /\ func.params \in 0..Len(func.width)
        /\ Len(func.code) \in Nat
    BY <1>2, LastVRegIs, OneFunction, FunctionShape
  <2>2. Len(func.blocks) \in Nat
    BY <1>2, OneFunction, LenProperties
  <2>3. at <= func.params + 1 \/ at <= LastVReg + 1 \/ at <= Len(func.code) + 1 \/ at <= Len(func.blocks) + 1
    BY <1>1, <1>3, <2>1 DEF AtBound
  <2>4. ASSUME NEW w \in Nat, NEW c \in Nat, NEW b \in Nat, NEW p \in 0..w, NEW a \in Nat \ {0},
               a <= p + 1 \/ a <= w + 1 \/ a <= c + 1 \/ a <= b + 1
        PROVE  a \in 1..(w + c + b + 1)
    BY <2>4
  <2> QED
    BY <1>2, <2>1, <2>2, <2>3, <2>4
<1> QED
  BY <1>2, <1>3, <1>4, PlacesTyped DEF TypeOK, EInv

\* Both facts hold at the start.
LEMMA InitInv == XInit => DoneInv /\ EInv
  BY InitDoneInv, InitEInv DEF XInit

\* Every step of the program keeps both.
LEMMA StepInv == DoneInv /\ EInv /\ [XNext]_vars => (DoneInv /\ EInv)'
  BY AllocatesOrNot, StepDoneInv, StepEInv

\* The allocator's tables and the machine are well formed throughout.
THEOREM AlwaysTyped == XSpec => []TypeOK
<1>1. XInit => DoneInv /\ EInv
  BY InitInv
<1>2. DoneInv /\ EInv /\ [XNext]_vars => (DoneInv /\ EInv)'
  BY StepInv
<1>3. DoneInv /\ EInv => TypeOK
  BY InvTyped
<1> QED
  BY <1>1, <1>2, <1>3, PTL DEF XSpec

\* A function returns with the caller's callee-saved registers as they were,
\* whichever of them it uses and whatever it stores in its frame.
THEOREM AlwaysCalleeSavedKept == XSpec => []CalleeSavedKept
<1>1. XInit => DoneInv /\ EInv
  BY InitInv
<1>2. DoneInv /\ EInv /\ [XNext]_vars => (DoneInv /\ EInv)'
  BY StepInv
<1>3. DoneInv /\ EInv => CalleeSavedKept
  BY DEF EInv, CalleeSavedKept
<1> QED
  BY <1>1, <1>2, <1>3, PTL DEF XSpec

-----------------------------------------------------------------------------
\* Lifetimes.

\* What meta says of a VReg; one that lives at all has a place.
LEMMA Lifetime ==
  ASSUME DoneInv, phase = "done", NEW v \in VRegs(func)
  PROVE  /\ meta[v] = MetaOf(func, v)
         /\ meta[v].def = DefIdx(func, v) /\ meta[v].liveEnd = LiveEnd(func, v)
         /\ meta[v].def \in 0..Len(func.code) /\ meta[v].liveEnd \in 0..Len(func.code)
         /\ Len(func.code) \in Nat /\ v \in Nat /\ v # 0
         /\ \A n \in Uses(func, v) : n <= meta[v].liveEnd
         /\ meta[v].def < meta[v].liveEnd => v \in DOMAIN loc /\ IsUsed(v)
<1>1. func \in Funcs /\ AllPlaced /\ meta = [u \in VRegs(func) |-> MetaOf(func, u)]
  BY ResultIs
<1>2. meta[v] = MetaOf(func, v)
  BY <1>1
<1>3. /\ meta[v].def = DefIdx(func, v) /\ meta[v].liveEnd = LiveEnd(func, v)
      /\ meta[v].plain = (PlainUses(func, v) # {}) /\ meta[v].calls = CallUses(func, v)
  BY <1>2 DEF MetaOf
<1>4. DefIdx(func, v) \in 0..Len(func.code) /\ Bounds(func, v, LiveEnd(func, v))
  BY <1>1, DefIdxIs, LiveEndBounds
<1>5. Len(func.code) \in Nat /\ v \in Nat /\ v # 0
  BY <1>1, FunctionShape, OneFunction
<1>6. ASSUME DefIdx(func, v) < LiveEnd(func, v) PROVE Uses(func, v) # {}
  <2> SUFFICES ASSUME Uses(func, v) = {} PROVE FALSE
    OBVIOUS
  <2>1. Loops(func) \subseteq (0..Len(func.code)) \X (0..Len(func.code))
    BY <1>1, LoopsAre
  <2>2. ASSUME NEW r \in Loops(func), DefIdx(func, v) < r[1], r[1] <= 0 PROVE FALSE
    <3>1. r[1] \in 0..Len(func.code)
      BY <2>1
    <3> QED
      BY <1>4, <1>5, <2>2, <3>1
  <2>3. EndedBy(func, v, 0)
    BY <2>2 DEF EndedBy
  <2>4. LiveEnd(func, v) <= 0 /\ LiveEnd(func, v) \in 0..Len(func.code)
    BY <1>4, <2>3 DEF Bounds
  <2> QED
    BY <1>4, <1>5, <1>6, <2>4
<1>7. ASSUME DefIdx(func, v) < LiveEnd(func, v) PROVE v \in DOMAIN loc /\ IsUsed(v)
  <2>1. PlainUses(func, v) # {} \/ CallUses(func, v) # {}
    BY <1>1, <1>6, <1>7, UsesAre
  <2>2. IsUsed(v)
    BY <1>3, <2>1 DEF IsUsed
  <2> QED
    BY <1>1, <2>2 DEF AllPlaced
<1> QED
  BY <1>2, <1>3, <1>4, <1>5, <1>7 DEF Bounds

\* What an instruction uses has been set before and lives up to it.
LEMMA UsedIsLive ==
  ASSUME DoneInv, phase = "done", NEW v \in VRegs(func), NEW k \in Uses(func, v)
  PROVE  Live(v, k) /\ v \in DOMAIN loc
<1>1. func \in Funcs /\ MetaSound
  BY ResultIs
<1>2. k \in Indices(func) /\ Indices(func) = 1..Len(func.code) /\ Len(func.code) \in Nat /\ k \in Nat /\ 1 <= k
  <2>1. k \in Indices(func)
    BY DEF Uses
  <2> QED
    BY <1>1, <2>1, FunctionShape
<1>3. meta[v].def < k
  <2>1. CASE v \in Params(func)
    BY <1>1, <1>2, <2>1 DEF MetaSound
  <2>2. CASE v \notin Params(func)
    <3>1. PICK d \in Indices(func) : d < k /\ Defines(func.code[d]) = v
      BY <1>1, <2>2, FunctionShape DEF DefinedOnce
    <3>2. DefIdx(func, v) = d
      BY <1>1, <3>1, DefIdxIs
    <3> QED
      BY <3>1, <3>2, Lifetime
  <2> QED
    BY <2>1, <2>2
<1>4. k <= meta[v].liveEnd /\ meta[v].def \in Nat /\ meta[v].liveEnd \in Nat
  BY <1>2, Lifetime
<1>5. meta[v].def < meta[v].liveEnd
  BY <1>2, <1>3, <1>4
<1> QED
  BY <1>3, <1>4, <1>5, Lifetime DEF Live

\* What an instruction reads lives up to it.
LEMMA OperandsLive ==
  ASSUME DoneInv, phase = "done", pc \in Indices(func), Instr.op # "leave", NEW n \in DOMAIN Instr.src
  PROVE  /\ Instr.src[n] \in VRegs(func) /\ pc \in Uses(func, Instr.src[n])
         /\ Live(Instr.src[n], pc) /\ Instr.src[n] \in DOMAIN loc
<1>1. Instr.src[n] \in VRegs(func)
  BY ResultIs, InstrIs
<1>2. pc \in Uses(func, Instr.src[n])
  BY DEF Uses, Operands, Instr
<1> QED
  BY <1>1, <1>2, UsedIsLive

\* What lives at the next instruction was set here or lives across this one.
LEMMA LivesOn ==
  ASSUME DoneInv, phase = "done", pc \in Indices(func), NEW v \in VRegs(func), Live(v, pc + 1)
  PROVE  /\ v \in DOMAIN loc
         /\ (AliveAcross(v, pc) /\ Live(v, pc)) \/ Defines(Instr) = v
<1>1. /\ meta[v].def \in Nat /\ meta[v].liveEnd \in Nat /\ pc \in Nat /\ pc # 0 /\ func \in Funcs
      /\ meta[v].def = DefIdx(func, v)
  BY Lifetime, ResultIs, InstrIs
<1>2. meta[v].def < pc + 1 /\ pc + 1 <= meta[v].liveEnd
  BY DEF Live
<1>3. meta[v].def < meta[v].liveEnd
  BY <1>1, <1>2
<1>4. CASE meta[v].def < pc
  BY <1>1, <1>2, <1>3, <1>4, Lifetime DEF AliveAcross, Live
<1>5. CASE meta[v].def = pc
  <2>1. Defines(func.code[DefIdx(func, v)]) = v
    BY <1>1, <1>5, DefIdxIs
  <2> QED
    BY <1>1, <1>3, <1>5, <2>1, Lifetime DEF Instr
<1> QED
  BY <1>1, <1>2, <1>4, <1>5

\* What lives where a jump goes lives at the jump.
LEMMA LivesAtJump ==
  ASSUME DoneInv, phase = "done", pc \in Indices(func), Instr.op \in {"cjmp", "jmp"},
         NEW v \in VRegs(func), Live(v, Instr.to)
  PROVE  Live(v, pc)
<1>1. /\ meta[v].def \in Nat /\ meta[v].liveEnd \in Nat /\ pc \in Nat /\ pc # 0 /\ func \in Funcs
      /\ meta[v].def = DefIdx(func, v) /\ meta[v].liveEnd = LiveEnd(func, v) /\ v # 0
  BY Lifetime, ResultIs, InstrIs
<1>2. Instr.to \in Indices(func) /\ Instr.to \in Nat
  <2>1. Instr.to \in Indices(func) /\ Indices(func) = 1..Len(func.code) /\ Len(func.code) \in Nat
    BY <1>1, InstrIs, FunctionShape
  <2> QED
    BY <2>1
<1>3. meta[v].def < Instr.to /\ Instr.to <= meta[v].liveEnd
  BY DEF Live
<1>4. /\ Instr.op = "cjmp" => pc < Instr.to
      /\ \A d \in Indices(func) : pc < d /\ d < Instr.to /\ Defines(func.code[d]) # 0 => EndsBy(func, d, Instr.to - 1)
  BY <1>1, FuncsAreExecutable DEF Executable, JumpsOver, Instr
<1>5. CASE Instr.to < pc
  <2>1. <<Instr.to, pc>> \in Loops(func)
    BY <1>4, <1>1, <1>2, <1>5 DEF Loops, Instr
  <2>2. Closed(func, v, LiveEnd(func, v))
    BY <1>1, LiveEndClosed
  <2>3. \A r \in Loops(func) : DefIdx(func, v) < r[1] /\ r[1] <= LiveEnd(func, v) => r[2] <= LiveEnd(func, v)
    BY <2>2 DEF Closed
  <2>4. pc <= LiveEnd(func, v)
    BY <1>1, <1>3, <2>1, <2>3
  <2> QED
    BY <1>1, <1>2, <1>3, <1>5, <2>4 DEF Live
<1>6. CASE Instr.to = pc
  BY <1>3, <1>6 DEF Live
<1>7. CASE pc < Instr.to
  <2>1. CASE meta[v].def < pc
    BY <1>1, <1>2, <1>3, <1>7, <2>1 DEF Live
  <2>2. CASE meta[v].def = pc
    <3>1. Defines(Instr) = v
      BY <1>1, <2>2, DefIdxIs DEF Instr
    <3> QED
      BY <1>1, <3>1 DEF Defines
  <2>3. CASE pc < meta[v].def
    <3> DEFINE d == meta[v].def
    <3>1. d \in Indices(func) /\ Defines(func.code[d]) = v
      BY <1>1, <2>3, DefIdxIs
    <3>2. EndsBy(func, d, Instr.to - 1)
      BY <1>1, <1>3, <1>4, <2>3, <3>1
    <3>3. Instr.to - 1 \in Nat
      BY <1>1, <1>2, <1>7
    <3>4. LiveEnd(func, v) <= Instr.to - 1
      BY <1>1, <3>1, <3>2, <3>3, EndsAt
    <3> QED
      BY <1>1, <1>2, <1>3, <3>4
  <2> QED
    BY <1>1, <2>1, <2>2, <2>3
<1> QED
  BY <1>1, <1>2, <1>5, <1>6, <1>7

\* What is kept in a slot or a callee-saved register is in no scratch register.
LEMMA FarFromScratch ==
  ASSUME DoneInv, phase = "done", NEW v, InSlot(v) \/ InCalleeSaved(v), NEW r \in CallerSaved \cup {Rdx}
  PROVE  loc[v] # Reg(r)
<1>1. CASE InSlot(v)
  BY <1>1, ScratchApart DEF InSlot
<1>2. CASE InCalleeSaved(v)
  <2>1. PICK i \in 1..calleeIdx : loc[v] = Reg(CalleeSaved[i])
    BY <1>2 DEF InCalleeSaved
  <2>2. i \in DOMAIN CalleeSaved
    <3>1. calleeIdx \in Nat /\ calleeIdx <= Len(CalleeSaved)
      BY ResultIs
    <3> QED
      BY <3>1, TablesAre
  <2>3. CalleeSaved[i] # r
    BY <2>2, ScratchApart
  <2> QED
    BY <2>1, <2>3, LocsDiffer
<1> QED
  BY <1>1, <1>2

\* The result register holds nothing across an instruction that has code.
LEMMA NotInRax ==
  ASSUME DoneInv, phase = "done", NEW v \in DOMAIN loc, NEW k \in Indices(func), ~Silent(func.code[k]),
         AliveAcross(v, k)
  PROVE  loc[v] # Reg(Rax)
<1>1. WellPlaced(v) /\ v \in VRegs(func)
  BY ResultIs DEF PlacedWell
<1>2. Rax \in CallerSaved \cup {Rdx}
  BY DEF CallerSaved
<1>3. CASE InArgReg(v)
  <2>1. PICK j \in DOMAIN IntArgs : loc[v] = Reg(IntArgs[j])
    BY <1>3 DEF InArgReg
  <2>2. IntArgs[j] # Rax
    BY RegistersAreDistinct
  <2> QED
    BY <2>1, <2>2, LocsDiffer
<1>4. CASE InRax(v)
  <2>1. \A j \in (meta[v].def + 1)..(meta[v].liveEnd - 1) : Silent(func.code[j])
    BY <1>4 DEF InRax, RaxSafe
  <2>2. meta[v].def \in Nat /\ meta[v].liveEnd \in Nat
    BY <1>1, Lifetime
  <2>3. k \in Nat
    BY ResultIs, NextIsCode
  <2>4. k \in (meta[v].def + 1)..(meta[v].liveEnd - 1)
    BY <2>2, <2>3 DEF AliveAcross
  <2> QED
    BY <2>1, <2>4
<1> QED
  BY <1>1, <1>2, <1>3, <1>4, FarFromScratch DEF WellPlaced

\* Nor any operand, unless the instruction returns it.
LEMMA OperandNotInRax ==
  ASSUME DoneInv, phase = "done", pc \in Indices(func), ~Silent(Instr), Instr.op # "ret",
         NEW v \in VRegs(func), pc \in Uses(func, v)
  PROVE  loc[v] # Reg(Rax)
<1>1. Live(v, pc) /\ v \in DOMAIN loc
  BY UsedIsLive
<1>2. CASE AliveAcross(v, pc)
  BY <1>1, <1>2, NotInRax DEF Instr
<1>3. CASE ~AliveAcross(v, pc)
  <2>1. meta[v].def \in Nat /\ meta[v].liveEnd \in Nat /\ pc \in Nat
    BY Lifetime, ResultIs, InstrIs
  <2>2. meta[v].def < pc /\ meta[v].liveEnd = pc
    BY <1>1, <1>3, <2>1 DEF Live, AliveAcross
  <2>3. CASE meta[v].isRet
    <3>1. PICK k \in Indices(func) : func.code[k].op = "ret" /\ v \in Operands(func.code[k])
      <4>1. MetaOf(func, v).isRet = \E k \in Indices(func) : func.code[k].op = "ret" /\ v \in Operands(func.code[k])
        BY DEF MetaOf
      <4> QED
        BY <2>3, <4>1, Lifetime
    <3>2. k \in Uses(func, v) /\ k \in Nat
      BY <3>1, ResultIs, NextIsCode DEF Uses
    <3>3. meta[v].def < k /\ k <= pc
      BY <2>2, <3>2, UsedIsLive DEF Live
    <3>4. k # pc
      BY <3>1 DEF Instr
    <3>5. AliveAcross(v, k)
      BY <2>1, <2>2, <3>2, <3>3, <3>4 DEF AliveAcross
    <3> QED
      BY <1>1, <3>1, <3>5, NotInRax DEF Silent
  <2>4. CASE ~meta[v].isRet
    <3>1. WellPlaced(v)
      BY <1>1, ResultIs DEF PlacedWell
    <3>2. Rax \in CallerSaved \cup {Rdx}
      BY DEF CallerSaved
    <3>3. CASE InArgReg(v)
      <4>1. PICK j \in DOMAIN IntArgs : loc[v] = Reg(IntArgs[j])
        BY <3>3 DEF InArgReg
      <4>2. IntArgs[j] # Rax
        BY RegistersAreDistinct
      <4> QED
        BY <4>1, <4>2, LocsDiffer
    <3> QED
      BY <2>4, <3>1, <3>2, <3>3, FarFromScratch DEF WellPlaced, InRax
  <2> QED
    BY <2>3, <2>4
<1> QED
  BY <1>2, <1>3

\* What lives across a call or a division is not in what they overwrite.
LEMMA NotClobbered ==
  ASSUME DoneInv, DivisionSparesParams, phase = "done", pc \in Indices(func),
         NEW v \in DOMAIN loc, AliveAcross(v, pc)
  PROVE  /\ Instr.op = "call" => \A r \in CallerSaved : loc[v] # Reg(r)
         /\ Instr.op = "div" => \A r \in {Rax, Rdx} : loc[v] # Reg(r)
<1>1. WellPlaced(v)
  BY ResultIs DEF PlacedWell
<1>2. CallerSaved \subseteq CallerSaved \cup {Rdx} /\ Rax \in CallerSaved
  BY DEF CallerSaved
<1>3. CASE InArgReg(v)
  <2>1. PICK j \in DOMAIN IntArgs :
          /\ loc[v] = Reg(IntArgs[j])
          /\ \A c \in Calls(func) : ~AliveAcross(v, c)
          /\ v \notin Params(func) => (IntArgs[j] \in {Rax, Rdx} => \A d \in DivMods(func) : ~AliveAcross(v, d))
    BY <1>3 DEF InArgReg
  <2>2. Instr.op # "call"
    BY <2>1 DEF Calls, Instr
  <2>3. ASSUME Instr.op = "div", NEW r \in {Rax, Rdx} PROVE loc[v] # Reg(r)
    <3>1. pc \in DivMods(func)
      BY <2>3 DEF DivMods, Instr
    <3>2. CASE v \in Params(func)
      BY <3>1, <3>2 DEF DivisionSparesParams, Has
    <3>3. CASE v \notin Params(func)
      <4>1. IntArgs[j] # r
        BY <2>1, <3>1, <3>3
      <4> QED
        BY <2>1, <4>1, LocsDiffer
    <3> QED
      BY <3>2, <3>3
  <2> QED
    BY <2>2, <2>3
<1>4. ASSUME Instr.op = "call" \/ Instr.op = "div" PROVE ~InRax(v)
  <2>1. loc[v] # Reg(Rax)
    BY <1>4, NotInRax DEF Silent, Instr
  <2> QED
    BY <2>1 DEF InRax
<1>5. CASE InSlot(v) \/ InCalleeSaved(v)
  BY <1>2, <1>5, FarFromScratch
<1> QED
  BY <1>1, <1>3, <1>4, <1>5 DEF WellPlaced

\* What lives across an instruction has another place than what the instruction sets.
LEMMA NotTarget ==
  ASSUME DoneInv, phase = "done", pc \in Indices(func), Instr.op # "leave",
         NEW v \in DOMAIN loc, AliveAcross(v, pc),
         Instr.dst \in DOMAIN loc, v # Instr.dst, Instr.op = "mov" \/ Defines(Instr) = Instr.dst
  PROVE  loc[v] # loc[Instr.dst]
<1> DEFINE u == Instr.dst
<1>1. v \in VRegs(func) /\ u \in VRegs(func) /\ func \in Funcs
  BY ResultIs
<1>2. /\ meta[v].def \in Nat /\ meta[v].liveEnd \in Nat /\ meta[u].def \in Nat /\ meta[u].liveEnd \in Nat
      /\ pc \in Nat /\ meta[v].def < pc /\ pc < meta[v].liveEnd
  BY <1>1, Lifetime, InstrIs DEF AliveAcross
<1>3. CASE Instr.op = "mov"
  <2>1. pc \in Uses(func, u)
    BY <1>3 DEF Uses, Instr
  <2>2. Live(u, pc)
    BY <1>1, <2>1, UsedIsLive
  <2>3. Together(u, v)
    BY <1>2, <2>2 DEF Live, Together
  <2> QED
    BY <2>3, ApartPlaces
<1>4. CASE Defines(Instr) = u
  <2>1. meta[u].def = pc
    BY <1>1, <1>4, DefIdxIs, Lifetime DEF Instr
  <2>2. Together(u, v)
    BY <1>2, <2>1 DEF Together
  <2> QED
    BY <2>2, ApartPlaces
<1> QED
  BY <1>3, <1>4

-----------------------------------------------------------------------------
\* The values.

\* The operands are read where they are.
LEMMA ContentIs ==
  ASSUME DoneInv, VInv, phase = "done", pc \in Indices(func), Instr.op # "leave"
  PROVE  /\ \A n \in DOMAIN Instr.src : /\ Instr.src[n] \in DOMAIN loc /\ Instr.src[n] \in DOMAIN val
                                        /\ Place(Instr.src[n]) = loc[Instr.src[n]]
                                        /\ Get(cell, Place(Instr.src[n])) = val[Instr.src[n]]
         /\ Content(cell) = Meaning
<1>1. pc # 0
  BY ResultIs, InstrIs
<1>2. ASSUME NEW n \in DOMAIN Instr.src
      PROVE  /\ Instr.src[n] \in DOMAIN loc /\ Instr.src[n] \in DOMAIN val
             /\ Place(Instr.src[n]) = loc[Instr.src[n]]
             /\ Get(cell, Place(Instr.src[n])) = val[Instr.src[n]]
  <2>1. Instr.src[n] \in VRegs(func) /\ Live(Instr.src[n], pc)
    BY OperandsLive
  <2>2. Carried(Instr.src[n])
    BY <1>1, <2>1 DEF VInv
  <2> QED
    BY <2>2 DEF Carried, Place, Has
<1>3. Content(cell) = Meaning
  BY <1>2 DEF Content, Meaning
<1> QED
  BY <1>2, <1>3

\* What lives across the instruction is still in its place, d aside.
Spares(c, d) == \A v \in DOMAIN loc : AliveAcross(v, pc) /\ v # d => Get(c, loc[v]) = Get(cell, loc[v])

\* An instruction that spares the others and sets d at most.
LEMMA Follow ==
  ASSUME DoneInv, VInv, phase = "done", pc \in Indices(func), UNCHANGED avars, pc' = pc + 1,
         got' = meant', NEW d, Defines(Instr) \in {0, d}, Spares(cell', d),
         \A v \in DOMAIN val : v # d => v \in DOMAIN val' /\ val'[v] = val[v],
         d \in DOMAIN loc => d \in DOMAIN val' /\ Get(cell', loc[d]) = val'[d]
  PROVE  VInv'
<1>1. func' = func /\ meta' = meta /\ loc' = loc
  BY DEF avars
<1>2. pc # 0
  BY ResultIs, InstrIs
<1>3. ASSUME NEW v \in VRegs(func), Live(v, pc + 1)
      PROVE  v \in DOMAIN val' /\ v \in DOMAIN loc /\ Get(cell', loc[v]) = val'[v]
  <2>1. v \in DOMAIN loc /\ v # 0
    BY <1>3, LivesOn, Lifetime
  <2>2. CASE v = d
    BY <2>1, <2>2
  <2>3. CASE v # d
    <3>1. AliveAcross(v, pc) /\ Live(v, pc)
      BY <1>3, <2>1, <2>3, LivesOn
    <3>2. Carried(v)
      BY <1>2, <3>1 DEF VInv
    <3> QED
      BY <2>1, <2>3, <3>1, <3>2 DEF Carried, Spares
  <2> QED
    BY <2>2, <2>3
<1>4. ASSUME NEW v, Live(v, pc)' PROVE Live(v, pc + 1)
  BY <1>1, <1>4 DEF Live
<1>5. \A v \in VRegs(func)' : Live(v, pc)' => Carried(v)'
  BY <1>1, <1>3, <1>4 DEF Carried, VRegs
<1> QED
  BY <1>5 DEF VInv

\* Writing the destination.
LEMMA DstHolds ==
  ASSUME NEW c, NEW x
  PROVE  /\ Has(Instr.dst) => Get(PutDst(c, x), loc[Instr.dst]) = x
         /\ \A l : (Has(Instr.dst) => l # loc[Instr.dst]) => Get(PutDst(c, x), l) = Get(c, l)
  BY GetPut DEF PutDst

\* What lives across an instruction is in none of the places its code writes.
LEMMA WritesSpare ==
  ASSUME DoneInv, DivisionSparesParams, phase = "done", pc \in Indices(func), ~Silent(Instr),
         NEW v \in DOMAIN loc, AliveAcross(v, pc), NEW c
  PROVE  /\ \A vs : Get(ViaRax(c, vs), loc[v]) = Get(c, loc[v])
         /\ \A x : Get(Put(c, Reg(Rax), x), loc[v]) = Get(c, loc[v])
         /\ v # Instr.dst /\ (Instr.op = "mov" \/ Defines(Instr) = Instr.dst) =>
              \A x : Get(PutDst(c, x), loc[v]) = Get(c, loc[v])
         /\ Instr.op = "div" => Get(Clobber(c, {Rax, Rdx}), loc[v]) = Get(c, loc[v])
         /\ Instr.op = "call" => Get(Clobber(c, CallerSaved), loc[v]) = Get(c, loc[v])
<1>1. loc[v] # Reg(Rax)
  BY NotInRax DEF Instr
<1>2. \A vs : Get(ViaRax(c, vs), loc[v]) = Get(c, loc[v])
  <2>1. Get(Clobber(c, {Rax}), loc[v]) = Get(c, loc[v])
    BY <1>1, GetClobber
  <2> QED
    BY <2>1 DEF ViaRax
<1>3. \A x : Get(Put(c, Reg(Rax), x), loc[v]) = Get(c, loc[v])
  BY <1>1, GetPut
<1>4. ASSUME v # Instr.dst, Instr.op = "mov" \/ Defines(Instr) = Instr.dst, NEW x
      PROVE  Get(PutDst(c, x), loc[v]) = Get(c, loc[v])
  <2>1. Has(Instr.dst) => loc[v] # loc[Instr.dst]
    BY <1>4, NotTarget DEF Has, Silent
  <2> QED
    BY <2>1, DstHolds
<1>5. Instr.op = "div" => Get(Clobber(c, {Rax, Rdx}), loc[v]) = Get(c, loc[v])
  BY NotClobbered, GetClobber
<1>6. Instr.op = "call" => Get(Clobber(c, CallerSaved), loc[v]) = Get(c, loc[v])
  BY NotClobbered, GetClobber
<1> QED
  BY <1>2, <1>3, <1>4, <1>5, <1>6

\* An instruction that sets its destination to what it means.
LEMMA Sets ==
  ASSUME DoneInv, VInv, DivisionSparesParams, phase = "done", pc \in Indices(func), ~Silent(Instr),
         UNCHANGED avars, pc' = pc + 1, got' = meant',
         Instr.op = "mov" \/ Defines(Instr) = Instr.dst,
         NEW x, Means(x), NEW c, Spares(c, Instr.dst),
         cell' = IF Has(Instr.dst) THEN PutDst(c, x) ELSE cell
  PROVE  VInv'
<1> DEFINE d == Instr.dst
<1>1. Defines(Instr) \in {0, d}
  BY DEF Defines
<1>2. Spares(cell', d)
  <2> SUFFICES ASSUME NEW v \in DOMAIN loc, AliveAcross(v, pc), v # d
               PROVE  Get(cell', loc[v]) = Get(cell, loc[v])
    BY DEF Spares
  <2>1. Get(PutDst(c, x), loc[v]) = Get(c, loc[v])
    BY WritesSpare
  <2>2. Get(c, loc[v]) = Get(cell, loc[v])
    BY DEF Spares
  <2> QED
    BY <2>1, <2>2
<1>3. \A v \in DOMAIN val : v # d => v \in DOMAIN val' /\ val'[v] = val[v]
  BY MeansIs
<1>4. d \in DOMAIN loc => d \in DOMAIN val' /\ Get(cell', loc[d]) = val'[d]
  BY MeansIs, DstHolds DEF Has
<1> QED
  BY <1>1, <1>2, <1>3, <1>4, Follow

\* The machine does what the instructions mean: constants and addresses of data,
LEMMA DefineVInv == DoneInv /\ VInv /\ DivisionSparesParams /\ Define => VInv'
<1> SUFFICES ASSUME DoneInv, VInv, DivisionSparesParams, Define PROVE VInv'
  OBVIOUS
<1> DEFINE x == Term("def", pc, << >>)
           c == ViaRax(cell, {Instr.dst})
<1>1. /\ phase = "done" /\ pc \in Indices(func) /\ Instr.op \in DefOps /\ UNCHANGED avars /\ pc' = pc + 1
      /\ Means(x) /\ cell' = PutDst(c, x) /\ got' = meant'
  BY DEF Define, Running, Goto, Indices, Reads
<1>2. ~Silent(Instr) /\ Defines(Instr) = Instr.dst
  BY <1>1 DEF DefOps, Silent, Defines
<1>3. Spares(c, Instr.dst)
  BY <1>1, <1>2, WritesSpare DEF Spares
<1>4. ~Has(Instr.dst) => cell' = c
  BY <1>1 DEF PutDst
<1>5. ASSUME ~Has(Instr.dst) PROVE VInv'
  <2>1. Spares(cell', Instr.dst)
    BY <1>3, <1>4, <1>5
  <2>2. \A v \in DOMAIN val : v # Instr.dst => v \in DOMAIN val' /\ val'[v] = val[v]
    BY <1>1, MeansIs
  <2>3. Instr.dst \notin DOMAIN loc /\ Defines(Instr) \in {0, Instr.dst}
    BY <1>2, <1>5 DEF Has
  <2> HIDE DEF x, c
  <2> QED
    BY <1>1, <2>1, <2>2, <2>3, Follow
<1>6. ASSUME Has(Instr.dst) PROVE VInv'
  BY <1>1, <1>2, <1>3, <1>6, Sets
<1> QED
  BY <1>5, <1>6

\* operations on one operand,
LEMMA UnaryVInv == DoneInv /\ VInv /\ DivisionSparesParams /\ Unary => VInv'
<1> SUFFICES ASSUME DoneInv, VInv, DivisionSparesParams, Unary PROVE VInv'
  OBVIOUS
<1> DEFINE x == Term("un", pc, Meaning)
           c == ViaRax(cell, {Instr.dst})
<1>1. /\ phase = "done" /\ pc \in Indices(func) /\ Instr.op = "un" /\ UNCHANGED avars /\ pc' = pc + 1
      /\ Means(x)
  BY DEF Unary, Running, Goto, Indices
<1>2. ~Silent(Instr) /\ Defines(Instr) = Instr.dst /\ Instr.op # "leave"
  BY <1>1 DEF Silent, Defines
<1>3. Spares(c, Instr.dst)
  BY <1>1, <1>2, WritesSpare DEF Spares
<1>4. Content(cell) = Meaning
  BY <1>1, <1>2, ContentIs
<1>5. got' = meant' /\ cell' = IF Has(Instr.dst) THEN PutDst(c, x) ELSE cell
  BY <1>4 DEF Unary, Reads
<1> QED
  BY <1>1, <1>2, <1>3, <1>5, Sets

\* comparisons, shifts and indexed loads,
LEMMA CompareVInv == DoneInv /\ VInv /\ DivisionSparesParams /\ Compare => VInv'
<1> SUFFICES ASSUME DoneInv, VInv, DivisionSparesParams, Compare PROVE VInv'
  OBVIOUS
<1> DEFINE x == Term("cmp", pc, Meaning)
           c == ViaRax(cell, {Instr.dst, Instr.src[1]})
<1>1. /\ phase = "done" /\ pc \in Indices(func) /\ Instr.op = "cmp" /\ UNCHANGED avars /\ pc' = pc + 1
      /\ Means(x)
  BY DEF Compare, Running, Goto, Indices
<1>2. ~Silent(Instr) /\ Defines(Instr) = Instr.dst /\ Instr.op # "leave"
  BY <1>1 DEF Silent, Defines
<1>3. Spares(c, Instr.dst)
  BY <1>1, <1>2, WritesSpare DEF Spares
<1>4. Content(cell) = Meaning
  BY <1>1, <1>2, ContentIs
<1>5. got' = meant' /\ cell' = IF Has(Instr.dst) THEN PutDst(c, x) ELSE cell
  BY <1>4 DEF Compare, Reads
<1> QED
  BY <1>1, <1>2, <1>3, <1>5, Sets

\* divisions,
LEMMA DivideVInv == DoneInv /\ VInv /\ DivisionSparesParams /\ Divide => VInv'
<1> SUFFICES ASSUME DoneInv, VInv, DivisionSparesParams, Divide PROVE VInv'
  OBVIOUS
<1> DEFINE x == Term("div", pc, Meaning)
           c == Clobber(cell, {Rax, Rdx})
<1>1. /\ phase = "done" /\ pc \in Indices(func) /\ Instr.op = "div" /\ UNCHANGED avars /\ pc' = pc + 1
      /\ Means(x)
  BY DEF Divide, Running, Goto, Indices
<1>2. ~Silent(Instr) /\ Defines(Instr) = Instr.dst /\ Instr.op # "leave"
  BY <1>1 DEF Silent, Defines
<1>3. Spares(c, Instr.dst)
  BY <1>1, <1>2, WritesSpare DEF Spares
<1>4. Content(cell) = Meaning
  BY <1>1, <1>2, ContentIs
<1>5. got' = meant' /\ cell' = IF Has(Instr.dst) THEN PutDst(c, x) ELSE cell
  BY <1>4 DEF Divide, Reads
<1> QED
  BY <1>1, <1>2, <1>3, <1>5, Sets

\* the address of a local, which is on the stack,
LEMMA AddressOfVInv == DoneInv /\ VInv /\ DivisionSparesParams /\ AddressOf => VInv'
<1> SUFFICES ASSUME DoneInv, VInv, DivisionSparesParams, AddressOf PROVE VInv'
  OBVIOUS
<1> DEFINE u == Instr.src[1]
           x == Term("addr", u, << >>)
<1>1. /\ phase = "done" /\ pc \in Indices(func) /\ Instr.op = "lea" /\ UNCHANGED avars /\ pc' = pc + 1
      /\ Means(x) /\ cell' = PutDst(cell, x)
      /\ meant' = <<x>> /\ got' = <<IF Spilled(u) THEN x ELSE Junk>>
  BY DEF AddressOf, Running, Goto, Indices, Reads
<1>2. ~Silent(Instr) /\ Defines(Instr) = Instr.dst /\ Instr.op # "leave"
  BY <1>1 DEF Silent, Defines
<1>3. 1 \in DOMAIN Instr.src /\ u \notin Params(func)
  <2>1. Takes(func, Instr) /\ DOMAIN Instr.src = 1..Len(Instr.src)
    BY <1>1, ResultIs, InstrIs
  <2>2. Len(Instr.src) = 1 /\ u \notin Params(func)
    BY <1>1, <2>1 DEF Takes, Arity, DefOps, UnOps, BinOps
  <2> QED
    BY <2>1, <2>2
<1>4. u \in VRegs(func) /\ u \in DOMAIN loc
  BY <1>1, <1>2, <1>3, OperandsLive
<1>5. meta[u].isVar
  <2>1. MetaOf(func, u).isVar = \E k \in Indices(func) : \/ func.code[k].op = "var" /\ func.code[k].dst = u
                                                         \/ func.code[k].op = "lea" /\ func.code[k].src[1] = u
    BY DEF MetaOf
  <2>2. MetaOf(func, u).isVar
    BY <1>1, <2>1 DEF Instr
  <2> QED
    BY <1>1, <1>4, <2>2, Lifetime
<1>6. Spilled(u)
  <2>1. InSlot(u)
    BY <1>1, <1>3, <1>4, <1>5, ResultIs DEF PlacedWell, WellPlaced
  <2>2. PICK o : loc[u] = Stack(o)
    BY <2>1 DEF InSlot
  <2>3. Stack(o).reg = ""
    BY LocsDiffer
  <2>4. loc[u].reg = ""
    BY <2>2, <2>3
  <2> QED
    BY <1>4, <2>4 DEF Spilled, IsStack, Has
<1>7. got' = meant'
  BY <1>1, <1>6
<1>8. Spares(cell, Instr.dst)
  BY DEF Spares
<1>9. cell' = IF Has(Instr.dst) THEN PutDst(cell, x) ELSE cell
  BY <1>1 DEF PutDst
<1> QED
  BY <1>1, <1>2, <1>7, <1>8, <1>9, Sets

\* sums, differences and products,
LEMMA BinaryVInv == DoneInv /\ VInv /\ RightOperandApart /\ DivisionSparesParams /\ Binary => VInv'
<1> SUFFICES ASSUME DoneInv, VInv, RightOperandApart, DivisionSparesParams, Binary PROVE VInv'
  OBVIOUS
<1> DEFINE d == Instr.dst
           l == Instr.src[1]
           r == Instr.src[2]
           acc == IF Spilled(d) THEN Reg(Rax) ELSE loc[d]
           first == Put(cell, acc, Content(cell)[1])
           read == <<Get(first, acc), Content(first)[2]>>
           res == Term("bin", pc, read)
<1>1. /\ phase = "done" /\ pc \in Indices(func) /\ Instr.op = "bin" /\ UNCHANGED avars /\ pc' = pc + 1
      /\ Means(Term("bin", pc, Meaning))
  BY DEF Binary, Running, Goto, Indices
<1>2. ~Silent(Instr) /\ Defines(Instr) = d /\ Instr.op # "leave" /\ Instr.op # "ret"
  BY <1>1 DEF Silent, Defines
<1>3. DOMAIN Instr.src = 1..2
  <2>1. Takes(func, Instr) /\ DOMAIN Instr.src = 1..Len(Instr.src)
    BY <1>1, ResultIs, InstrIs
  <2>2. Len(Instr.src) = 2
    BY <1>1, <2>1 DEF Takes, Arity, DefOps, UnOps, BinOps
  <2> QED
    BY <2>1, <2>2
<1>4. 1 \in DOMAIN Instr.src /\ 2 \in DOMAIN Instr.src
  BY <1>3
<1>5. /\ Content(cell) = Meaning /\ r \in DOMAIN loc
      /\ Place(l) = loc[l] /\ Get(cell, Place(l)) = val[l]
      /\ Place(r) = loc[r] /\ Get(cell, Place(r)) = val[r]
  BY <1>1, <1>2, <1>4, ContentIs
<1>6. CASE ~Has(d)
  <2>1. cell' = cell /\ got' = meant'
    BY <1>6 DEF Binary, Reads
  <2>2. Spares(cell, d)
    BY DEF Spares
  <2> QED
    BY <1>1, <1>2, <1>6, <2>1, <2>2, Sets
<1>7. CASE Has(d)
  <2>1. meant' = Meaning /\ got' = read /\ cell' = PutDst(Put(first, acc, res), res)
    BY <1>7 DEF Binary, Reads
  <2>2. Content(cell)[1] = val[l] /\ Meaning[1] = val[l] /\ Meaning[2] = val[r]
    BY <1>4, <1>5 DEF Meaning
  <2>3. Content(first)[2] = Get(first, Place(r))
    <3> HIDE DEF first
    <3> QED
      BY <1>4 DEF Content
  <2>4. \A m : Get(first, m) = IF m = acc THEN val[l] ELSE Get(cell, m)
    BY <2>2, GetPut
  <2> HIDE DEF first
  <2>5. Get(first, acc) = val[l]
    BY <2>4
  <2>6. Get(first, Place(r)) = val[r]
    <3>1. CASE Spilled(d)
      <4>1. r \in VRegs(func) /\ pc \in Uses(func, r)
        BY <1>1, <1>2, <1>4, OperandsLive
      <4>2. loc[r] # Reg(Rax)
        BY <1>1, <1>2, <4>1, OperandNotInRax
      <4> QED
        BY <1>5, <2>4, <3>1, <4>2
    <3>2. CASE ~Spilled(d)
      <4>1. loc[d] = loc[r] => l = r
        BY <1>1, <1>5, <1>7, <3>2 DEF RightOperandApart, Has, Instr
      <4> QED
        BY <1>5, <2>4, <3>2, <4>1
    <3> QED
      BY <3>1, <3>2
  <2>7. read = Meaning
    <3>1. read = <<val[l], val[r]>>
      BY <2>3, <2>5, <2>6
    <3>2. Meaning = [k \in 1..2 |-> val[Instr.src[k]]]
      BY <1>3 DEF Meaning
    <3>3. [k \in 1..2 |-> val[Instr.src[k]]] = <<val[l], val[r]>>
      OBVIOUS
    <3> QED
      BY <3>1, <3>2, <3>3
  <2>8. res = Term("bin", pc, Meaning)
    BY <2>7
  <2> HIDE DEF read, res
  <2>9. Spares(Put(first, acc, res), d)
    <3> SUFFICES ASSUME NEW v \in DOMAIN loc, AliveAcross(v, pc), v # d
                 PROVE  Get(Put(first, acc, res), loc[v]) = Get(cell, loc[v])
      BY DEF Spares
    <3>1. loc[v] # Reg(Rax)
      BY <1>1, <1>2, NotInRax DEF Instr
    <3>2. loc[v] # loc[d]
      BY <1>1, <1>2, <1>7, NotTarget DEF Has
    <3>3. loc[v] # acc
      BY <3>1, <3>2
    <3> HIDE DEF acc
    <3> QED
      BY <2>4, <3>3, GetPut
  <2> HIDE DEF acc
  <2>10. cell' = IF Has(d) THEN PutDst(Put(first, acc, res), res) ELSE cell
    BY <1>7, <2>1
  <2>11. got' = meant'
    BY <2>1, <2>7
  <2>12. Means(res)
    BY <1>1, <2>8
  <2> QED
    BY <1>1, <1>2, <2>9, <2>10, <2>11, <2>12, Sets
<1> QED
  BY <1>6, <1>7

\* updates of a variable,
LEMMA UpdateVInv == DoneInv /\ VInv /\ DivisionSparesParams /\ Update => VInv'
<1> SUFFICES ASSUME DoneInv, VInv, DivisionSparesParams, Update PROVE VInv'
  OBVIOUS
<1> DEFINE d == Instr.dst
           s == Instr.src[1]
           x == val[s]
           c == IF Spilled(d) THEN ViaRax(cell, {s}) ELSE cell
<1>1. /\ phase = "done" /\ pc \in Indices(func) /\ Instr.op = "mov" /\ UNCHANGED avars /\ pc' = pc + 1
      /\ Means(x) /\ meant' = Meaning /\ got' = Content(cell)
  BY DEF Update, Running, Goto, Indices, Reads
<1>2. ~Silent(Instr) /\ Instr.op # "leave" /\ func \in Funcs /\ Defines(Instr) = 0
  BY <1>1, ResultIs DEF Silent, Defines
<1>3. 1 \in DOMAIN Instr.src
  <2>1. Takes(func, Instr) /\ DOMAIN Instr.src = 1..Len(Instr.src)
    BY <1>1, ResultIs, InstrIs
  <2>2. Len(Instr.src) = 1
    BY <1>1, <2>1 DEF Takes, Arity, DefOps, UnOps, BinOps
  <2> QED
    BY <2>1, <2>2
<1>4. /\ Content(cell) = Meaning /\ s \in DOMAIN loc
      /\ Place(s) = loc[s] /\ Get(cell, Place(s)) = val[s]
  BY <1>1, <1>2, <1>3, ContentIs
<1>5. Content(cell)[1] = x
  BY <1>3, <1>4 DEF Meaning
<1>6. Has(d)
  <2>1. d \in VRegs(func)
    BY <1>1, <1>2, InstrIs DEF Takes
  <2>2. pc \in Uses(func, d)
    BY <1>1 DEF Uses, Instr
  <2> QED
    BY <1>1, <2>1, <2>2, UsedIsLive DEF Has
<1>7. Spares(c, d)
  BY <1>1, <1>2, WritesSpare DEF Spares
<1>8. CASE loc[d] # loc[s]
  <2>1. cell' = PutDst(c, x)
    BY <1>4, <1>5, <1>6, <1>8 DEF Update, Has
  <2> HIDE DEF c
  <2> QED
    BY <1>1, <1>2, <1>4, <1>6, <1>7, <2>1, Sets
<1>9. CASE loc[d] = loc[s]
  <2>1. cell' = cell
    BY <1>9 DEF Update
  <2>2. Spares(cell', d) /\ Defines(Instr) \in {0, d} /\ got' = meant'
    BY <1>1, <1>2, <1>4, <2>1 DEF Spares
  <2>3. \A v \in DOMAIN val : v # d => v \in DOMAIN val' /\ val'[v] = val[v]
    BY <1>1, MeansIs
  <2>4. d \in DOMAIN val' /\ Get(cell', loc[d]) = val'[d]
    BY <1>1, <1>4, <1>9, <2>1, MeansIs
  <2> QED
    BY <1>1, <2>2, <2>3, <2>4, Follow
<1> QED
  BY <1>8, <1>9

\* stores through a pointer,
LEMMA StoreVInv == DoneInv /\ VInv /\ DivisionSparesParams /\ Store => VInv'
<1> SUFFICES ASSUME DoneInv, VInv, DivisionSparesParams, Store PROVE VInv'
  OBVIOUS
<1>1. /\ phase = "done" /\ pc \in Indices(func) /\ Instr.op = "store" /\ UNCHANGED avars /\ pc' = pc + 1
      /\ meant' = Meaning /\ got' = Content(cell) /\ cell' = ViaRax(cell, {Instr.src[2]}) /\ val' = val
  BY DEF Store, Running, Goto, Indices, Reads
<1>2. ~Silent(Instr) /\ Instr.op # "leave" /\ Defines(Instr) = 0
  BY <1>1 DEF Silent, Defines
<1>3. Content(cell) = Meaning
  BY <1>1, <1>2, ContentIs
<1>4. Spares(cell', 0)
  BY <1>1, <1>2, WritesSpare DEF Spares
<1>5. 0 \notin DOMAIN loc
  BY <1>1, ResultIs, Lifetime
<1> QED
  BY <1>1, <1>2, <1>3, <1>4, <1>5, Follow

\* and calls.
LEMMA CallVInv == DoneInv /\ VInv /\ DivisionSparesParams /\ Call => VInv'
<1> SUFFICES ASSUME DoneInv, VInv, DivisionSparesParams, Call PROVE VInv'
  OBVIOUS
<1> DEFINE c == Clobber(cell, CallerSaved)
           x == Term("call", pc, Meaning)
<1>1. /\ phase = "done" /\ pc \in Indices(func) /\ Instr.op = "call" /\ UNCHANGED avars /\ pc' = pc + 1
      /\ meant' = Meaning /\ got' = Content(cell)
  BY DEF Call, Running, Goto, Indices, Reads
<1>2. ~Silent(Instr) /\ Instr.op # "leave" /\ Defines(Instr) = Instr.dst
  BY <1>1 DEF Silent, Defines
<1>3. Content(cell) = Meaning
  BY <1>1, <1>2, ContentIs
<1>4. Spares(c, Instr.dst)
  BY <1>1, <1>2, WritesSpare DEF Spares
<1>5. 0 \notin DOMAIN loc
  BY <1>1, ResultIs, Lifetime
<1>6. CASE Instr.dst = 0
  <2>1. cell' = c /\ val' = val
    BY <1>6 DEF Call
  <2> QED
    BY <1>1, <1>2, <1>3, <1>4, <1>5, <1>6, <2>1, Follow
<1>7. CASE Instr.dst # 0
  <2>1. Means(x) /\ cell' = PutDst(c, x)
    BY <1>3, <1>7 DEF Call
  <2> HIDE DEF c, x
  <2>2. \A v \in DOMAIN val : v # Instr.dst => v \in DOMAIN val' /\ val'[v] = val[v]
    BY <2>1, MeansIs
  <2>3. Instr.dst \in DOMAIN loc => Instr.dst \in DOMAIN val' /\ Get(cell', loc[Instr.dst]) = val'[Instr.dst]
    BY <2>1, MeansIs, DstHolds DEF Has
  <2>4. Spares(cell', Instr.dst)
    <3> SUFFICES ASSUME NEW v \in DOMAIN loc, AliveAcross(v, pc), v # Instr.dst
                 PROVE  Get(cell', loc[v]) = Get(cell, loc[v])
      BY DEF Spares
    <3>1. Get(PutDst(c, x), loc[v]) = Get(c, loc[v])
      BY <1>1, <1>2, WritesSpare
    <3> QED
      BY <1>4, <2>1, <3>1 DEF Spares
  <2> QED
    BY <1>1, <1>2, <1>3, <2>2, <2>3, <2>4, Follow
<1> QED
  BY <1>6, <1>7

\* Returning: the results reach their registers, each still there when it is moved.
LEMMA ReturnVInv == DoneInv /\ EInv /\ VInv /\ Return => VInv'
<1> SUFFICES ASSUME DoneInv, EInv, VInv, Return PROVE VInv'
  OBVIOUS
<1> DEFINE c == MoveAll(cell, Results)
<1>1. /\ phase = "done" /\ pc \in Indices(func) /\ Instr.op = "ret" /\ UNCHANGED avars /\ pc' = Returned
      /\ meant' = Meaning /\ got' = [k \in DOMAIN Instr.src |-> Get(c, RetReg(k))]
  BY DEF Return, Running, Goto, Indices, Reads
<1> HIDE DEF c
<1>2. func \in Funcs /\ IsMap(cell) /\ Instr.op # "leave"
  BY <1>1, MachineIs DEF Machine
<1>3. /\ Len(Results) = Len(Instr.src) /\ Len(Results) \in Nat
      /\ \A k \in 1..Len(Results) :
           /\ k \in DOMAIN Instr.src
           /\ Results[k][1] = Place(Instr.src[k]) /\ Results[k][2] = RetReg(k)
           /\ Len(Results) # 1 => k \in DOMAIN IntArgs /\ RetReg(k) = Reg(IntArgs[k])
  BY <1>1, <1>2, ResultsGo
<1>4. PICK n : n = Len(Results) /\ n \in Nat /\ DOMAIN Instr.src = 1..n
  BY <1>1, <1>2, <1>3, InstrIs
<1>5. ASSUME NEW j \in 1..n, NEW k \in 1..n, n > 1 PROVE Place(Instr.src[k]) # Reg(IntArgs[j])
  <2> DEFINE v == Instr.src[k]
  <2>1. v \in VRegs(func) /\ v \in DOMAIN loc /\ Place(v) = loc[v]
    BY <1>1, <1>2, <1>4, ContentIs, OperandsLive
  <2>2. /\ v \notin Params(func)
        /\ \/ \E d \in Indices(func) : func.code[d].op = "var" /\ func.code[d].dst = v
           \/ \A m \in Calls(func) : v \notin Operands(func.code[m])
    <3>1. Takes(func, Instr) /\ Len(Instr.src) > 1
      BY <1>1, <1>2, <1>3, <1>4, <1>5, InstrIs
    <3>2. v \in Operands(Instr)
      BY <1>2, <1>4 DEF Operands
    <3> QED
      BY <1>1, <3>1, <3>2 DEF Takes
  <2>3. WellPlaced(v) /\ meta[v] = MetaOf(func, v)
    BY <1>1, <2>1, ResultIs, Lifetime DEF PlacedWell
  <2>4. j \in DOMAIN IntArgs
    BY <1>3, <1>4, <1>5
  <2>5. IntArgs[j] \in CallerSaved \cup {Rdx}
    BY <2>4 DEF CallerSaved
  <2>6. CASE InSlot(v) \/ InCalleeSaved(v)
    BY <1>1, <2>1, <2>5, <2>6, FarFromScratch
  <2>7. CASE InRax(v)
    <3>1. Rax # IntArgs[j]
      BY <2>4, RegistersAreDistinct
    <3>2. Reg(Rax) # Reg(IntArgs[j])
      BY <3>1, LocsDiffer
    <3> QED
      BY <2>1, <2>7, <3>2 DEF InRax
  <2>8. CASE InArgReg(v) /\ ~InSlot(v)
    <3>1. ~meta[v].isVar /\ meta[v].calls # {}
      BY <2>2, <2>3, <2>8 DEF WellPlaced, InArgReg
    <3>2. MetaOf(func, v).isVar = \E m \in Indices(func) : \/ func.code[m].op = "var" /\ func.code[m].dst = v
                                                           \/ func.code[m].op = "lea" /\ func.code[m].src[1] = v
      BY DEF MetaOf
    <3>3. ~\E d \in Indices(func) : func.code[d].op = "var" /\ func.code[d].dst = v
      BY <2>3, <3>1, <3>2
    <3>4. CallUses(func, v) # {}
      BY <2>3, <3>1 DEF MetaOf
    <3>5. PICK use \in CallUses(func, v) : TRUE
      BY <3>4
    <3>6. use[1] \in Calls(func) /\ v \in Operands(func.code[use[1]])
      BY <3>5 DEF CallUses, Calls, Operands
    <3> QED
      BY <2>2, <3>3, <3>6
  <2> QED
    BY <2>3, <2>6, <2>7, <2>8 DEF WellPlaced
<1>6. ASSUME NEW k \in 1..n PROVE Get(c, RetReg(k)) = Get(cell, Place(Instr.src[k]))
  <2>1. ASSUME NEW j \in 1..n, j # k PROVE Results[j][2] # Results[k][2] /\ Results[j][2] # Results[k][1]
    <3>1. n > 1 /\ n # 1
      BY <1>4, <2>1
    <3>2. /\ j \in DOMAIN IntArgs /\ k \in DOMAIN IntArgs
          /\ Results[j][2] = Reg(IntArgs[j]) /\ Results[k][2] = Reg(IntArgs[k])
          /\ Results[k][1] = Place(Instr.src[k])
      BY <1>3, <1>4, <3>1
    <3>3. IntArgs[j] # IntArgs[k]
      BY <2>1, <3>2, RegistersAreDistinct
    <3>4. Reg(IntArgs[j]) # Reg(IntArgs[k])
      BY <3>3, LocsDiffer
    <3> QED
      BY <1>5, <3>1, <3>2, <3>4
  <2>2. /\ Len(Results) \in Nat /\ k \in 1..Len(Results)
        /\ \A j \in 1..Len(Results) : k < j => Results[j][2] # Results[k][2]
        /\ \A j \in 1..Len(Results) : j < k => Results[j][2] # Results[k][1]
    BY <1>4, <2>1
  <2>3. Get(c, Results[k][2]) = Get(cell, Results[k][1])
    BY <1>2, <2>2, Arrives DEF c
  <2> QED
    BY <1>3, <1>4, <2>3
<1>7. \A k \in DOMAIN Instr.src : Get(c, RetReg(k)) = val[Instr.src[k]]
  BY <1>1, <1>2, <1>4, <1>6, ContentIs
<1>8. got' = meant'
  BY <1>1, <1>7 DEF Meaning
<1>9. ASSUME NEW v \in VRegs(func) PROVE ~Live(v, Returned)
  <2>1. meta[v].liveEnd \in 0..Len(func.code) /\ Len(func.code) \in Nat
    BY <1>1, Lifetime
  <2> QED
    BY <2>1 DEF Live, Returned
<1>10. func' = func /\ meta' = meta
  BY <1>1 DEF avars
<1>11. \A v \in VRegs(func)' : ~Live(v, pc)'
  BY <1>1, <1>9, <1>10 DEF Live, VRegs
<1> QED
  BY <1>8, <1>11 DEF VInv

\* Entering: what lives from the start is a parameter.
LEMMA PrologueVInv == DoneInv /\ VInv /\ Prologue => VInv'
<1> SUFFICES ASSUME DoneInv, VInv, Prologue PROVE VInv'
  OBVIOUS
<1>1. /\ phase = "done" /\ pc' = 1 /\ UNCHANGED avars /\ got' = got /\ meant' = meant
      /\ cell' = MoveAll(MoveAll(AtEntry, Saves), Copies)
      /\ val' = [k \in Params(func) |-> Arg(k)]
  BY DEF Prologue
<1>2. func' = func /\ meta' = meta /\ loc' = loc
  BY <1>1 DEF avars
<1>3. ASSUME NEW v \in VRegs(func), Live(v, 1)
      PROVE  v \in DOMAIN val' /\ v \in DOMAIN loc /\ Get(cell', loc[v]) = val'[v]
  <2>1. meta[v].def \in Nat /\ meta[v].liveEnd \in Nat
    BY <1>1, Lifetime
  <2>2. meta[v].def = 0 /\ 0 < meta[v].liveEnd
    BY <1>3, <2>1 DEF Live
  <2>3. v \in DOMAIN loc /\ IsUsed(v)
    BY <1>1, <2>2, Lifetime
  <2>4. v \in Params(func)
    BY <1>1, <2>2, <2>3, ResultIs DEF MetaSound, IsUsed
  <2>5. Get(cell', loc[v]) = Arg(v)
    BY <1>1, <2>2, <2>4, Entered
  <2> QED
    BY <1>1, <2>3, <2>4, <2>5
<1>4. ASSUME NEW v, Live(v, pc)' PROVE Live(v, 1)
  BY <1>1, <1>2, <1>4 DEF Live
<1>5. \A v \in VRegs(func)' : Live(v, pc)' => Carried(v)'
  BY <1>2, <1>3, <1>4 DEF Carried, VRegs
<1> QED
  BY <1>1, <1>5 DEF VInv

\* Jumps and instructions without code.
LEMMA MovesOnVInv == DoneInv /\ VInv /\ (Branch \/ Jump \/ NoCode) => VInv'
<1> SUFFICES ASSUME DoneInv, VInv, Branch \/ Jump \/ NoCode PROVE VInv'
  OBVIOUS
<1>1. /\ phase = "done" /\ pc \in Indices(func) /\ UNCHANGED avars /\ cell' = cell /\ val' = val
      /\ Instr.op \in {"cjmp", "jmp", "label", "leave"}
      /\ pc' = pc + 1 \/ (Instr.op \in {"cjmp", "jmp"} /\ pc' = Instr.to)
  BY DEF Branch, Jump, NoCode, Running, Goto, Indices, Silent
<1>2. got' = meant'
  <2>1. CASE Branch
    <3>1. Instr.op = "cjmp"
      BY <2>1 DEF Branch, Running
    <3>2. Content(cell) = Meaning
      BY <1>1, <3>1, ContentIs
    <3> QED
      BY <2>1, <3>2 DEF Branch, Reads
  <2>2. CASE Jump \/ NoCode
    BY <2>2 DEF Jump, NoCode, VInv
  <2> QED
    BY <2>1, <2>2
<1>3. func' = func /\ meta' = meta /\ loc' = loc /\ pc # 0
  BY <1>1, ResultIs, InstrIs DEF avars
<1>4. ASSUME NEW v \in VRegs(func), Live(v, pc') PROVE Carried(v)
  <2>1. CASE pc' = pc + 1
    <3>1. Defines(Instr) = 0 /\ v # 0
      BY <1>1, Lifetime DEF Defines
    <3>2. Live(v, pc)
      BY <1>1, <1>4, <2>1, <3>1, LivesOn
    <3> QED
      BY <1>3, <3>2 DEF VInv
  <2>2. CASE Instr.op \in {"cjmp", "jmp"} /\ pc' = Instr.to
    <3>1. Live(v, pc)
      BY <1>1, <1>4, <2>2, LivesAtJump
    <3> QED
      BY <1>3, <3>1 DEF VInv
  <2> QED
    BY <1>1, <2>1, <2>2
<1>5. ASSUME NEW v, Live(v, pc)' PROVE Live(v, pc')
  BY <1>3, <1>5 DEF Live
<1>6. \A v \in VRegs(func)' : Live(v, pc)' => Carried(v)'
  BY <1>1, <1>3, <1>4, <1>5 DEF Carried, VRegs
<1> QED
  BY <1>2, <1>6 DEF VInv

\* Every instruction reads what the program means and leaves what lives in place.
LEMMA StepVInv ==
  DoneInv /\ EInv /\ VInv /\ RightOperandApart /\ DivisionSparesParams /\ [XNext]_vars => VInv'
<1> SUFFICES ASSUME DoneInv, EInv, VInv, RightOperandApart, DivisionSparesParams, [XNext]_vars
             PROVE  VInv'
  OBVIOUS
<1>1. CASE UNCHANGED vars
  <2>1. UNCHANGED <<func, meta, loc, pc, val, cell, got, meant>>
    BY <1>1 DEF vars
  <2> QED
    BY <2>1 DEF VInv, VRegs, Live, Carried
<1>2. CASE Allocate /\ UNCHANGED xvars
  <2>1. phase # "done" /\ UNCHANGED <<pc, got, meant>>
    BY <1>2, AllocatedOnce DEF xvars
  <2>2. pc' = 0 /\ got' = meant'
    BY <2>1 DEF EInv, VInv
  <2> QED
    BY <2>2 DEF VInv
<1> QED
  BY <1>1, <1>2, PrologueVInv, DefineVInv, UnaryVInv, AddressOfVInv, BinaryVInv, DivideVInv, CompareVInv,
     StoreVInv, UpdateVInv, CallVInv, ReturnVInv, MovesOnVInv DEF XNext, Exec, Finished

\* Where no right operand shares the destination's register and no parameter is in
\* %rax or %rdx across a division, every instruction on every path reads what the
\* program means: these two are all that can go wrong with the allocator's places.
THEOREM ReadsWhatIsMeant == XSpec /\ []RightOperandApart /\ []DivisionSparesParams => []ReadsAsMeant
<1> DEFINE I == DoneInv /\ EInv /\ VInv
<1>1. XInit => I
  BY InitInv DEF XInit, VInv
<1>2. I /\ RightOperandApart /\ DivisionSparesParams /\ [XNext]_vars => I'
  BY StepInv, StepVInv
<1>3. I => ReadsAsMeant
  BY DEF VInv, ReadsAsMeant
<1> HIDE DEF I
<1> QED
  BY <1>1, <1>2, <1>3, PTL DEF XSpec

=============================================================================
