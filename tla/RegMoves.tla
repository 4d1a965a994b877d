------------------------------ MODULE RegMoves ------------------------------
(***************************************************************************)
(* emitSafeRegMoves (src/codegen/PlnX86Call.cpp): the moves into distinct  *)
(* registers that a call's arguments (or a call's results) need, emitted   *)
(* one after the other so that none destroys a register another one still  *)
(* has to read.  The emitted code is straight-line, so each instruction is *)
(* executed here as it is emitted: regs is the machine's register file at  *)
(* the point of the code emitted so far.                                   *)
(*                                                                         *)
(* One action per turn of the inner loop (the move under the cursor is     *)
(* done, needed, or emitted) and one per end of pass.  Operand widths are  *)
(* left out: a move reads the whole of its source.                         *)
(***************************************************************************)
EXTENDS Naturals, FiniteSets

CONSTANTS Regs,       \* registers a move may read or write
          Scratch,   \* the emitter's scratch register, %r11
          Slot,      \* stack slots a source may be read from (srcBase empty)
          MaxMoves   \* bound on the moves of one shuffle

ASSUME ScratchIsNotAReg == Scratch \notin Regs \cup Slot
ASSUME RegsAreNotSlots == Regs \cap Slot = {}
ASSUME MaxMovesIsNat == MaxMoves \in Nat

VARIABLES want,      \* the moves as the caller queued them
          moves,     \* the moves as the emitter has rewritten their sources
          done,      \* done[i]: the indices whose move has been emitted
          cursor,    \* the inner loop's i, counted from 1
          progress,  \* has this pass emitted a move?
          regs       \* the register file after the code emitted so far

movesVars == <<want, moves, done, cursor, progress, regs>>

-----------------------------------------------------------------------------

RegOrScratch == Regs \cup {Scratch}

\* Contents are named by the location that held them before the shuffle.
Contents == Regs \cup Slot \cup {Scratch}

\* No two moves share a destination: argument registers are distinct, and so
\* are the locations of values alive together.
Shuffles(n) == {m \in [1..n -> [src : Regs \cup Slot, dst : Regs]] :
                  \A j, k \in 1..n : m[j].dst = m[k].dst => j = k}

Pending == DOMAIN want \ done

Val(src) == IF src \in RegOrScratch THEN regs[src] ELSE src

\* Mutation: only the moves after k are asked whether they still read it.
NeededByLater(k) == \E j \in {j \in Pending : j > k} : moves[j].src = moves[k].dst

\* needed: another pending move still reads the register move k writes.
Needed(k) == \E j \in Pending \ {k} : moves[j].src = moves[k].dst

-----------------------------------------------------------------------------

MovesInit ==
  /\ \E n \in 0..MaxMoves : want \in Shuffles(n)
  /\ moves = want
  /\ done = {}
  /\ cursor = 1
  /\ progress = FALSE
  /\ regs = [r \in RegOrScratch |-> r]

InPass == cursor \in DOMAIN want

\* if (done[i]) continue, and a move whose destination is still needed.
PassOver ==
  /\ InPass
  /\ cursor \in done \/ Needed(cursor)
  /\ cursor' = cursor + 1
  /\ UNCHANGED <<want, moves, done, progress, regs>>

\* The move goes out; one from a register to itself changes nothing.
Emit ==
  /\ InPass
  /\ cursor \notin done
  /\ ~Needed(cursor)
  /\ regs' = [regs EXCEPT ![moves[cursor].dst] = Val(moves[cursor].src)]
  /\ done' = done \cup {cursor}
  /\ progress' = TRUE
  /\ cursor' = cursor + 1
  /\ UNCHANGED <<want, moves>>

EndOfPass == cursor = Cardinality(DOMAIN want) + 1 /\ Pending # {}

NextPass ==
  /\ EndOfPass
  /\ progress
  /\ cursor' = 1
  /\ progress' = FALSE
  /\ UNCHANGED <<want, moves, done, regs>>

FirstPending == CHOOSE i \in Pending : \A j \in Pending : i <= j

\* Mutation: the moves still name the register that was stashed.
RedirectedNot(d) == moves

\* Every pending move whose source is register d reads the scratch instead.
Redirected(d) ==
  [j \in DOMAIN moves |-> IF j \in Pending /\ moves[j].src = d
                          THEN [moves[j] EXCEPT !.src = Scratch]
                          ELSE moves[j]]

\* if (!progress): only cycles are left; the first pending move's destination
\* is stashed in the scratch for the moves that still read it.
BreakCycle ==
  /\ EndOfPass
  /\ ~progress
  /\ LET d == moves[FirstPending].dst
     IN  /\ regs' = [regs EXCEPT ![Scratch] = regs[d]]
         /\ moves' = Redirected(d)
  /\ cursor' = 1
  /\ progress' = FALSE
  /\ UNCHANGED <<want, done>>

MovesNext == PassOver \/ Emit \/ NextPass \/ BreakCycle

MovesSpec == MovesInit /\ [][MovesNext]_movesVars /\ WF_movesVars(MovesNext)

-----------------------------------------------------------------------------

\* Types of the emitter's state and of the machine's registers.
MovesTypeOK ==
  /\ \E n \in 0..MaxMoves : want \in Shuffles(n)
  /\ moves \in [DOMAIN want -> [src : RegOrScratch \cup Slot, dst : Regs]]
  /\ done \in SUBSET DOMAIN want
  /\ cursor \in 1..(Cardinality(DOMAIN want) + 1)
  /\ progress \in BOOLEAN
  /\ regs \in [RegOrScratch -> Contents]

\* However the moves chain, fan out and cycle, a move that has not been
\* emitted can still read the value its source had before the shuffle.
PendingSourcesIntact == \A k \in Pending : Val(moves[k].src) = want[k].src

\* An emitted move's destination keeps the value the move put there: no later
\* move of the shuffle, and no stashing, overwrites it.
EmittedStay == \A k \in done : regs[want[k].dst] = want[k].src

\* There is one scratch for any number of cycles: whenever a pass ends
\* without progress, so that the scratch is about to be filled, no pending
\* move still waits to read it.
ScratchIsFree ==
  EndOfPass /\ ~progress => \A k \in Pending : moves[k].src # Scratch

\* The code emitted one move at a time is the simultaneous assignment of
\* ParallelMove, and the emitter's loop ends.
PM == INSTANCE ParallelMove
        WITH Reg <- Regs, file <- [r \in Regs |-> IF Pending = {} THEN regs[r] ELSE r],
             made <- Pending = {}

MovesAtOnce == PM!Spec
=============================================================================
