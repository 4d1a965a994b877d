---------------------------- MODULE ParallelMove ----------------------------
(***************************************************************************)
(* What a shuffle of register arguments promises: every destination gets   *)
(* the value its source held before the shuffle, all at once, and no other *)
(* register changes.  RegMoves shows that the one-at-a-time code emitted   *)
(* by PlnX86Call.cpp implements it.                                        *)
(***************************************************************************)
EXTENDS Naturals

CONSTANTS Reg,       \* the registers a caller sees (the emitter's scratch is not one)
          Slot,      \* stack slots a source may be read from
          MaxMoves   \* bound on the moves of one shuffle

Move == [src : Reg \cup Slot, dst : Reg]

\* The shuffles a call site can ask for: no two moves share a destination.
Shuffles(n) == {m \in [1..n -> Move] :
                  \A j, k \in 1..n : m[j].dst = m[k].dst => j = k}

VARIABLES want,   \* the shuffle
          file,   \* the register file: each register's content
          made    \* has the shuffle been made?

vars == <<want, file, made>>

\* Contents are named by the location that held them before the shuffle.
Untouched == [r \in Reg |-> r]

Shuffled(m) ==
  [r \in Reg |-> IF \E k \in DOMAIN m : m[k].dst = r
                 THEN m[CHOOSE k \in DOMAIN m : m[k].dst = r].src
                 ELSE r]

\* A shuffle without moves is made by doing nothing.
Init == /\ \E n \in 0..MaxMoves : want \in Shuffles(n)
        /\ file = Untouched
        /\ made = (DOMAIN want = {})

MakeAll == /\ ~made
           /\ file' = Shuffled(want)
           /\ made' = TRUE
           /\ UNCHANGED want

Spec == Init /\ [][MakeAll]_vars /\ WF_vars(MakeAll)
=============================================================================
