------------------------------ MODULE LayoutAsC ------------------------------
(***************************************************************************)
(* The layout of a struct, against what the C ABI says of it: each member  *)
(* starts where the one before it ends, or at the first place after that   *)
(* where it fits.                                                          *)
(***************************************************************************)
EXTENDS StructLayout

VARIABLE cstruct    \* members, union, packed, aligned

LaidOut == Layout(cstruct.members, cstruct.union, cstruct.packed, cstruct.aligned)

IsPacked(f) == cstruct.packed \/ f.packed
AlignIn(f) == IF f.bits # -1 THEN IF f.named /\ ~IsPacked(f) THEN f.align ELSE 1
              ELSE Max({IF IsPacked(f) THEN 1 ELSE f.align, f.aligned})
Bits(f) == IF f.bits # -1 THEN f.bits ELSE 8 * f.size

\* A bit-field lies in one unit of its type; the one of no width ends a unit.
Fits(f, at) ==
  LET unit == 8 * f.align
  IN  IF f.bits = -1 THEN at % (8 * AlignIn(f)) = 0
      ELSE IF f.bits = 0 THEN at % unit = 0
      ELSE IsPacked(f) \/ at \div unit = (at + f.bits - 1) \div unit

\* A C struct lies in memory as a C compiler lays it out: its members start
\* where they must, and its size and alignment are what an array of it needs.
LaidOutAsC ==
  LET ms == cstruct.members
      at == LaidOut.at
      from(i) == IF cstruct.union \/ i = 1 THEN 0 ELSE at[i - 1] + Bits(ms[i - 1])
      end == Max({0} \cup {at[i] + Bits(ms[i]) : i \in DOMAIN ms})
  IN  /\ \A i \in DOMAIN ms : /\ at[i] >= from(i) /\ (cstruct.union \/ Fits(ms[i], at[i]))
                              /\ \A p \in from(i)..at[i] - 1 : ~cstruct.union /\ ~Fits(ms[i], p)
      /\ LaidOut.align = Max({cstruct.aligned} \cup {AlignIn(ms[i]) : i \in DOMAIN ms})
      /\ LaidOut.size % LaidOut.align = 0
      /\ 8 * LaidOut.size >= end /\ 8 * (LaidOut.size - LaidOut.align) < end
      /\ LaidOut.unaligned <=> \E i \in DOMAIN ms : ms[i].bits = -1 /\ at[i] % (8 * ms[i].align) # 0
=============================================================================
