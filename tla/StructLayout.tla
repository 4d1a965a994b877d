---------------------------- MODULE StructLayout ----------------------------
(***************************************************************************)
(* The layout of a struct or union, and of C's bit-fields in it.           *)
(***************************************************************************)
EXTENDS Integers, Sequences, SequencesExt, FiniteSetsExt

\* A member is a value of a size and an alignment or, if bits # -1, a
\* bit-field whose type has that alignment; packed and aligned are GCC's
\* attributes.
Member(size, align) ==
  [size |-> size, align |-> align, bits |-> -1, named |-> TRUE, packed |-> FALSE, aligned |-> 1]
BitField(width, align) == [Member(0, align) EXCEPT !.bits = width, !.named = width # 0]

AlignUp(n, align) == ((n + align - 1) \div align) * align

\* (as if a bit-field could begin at any bit)
PlaceAnywhere(bitPos, width, align, packed) ==
  IF width = 0 THEN AlignUp(bitPos, align * 8) ELSE bitPos

\* placeCBitField: where a bit-field starts whose predecessor ends at bitPos.
PlaceCBitField(bitPos, width, align, packed) ==
  LET unit == align * 8
      straddles == bitPos \div unit # (bitPos + width - 1) \div unit
  IN  IF width = 0 \/ (~packed /\ straddles) THEN AlignUp(bitPos, unit) ELSE bitPos

\* What buildStructDef keeps from member to member: tail is the unused bits of
\* the last byte; at, the bit each member starts at.
Empty(aligned) == [offset |-> 0, maxAlign |-> aligned, tail |-> 0, unaligned |-> FALSE, at |-> << >>]

PlaceBits(s, f, union, packed) ==
  LET isPacked == packed \/ f.packed
      at == IF union THEN 0
            ELSE PlaceCBitField(s.offset * 8 - s.tail, f.bits, f.align, isPacked)
      end == (at + f.bits + 7) \div 8
  IN  [s EXCEPT !.offset = IF union THEN Max({@, end}) ELSE end,
                !.tail = IF union THEN @ ELSE end * 8 - (at + f.bits),
                !.maxAlign = IF f.named /\ ~isPacked THEN Max({@, f.align}) ELSE @,
                !.at = Append(@, at)]

PlaceValue(s, f, union, packed) ==
  LET align == Max({IF packed \/ f.packed THEN 1 ELSE f.align, f.aligned})
      at == IF union THEN 0 ELSE AlignUp(s.offset, align)
  IN  [s EXCEPT !.offset = IF union THEN Max({@, f.size}) ELSE at + f.size,
                !.tail = 0,
                !.maxAlign = Max({@, align}),
                !.unaligned = @ \/ (~union /\ at % f.align # 0),
                !.at = Append(@, at * 8)]

\* buildStructDef's layout of members in this order.
Layout(members, union, packed, aligned) ==
  LET s == FoldLeft(LAMBDA s, f : IF f.bits # -1 THEN PlaceBits(s, f, union, packed)
                                  ELSE PlaceValue(s, f, union, packed),
                    Empty(aligned), members)
  IN  [size |-> AlignUp(s.offset, s.maxAlign), align |-> s.maxAlign, at |-> s.at,
       unaligned |-> s.unaligned]
=============================================================================
