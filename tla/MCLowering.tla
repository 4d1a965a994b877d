----------------------------- MODULE MCLowering -----------------------------
(***************************************************************************)
(* Conditions of up to three operands, in branches and loops; calls that   *)
(* take temporaries.                                                       *)
(***************************************************************************)
EXTENDS Lowering

A == Read("a")
T(k) == TempOf(k, "t", << >>)
Takes(k) == CallOf("f", <<T(k)>>)
\* Operands: a variable, a call that takes a temporary, or one of the result of another.
Operands(k) == {A, Takes(k), CallOf("g", <<BorrowOf("f", <<T(k)>>)>>), CallOf("f", <<TempOf(k, "t", <<T(k + 1)>>)>>)}
Joined(S, R) == {And(a, b) : a \in S, b \in R} \cup {Or(a, b) : a \in S, b \in R}
WithNot(S) == S \cup {Not(a) : a \in S}
Deep == Joined(WithNot(Joined({A, Takes(1)}, {Read("b")})), WithNot({Takes(5)}))
        \cup Joined(WithNot({Takes(1)}), WithNot(Joined({Read("b")}, {Read("c"), Takes(5)})))
Two == Operands(1) \cup Joined({A, Takes(1)}, WithNot({Read("b"), Takes(3)}))
Conds == WithNot(Operands(1)) \cup Joined(WithNot(Operands(1)), {Read("b"), Not(Read("b")), Takes(3)}) \cup WithNot(Deep)

Programs ==
  <<{<<Return(A)>>},
    {<<Do(c), Return(Takes(1))>> : c \in Conds} \cup {<<Return(c)>> : c \in Conds},
    {<<If(c, <<Do(CallOf("h", << >>))>>, e), Do(A)>> : c \in Conds, e \in {<< >>, <<Do(Takes(7))>>}},
    {<<While(c, <<If(Read("d"), w, << >>), Do(CallOf("h", <<T(8), T(9)>>))>>), Do(A)>> :
       c \in WithNot(Two), w \in {<<Break>>, <<Continue>>, <<Return(Takes(7))>>}},
    {<<Do(CallOf("h", <<x, y>>))>> : x \in {A, And(A, Takes(3)), Takes(3)}, y \in Operands(1)},
    {<<Do(CallOf("h", <<x, y>>))>> : x \in Operands(1), y \in Joined({A}, {A, Takes(3)})}>>
\* A temporary given before an argument that short-circuits.
EarlyPrograms == <<{<<Do(CallOf("h", <<T(1), c>>))>> : c \in Joined({A}, {A, Takes(3)})}>>
NoPrograms == <<{<<Return(A)>>}>>
NothingLowered == code[1] = <<Return(A)>>
=============================================================================
