------------------------------- MODULE MCVarr -------------------------------
(***************************************************************************)
(* Elements of every kind, and rows and structs that own others.           *)
(***************************************************************************)
EXTENDS Varr

Elements ==
  {Prim, EmbedStruct, Struct(<< >>), Struct(<<Row(2, Prim), VarrOf(Prim)>>), VarrOf(Prim), VarrOf(Row(1, Prim)),
   Row(2, Prim), Row(1, Struct(<<VarrOf(Prim)>>)), Row(2, EmbedStruct), EmbedRow(2, Prim), EmbedRow(2, EmbedStruct),
   EmbedRow(2, Struct(<< >>)), EmbedRow(2, EmbedRow(1, Row(1, Prim)))}
=============================================================================
