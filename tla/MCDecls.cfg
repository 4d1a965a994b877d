SPECIFICATION MCSpec
CONSTANTS
  Programs <- MCPrograms
  Families <- Accepted
INVARIANTS
  TypeOK
  TakesWhatIsThere
  CyclesAreCircular
  OrderFree
  WholeAndAlike
  LaidOutAsC
  OneMeaning
  SymbolsTellApart
  ReadOnlyStays
  SetWhenUsed
PROPERTY
  ResolutionEnds
