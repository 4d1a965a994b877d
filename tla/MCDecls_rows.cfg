SPECIFICATION MCSpec
CONSTANTS
  Programs <- MCPrograms
  Families <- RowsOnly
INVARIANT
  OrderFree
