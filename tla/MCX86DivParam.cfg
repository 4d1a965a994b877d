\* A parameter left in %rdx across a division.
SPECIFICATION MCSpec
CONSTANTS
  IntArgs <- ArgRegs
  CalleeSaved <- OneSaved
  Rax = "rax"
  Rdx = "rdx"
  Funcs <- GenFuncs
  MaxTurns = 2
  Regs <- MovedRegs
  Scratch = "r11"
  Slot <- StackArg
  MaxMoves = 0
  Kinds = {"div_param"}
INVARIANTS DivisionSparesLiveValues
