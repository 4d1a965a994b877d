\* Arithmetic on parameters: the destination shares the right operand's register.
SPECIFICATION MCSpec
CONSTANTS
  IntArgs <- ArgRegs
  CalleeSaved <- OneSaved
  Rax = "rax"
  Rdx = "rdx"
  Funcs <- GenFuncs
  MaxTurns = 2
  Regs <- MovedRegs
  Scratch = "r11"
  Slot <- StackArg
  MaxMoves = 0
  Kinds = {"alias"}
INVARIANTS ReadsAsMeant
