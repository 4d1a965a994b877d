\* Calls, loops, arithmetic, spills and blocks with one callee-saved register.
SPECIFICATION MCSpec
CONSTANTS
  IntArgs <- ArgRegs
  CalleeSaved <- OneSaved
  Rax = "rax"
  Rdx = "rdx"
  Funcs <- GenFuncs
  MaxTurns = 2
  Regs <- MovedRegs
  Scratch = "r11"
  Slot <- StackArg
  MaxMoves = 4
  Kinds = {"calls", "loop", "arith", "updates", "spills", "blocks"}
INVARIANTS TypeOK ReadsAsMeant CalleeSavedKept AliveApart FrameHolds PendingSourcesIntact
PROPERTY MovesAtOnce
