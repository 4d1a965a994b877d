\* A call's result replaces what the call reads.
SPECIFICATION MCSpec
CONSTANTS
  Leaves <- LeafNames
  Trees <- TreeNames
  Keys = {"i", "j"}
  Slots <- TwoSlots
  Jobs <- MCJobs
  MaxTurns = 2
  Lowered <- NoPrograms
  Elems = {}
  MaxCalls = 3
  MaxLen = 5
  Kinds = {"reuse"}
INVARIANT TouchesAlive
CHECK_DEADLOCK FALSE
