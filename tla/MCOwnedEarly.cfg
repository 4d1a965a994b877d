\* A temporary given before an argument that short-circuits.
SPECIFICATION MCSpec
CONSTANTS
  Leaves <- LeafNames
  Trees <- TreeNames
  Keys = {"i", "j"}
  Slots <- TwoSlots
  Jobs <- MCJobs
  MaxTurns = 2
  Lowered <- EarlyPrograms
  Elems = {}
  MaxCalls = 3
  MaxLen = 5
  Kinds = {"none"}
INVARIANT TempsLive
CHECK_DEADLOCK FALSE
