\* Two rows of one array, at indexes that may be equal, given in one call.
SPECIFICATION MCSpec
CONSTANTS
  Leaves <- LeafNames
  Trees <- TreeNames
  Keys = {"i", "j"}
  Slots <- TwoSlots
  Jobs <- MCJobs
  MaxTurns = 2
  Lowered <- NoPrograms
  Elems = {}
  MaxCalls = 3
  MaxLen = 5
  Kinds = {"given"}
INVARIANT ReleasesOnce
CHECK_DEADLOCK FALSE
