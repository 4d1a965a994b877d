\* Moves, calls, ways out and loops over arrays; lowered conditions; arrays of every kind.
SPECIFICATION MCSpec
CONSTANTS
  Leaves <- LeafNames
  Trees <- TreeNames
  Keys = {"i", "j"}
  Slots <- TwoSlots
  Jobs <- MCJobs
  MaxTurns = 2
  Lowered <- AllPrograms
  Elems <- Elements
  MaxCalls = 3
  MaxLen = 5
  Kinds = {"moves", "calls", "exits", "ranges", "none"}
INVARIANTS TypeOK TouchesAlive ReleasesOnce NothingLeaks OneOwner RangeStays
  RunsAsWritten TempsLive BlocksOwned
PROPERTY KeepsLists
CHECK_DEADLOCK FALSE
