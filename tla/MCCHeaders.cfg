SPECIFICATION MCSpec
CONSTANTS
  Names <- N
  Numbers = {"0", "1"}
  Functions = {"g"}
  Programs <- AllPrograms
INVARIANTS GroupsAsC ExpandsAsC FoldsAsC FoldsAsRun ExpectedTypeTold
PROPERTY Ends
