\* Two runs on sources of one directory, both with allocators.
SPECIFICATION MCSpec
CONSTANTS
  Modules = {"a", "b"}
  Runs = {"r1", "r2"}
  SourceOf <- TwoSources
  ToFile = {}
  DirOf <- OneDir
  Programs <- BothNeed
INVARIANT LinksItsOwn
