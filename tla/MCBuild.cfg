\* Every import graph, one run; two runs that import one module; a process.
SPECIFICATION MCSpec
CONSTANTS
  Modules = {"a", "b", "c", "d"}
  Runs = {"r1", "r2"}
  SourceOf <- TwoSources
  ToFile = {}
  DirOf <- TwoDirs
  Programs <- Together
INVARIANTS
  TypeOK
  ImportsAreFound
  WholeProgram
  AloneBuildsItsOwn
PROPERTIES
  PalanRunSpec
  ReturnsAll
