CONSTANTS
  Letters = {"a", "b"}
  Garbage = {"b"}
  Entries <- MCEntries
  NameLen = 2
  MaxLine = 4
  MaxPassed = 3
  ArgLen = 5
  BufLen = 4
  MaxProc = 3
SPECIFICATION Spec
INVARIANTS
  ProgramsFollowNames
  ArgumentsAreOwn
  CatOpensNamedFile
