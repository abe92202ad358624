CONSTANTS
  DATA_SIZE = 2
  MaxLength = 4
  MaxCount = 4
  Files = {f1, f2}
  Fds = {a, b}
SPECIFICATION FairSpec
INVARIANTS
  ReadsFollowEachOther
  PositionsInFile
  LoadsWholeProgram
PROPERTY ReadsToTheEnd
