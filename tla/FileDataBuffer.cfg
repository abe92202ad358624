CONSTANTS
  DATA_SIZE = 2
  MaxLength = 5
  MaxCount = 5
  Files = {f1}
  Fds = {a}
SPECIFICATION Spec
INVARIANT CopiesNoMore
