CONSTANTS
  MaxProc = 3
  NumTerm = 1
  NumFd = 4
  MayFault = FALSE
  MayVidmap = FALSE
SPECIFICATION Spec
PROPERTY FilesKept
