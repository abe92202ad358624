CONSTANTS
  MaxProc = 3
  NumTerm = 2
  NumFd = 2
  MayFault = FALSE
  MayVidmap = TRUE
SPECIFICATION Spec
INVARIANT VidmapStays
