CONSTANTS
  MaxProc = 4
  NumTerm = 2
  NumFd = 3
  MayFault = TRUE
  MayVidmap = TRUE
SPECIFICATION Spec
INVARIANTS
  TypeOK
  CpuCoherent
  VideoFrames
  VidmapFlagsAgree
  ConsoleOpen
PROPERTY ImplementsJobControl
