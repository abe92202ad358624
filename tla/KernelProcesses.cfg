CONSTANTS
  MaxProc = 5
  NumTerm = 3
  NumFd = 2
  MayFault = FALSE
  MayVidmap = FALSE
SPECIFICATION Spec
INVARIANTS
  SlotsAccounted
  CallersWait
  TerminalsKeepAProcess
PROPERTIES
  TerminalsIndependent
  ExecuteReturnsToCaller
