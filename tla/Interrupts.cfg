CONSTANTS
  Proc = {p1, p2}
  p1 = p1
  First = p1
  Stray = {9}
  MaxNested = 2
SPECIFICATION Spec
INVARIANTS TypeOK InServiceHasHandler WaitingHandlersAreDone NoDeviceStuck
PROPERTIES Served
