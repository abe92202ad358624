CONSTANTS
  NumTerm = 2
  MaxPower = 3
  MaxCount = 4
SPECIFICATION Spec
INVARIANTS
  TypeOK
  ChipKeepsRate
  ReadsWait
  RatesHold
PROPERTY ReadsReturn
