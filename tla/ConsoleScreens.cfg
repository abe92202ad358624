CONSTANTS
  NumTerm = 2
  NUM_COLS = 2
  NUM_ROWS = 2
  Glyphs = {"a"}
  MaxPrinted = 3
SPECIFICATION MCSpec
INVARIANTS
  TypeOK
  TerminalsShowTheirText
CONSTRAINT SomeRight
