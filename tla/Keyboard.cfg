CONSTANTS
  NumTerm = 2
  BUF_SIZE = 2
  LetterKeys = {"a"}
  SymbolKeys = {}
  ModKeys = {"LSHIFT", "CAPS", "ALT", "CTRL"}
SPECIFICATION Spec
INVARIANTS
  TypeOK
  LineEnds
  ModifiersMatchKeys
PROPERTIES
  ImplementsLineEditor
  CapsTogglesOncePerPress
