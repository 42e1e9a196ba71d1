SPECIFICATION Spec
INVARIANTS CellsAgreeUnlessUpdatesCollide FileAgreesUnlessExcused
PROPERTY NobodyIsOverwritten
CONSTANTS
  Texts <- MCTexts
  Parse <- MCParse
  Default <- MCDefault
  Empty = Empty
  Torn = Torn
  Handlers = {h1, h2}
  None = None
SYMMETRY Symmetry
CHECK_DEADLOCK FALSE
