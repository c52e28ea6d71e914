SPECIFICATION Spec
CONSTANTS
  Types <- MCTypes
  Definitions <- MCDefinitions
  Selections <- MCSelections
  Requests <- MCRequests
  Drafts <- MCDrafts
  Modes = {"Strict", "Fast"}
  RecursiveDepth = 4
  MaxDirectives = 1
  LimitComplexity = 3
  LimitDepth = 2
INVARIANTS WalksEnd StrictIsSound LimitsBoundTheWork CollectsWhatIsPrescribed LookAheadCovers
CHECK_DEADLOCK FALSE
