SPECIFICATION Spec
CONSTANTS
  Types <- MCTypes
  Definitions <- MCDefinitions
  Selections <- MCSelections
  Requests <- MCRequests
  Drafts <- MCPrivateDraft
  Modes = {"Strict"}
  RecursiveDepth = 4
  MaxDirectives = 1
  LimitComplexity = 3
  LimitDepth = 2
INVARIANT CacheCoversFields
CHECK_DEADLOCK FALSE
