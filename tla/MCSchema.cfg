SPECIFICATION Spec
CONSTANTS
  Decls <- MCDecls
  QueryType = "Query"
  MutationType = "Mutation"
  SubscriptionType = "Sub"
  DynQuery = "Query"
  DynMutation = ""
  DynSubscription = "Sub"
  NameOrder <- MCNameOrder
  BaseProgram <- MCBaseProgram
  Drafts <- MCDrafts
  MaxItems = 3
  Touched = {"A", "A2", "J", "In"}
  MaxCalls = 1
  Catalogue <- MCCatalogue
  MaxTypes = 4
  Returned <- MCReturned
INVARIANTS NamesMeanTypes EntitiesAreServed ResolvesWhatItDeclares
  IntrospectionListsWhatItShows SdlReadsBack CheckedSchemasAreUsable ResolvedConforms
CHECK_DEADLOCK FALSE
