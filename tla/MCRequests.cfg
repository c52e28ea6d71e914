CONSTANTS
    Request = {"r1", "r2"}
    Order <- MCOrder
    Text <- MCText
    Doc <- MCDoc
    Input <- MCInput
    Chain <- MCChain
    UserHooks = {"parse_query", "execute"}
    Limits <- MCLimits
    SchemaKinds = {"static", "dynamic", "no_subscription"}
    Cap = 1
    MaxEvents = 1
    MaxBeats = 1
SPECIFICATION MCSpec
INVARIANTS
    OnlyAdmittedRuns
    RegisteredIsFound
    BatchIsSound
    ErrorsSentOnce
    BodyWellFormed
PROPERTIES
    BatchAnswered
CHECK_DEADLOCK FALSE
