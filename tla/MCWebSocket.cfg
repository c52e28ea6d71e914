CONSTANTS
    Id = {"a", "b"}
    Protocols = {"SubscriptionsTransportWS", "GraphQLWS"}
    MaxSent = 4
    MaxQueued = 2
SPECIFICATION FairSpec
INVARIANTS
    TypeOK
    NoLostWakeup
    OneCallback
PROPERTIES
    ImplementsSession
    MessagesAreRead
    DisconnectEnds
CHECK_DEADLOCK FALSE
