CONSTANTS
    Field <- MCField
    Root = "root"
    Parent <- MCParent
    Key <- MCKey
    Rank <- MCRank
    Kind <- MCKind
    Optional = {"a1", "a2", "m", "i1", "i2"}
SPECIFICATION FairSpec
INVARIANTS
    TypeOK
    NoSilentHole
    OrderDoesNotMatter
    MutationIsSerial
PROPERTIES
    Answered
CHECK_DEADLOCK FALSE
