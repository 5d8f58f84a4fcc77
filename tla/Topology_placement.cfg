SPECIFICATION Spec
CONSTANTS
    ByteBits = 2
    U32 = 16
    Tids <- TwoTids
    Scenes <- AllScenes
INVARIANTS
    TypeOK
    LlcAliasesAreTheCaches
    TiersAreOrdered
    
    EveryThreadPlaced
    FailureIsTrue
CHECK_DEADLOCK FALSE
