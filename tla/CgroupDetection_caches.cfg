SPECIFICATION FairSpec
CONSTANTS
    Attempts = 2
    Workaround = {TRUE, FALSE}
INVARIANTS
    TypeOK
    ManagerBuiltAfterReset
PROPERTIES
    PublishedUntilReset
    StartupCompletes
