SPECIFICATION FairSpec
CONSTANTS
    Options <- AllOptions
    MaxEvents = 2
INVARIANTS
    TypeOK
    WorkerOutlivesProducers
    GracefulExitDrains
    GracefulExitRestoresX3D
PROPERTIES
    TermLeadsToExit
