SPECIFICATION FairSpec
CONSTANTS
    Options <- BenchmarkOptions
    MaxEvents = 1
PROPERTIES
    ShutdownLeadsToExit
