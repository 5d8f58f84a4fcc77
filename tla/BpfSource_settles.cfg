SPECIFICATION FairSpec
CONSTANTS
    MaxPid = 2
    MaxUses = 2
    Names <- AllNames
    Prefixes <- AllPrefixes
    Images <- AllImages
    MaxFailures = 2
    CacheSize = 1
    Readers = {"scan", "worker"}
    Word = 32
    NsPerUs = 2
    MaxCpus = 2
    Scenes <- AllScenes
INVARIANTS
    TypeOK
    BudgetIsOwn
    ResolvesProgram
    IntervalThinsBursts
PROPERTIES
    SourceSettles
