SPECIFICATION FairSpec
CONSTANTS
    MaxPid = 3
    Names = {"sh", "app"}
    MaxUses = 1
    Scenes <- AllScenes
INVARIANTS
    TypeOK
    NoRedundantReport

    
    
