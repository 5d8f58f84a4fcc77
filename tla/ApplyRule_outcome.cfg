SPECIFICATION Spec
CONSTANTS
    Tids = {l, t1}
    Leader = l
    MaxAttributes = 3
    Rules <- MCRules
    Configs <- MCConfigs
INVARIANTS
    TypeOK
    LoggedMeansApplied
PROPERTIES
    ImplementsOutcome
