SPECIFICATION Spec
CONSTANTS
    Attempts = 2
    Workaround = {TRUE}
INVARIANTS
    RetriesRedetect
