SPECIFICATION Spec
CONSTANTS
    p1 = p1
    p2 = p2
    p3 = p3
    Empty = Empty
    Pids = {p1, p2, p3}
    Programs = {"start", "reload", "force", "other"}
    MaxObjects = 3
SYMMETRY PidSymmetry
INVARIANTS
    TypeOK
    OneDaemon
    ObjectNamesItsCreator
