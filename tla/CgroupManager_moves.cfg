SPECIFICATION Spec
CONSTANTS
  Pids = {1}
  MaxStart = 2
  Hosts <- AllHosts
INVARIANTS
  TypeOK
  ForeignUntouched
  
  
