SPECIFICATION Spec
CONSTANTS
  MaxLevel = 2
  Default = 1
  Files = 2
  Edits = {"conf", "rules"}
  MaxEdits = 2
  MaxReloads = 2
INVARIANTS
  TypeOK
PROPERTIES
  ChangesAreRead
  ReloadTakesEffect
