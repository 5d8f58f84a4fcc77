SPECIFICATION Spec
CONSTANTS
  Names = {"a", "b", "c", "long"}
  LongNames = {"long"}
  Patterns = {"p", "q", "bad"}
  BadPatterns = {"bad"}
  Matches <- MCMatches
  Disks <- MCDisks
  LoadFlags <- AnyLoaded
  CacheCap = 2
  U16Max = 4
  I32Bits = 4
  MaxReloads = 1
  MaxLines = 2
INVARIANTS
  TypeOK
  AnswerFollowsFiles
  IndexAndCacheInStep
