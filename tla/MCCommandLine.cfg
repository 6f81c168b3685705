CONSTANTS
  Paths <- MCPaths
  Cwd = "cwd"
  CommandLines <- MCCommandLines
  Systems <- MCSystems
  NULL = NULL
SPECIFICATION Spec
INVARIANTS
  TypeOK
  
  FailureLeavesFiles
  ExistingIsKept
  SilentFromThenOn
