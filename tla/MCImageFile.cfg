CONSTANTS
  EXECUTABLE_SIZE = 4
  EXT_SUPPORTED_VERSION = 0
  Images <- MCImages
  Versions = {0, 1, 256}
  Junk <- MCJunk
  NULL = NULL
SPECIFICATION Spec
INVARIANTS
  TypeOK
  LoadedIsWritten
  ImagesThatFitLoad
