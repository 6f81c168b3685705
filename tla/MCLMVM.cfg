CONSTANTS
  EXECUTABLE_SIZE = 6
  Radix = 6
  WordMax = 63
  IntMax = 127
  Images <- MCImages
  Garbage = {0, 31}
  Inputs <- MCInputs
  None = None
SPECIFICATION FairSpec
INVARIANTS
  TypeOK
  FreshInstruction
  OneReadPastTheEnd
  CellsStayStorable
PROPERTIES
  ErrorIsFinal
  IsALittleMan
  ForwardProgramsFinish
