CONSTANTS
  EXECUTABLE_SIZE = 14
  Radix = 14
  WordMax = 255
  IntMax = 255
  Programs <- MCPrograms
  Names <- MCNames
  Numerals <- MCNumerals
  NumeralValue <- MCNumeralValue
  Upper <- MCUpper
  None = None
  INIT_CAPACITY = 4
  FNV1A_PRIME = 435
  Fnv1a <- MCFnv1a
  NULL = NULL
  Stray = Stray
  Wild = Wild
  Garbage = {0, 200}
  Inputs <- MCInputs
SPECIFICATION LMCSpec
INVARIANT MemoryStaysDecimal
PROPERTY ObeysItsLines
