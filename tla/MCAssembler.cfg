CONSTANTS
  EXECUTABLE_SIZE = 4
  Radix = 4
  WordMax = 127
  IntMax = 127
  Programs <- MCPrograms
  Names <- MCNames
  Numerals <- MCNumerals
  NumeralValue <- MCNumeralValue
  Upper <- MCUpper
  None = None
  INIT_CAPACITY = 2
  FNV1A_PRIME = 435
  Fnv1a <- MCFnv1a
  NULL = NULL
  Stray = Stray
  Wild = Wild
SPECIFICATION FairSpec
INVARIANTS
  TypeOK
  ImagesAreStorable
  NeverSpins
  TwoThingsSlipThrough
PROPERTIES
  AssemblesTheLanguage
  Finishes
