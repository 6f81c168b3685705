CONSTANTS
  a = a
  b = b
  c = c
  d = d
  Labels = {a, b, c, d}
  Addresses = {1, 2, 3, 4, 5}
  INIT_CAPACITY = 2
  FNV1A_PRIME = 435
  Fnv1a <- MCFnv1a
  ValuesFor <- MCValuesFor
  Aliases = {a}
  MaxSets = 5
  NULL = NULL
  Stray = Stray
  Wild = Wild
SPECIFICATION Spec
PROPERTY GrowthKeepsEntries
