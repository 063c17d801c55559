CONSTANTS
  plain = plain
  wide = wide
  seeded = seeded
  nomic = nomic
  other = other
  None = None
  Torn = Torn
  Inputs = {plain, wide, seeded}
  Explicit = {wide, seeded}
  DataOf <- MCDataOf
  PrefixOf <- MCPrefixOf
  Rows = 7
  BatchSize = 2
  Window = 3
  Faults = 4
SPECIFICATION FairSpec
INVARIANTS
  CacheWhole
  ReturnsItsOwn
PROPERTIES
  ImplementsJob
  WorkFinishes
