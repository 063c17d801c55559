CONSTANTS
  nomic = nomic
  other = other
  None = None
  Torn = Torn
  Settings <- MCSettings
  Blocks = 2
  Faults = 2
  Stages <- MCStages
  Builds = {"native-build"}
  Wanted <- MCWanted
SPECIFICATION Spec
INVARIANTS
  ManifestHonest
  OneIndexMeasured
  MeasuredAgainstExact
PROPERTIES
  EvidenceKept
