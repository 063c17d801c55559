SPECIFICATION Spec
CONSTANTS
  Manifests <- MCManifests
  Options <- GateOptions
  Declared <- MCDeclared
  Efs <- MCEfs
  Configs <- MCConfigs
  MinReal = 1
  MinRecall = 2
  Tolerance = 0
  TopK = 2
  StorageOf <- MCStorage
  Collectors = {c1, c2}
  None = None
SYMMETRY MCSymmetry
CHECK_DEADLOCK FALSE
INVARIANTS
  GateStaysOut
