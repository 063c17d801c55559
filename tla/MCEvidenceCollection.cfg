SPECIFICATION Spec
CONSTANTS
  Manifests <- MCManifests
  Options <- MCOptions
  Declared <- MCDeclared
  Efs <- MCEfs
  Configs <- MCConfigs
  MinReal = 1
  MinRecall = 2
  Tolerance = 0
  TopK = 2
  StorageOf <- MCStorage
  Collectors = {c1, c2}
  None = None
SYMMETRY MCSymmetry
CHECK_DEADLOCK FALSE
INVARIANTS
  CommitWhole
  PointsAttributed
  CompleteCoversMatrix
