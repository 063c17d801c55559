SPECIFICATION Spec
CONSTANTS
  Models = {x, y}
  Count <- MCCount
  Size <- MCSize
  Truncated = {0, 1, 2}
  Wanted <- MCWanted
  Unseeded <- MCUnseeded
  BatchSize = 2
  Limit <- MCLimit
  BirthTime = FALSE
  MaxTime = 8
  None = None
SYMMETRY MCSymmetry
CONSTRAINT MCFollowed
CHECK_DEADLOCK FALSE
INVARIANTS
  RejectsLaterProcess
