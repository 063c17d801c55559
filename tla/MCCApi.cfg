CONSTANTS
  t1 = t1
  t2 = t2
  None = None
  Threads = {t1, t2}
  Count = 3
  Damaged = {2}
  MaxFound = 2
  Batch = 1
  MaxSearches = 2
SPECIFICATION Spec
INVARIANTS
  Exclusive
  FailureIsItsOwn
  WholeOrNothing
PROPERTY
  CallsReturn
