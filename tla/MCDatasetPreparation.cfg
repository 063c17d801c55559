CONSTANTS
  first = first
  second = second
  third = third
  Runs = {first, second, third}
  Docs <- MCDocs
  Queries = {1, 2}
  Sources <- MCSources
  Options <- MCOptions
  Rank <- MCRank
  Good = Good
  Bad = Bad
  Torn = Torn
  Other = Other
  None = None
SPECIFICATION Spec
INVARIANTS
  OutputWhole
  SelectionExact
PROPERTIES
  DatasetNeverLost
