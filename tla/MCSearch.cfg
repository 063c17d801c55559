CONSTANTS
  None = None
  Size = 6
  GraphDegree = 2
  LowDegree = 1
  HubShare <- MCHubShare
  Corpora <- MCCorpora
  Foreign <- MCForeign
  Queries <- MCQueries
  Configs <- MCConfigs
SPECIFICATION Spec
INVARIANTS
  ShortlistIsBest
  LocallyBest
  AnswerIsReference
  RouteNeverLost
  OneWayOnlyWhenFull
PROPERTY
  SearchEnds
