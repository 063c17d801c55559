CONSTANTS
  b1 = b1
  b2 = b2
  corpusA = corpusA
  corpusB = corpusB
  Old = Old
  None = None
  Partial = Partial
  Builders = {b2}
  CorpusOf <- MCCorpusOf
  Options <- RepairOnly
  Regimes <- OnlyRacing
SPECIFICATION DoctorSpec
PROPERTIES
  PairSurvives
