CONSTANTS
  b1 = b1
  b2 = b2
  r1 = r1
  corpusA = corpusA
  corpusB = corpusB
  Old = Old
  None = None
  Partial = Partial
  Builders = {b1, b2}
  Readers = {r1}
  CorpusOf <- MCCorpusOf
  Options <- EitherFlag
  Regimes <- Both
SPECIFICATION PrefixSpec
CONSTRAINT Followed
INVARIANTS
  AnswersFromOneCorpus
  LoadsOnlyCommitted
  NeverBack
PROPERTIES
  RepairIsSafe
