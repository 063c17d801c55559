CONSTANTS
  b1 = b1
  b2 = b2
  corpusA = corpusA
  corpusB = corpusB
  Old = Old
  None = None
  Partial = Partial
  Builders = {b1, b2}
  CorpusOf <- MCCorpusOf
SPECIFICATION FairSpec
INVARIANTS
  MutualExclusion
  LivePairMatches
  NoResidue
  NotAllRefused
PROPERTIES
  PairNeverLost
  OutcomeHonest
  ImplementsArtifactPair
  LocksComeBack
