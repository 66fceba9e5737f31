SPECIFICATION Spec
CONSTANTS
  Words <- MCWords
  stoi <- MCStoi
  NoInt = NoInt
  MaxWords = 4
  kIterations = 2
  kWarmup = 2
  INT_MAX = 7
  Times = {1, 5}
INVARIANT TypeOK
INVARIANT ParsesLastCount
INVARIANT IndicesInPools
INVARIANT UsesAreSound
INVARIANT NonceSignsOneDigest
INVARIANT ScenariosCompareAlike
INVARIANT StatsDescribeSamples
PROPERTY RunEnds
CHECK_DEADLOCK FALSE
