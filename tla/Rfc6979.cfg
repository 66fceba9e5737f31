SPECIFICATION Spec
CONSTANTS
  Orders = {3, 7, 11}
  OctetBits = 3
  BlockOctets = 4
  LengthOctets = 2
  HashOctets = 1
  Keys = {1, 8}
  Digests = {0, 3, 7}
  Macs = {1, 5}
  MaxCalls = 2
  None = None
INVARIANT TypeOK
INVARIANT SeedsDiffer
INVARIANT BuffersAreSound
INVARIANT CandidateIsLeftmostBits
PROPERTY ImplementsNonceFunction
PROPERTY ReturnsFirstCandidate
CHECK_DEADLOCK FALSE
