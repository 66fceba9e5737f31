SPECIFICATION Spec
CONSTANTS
  secp256k1_p = 43
  secp256k1_a = 0
  secp256k1_b = 7
  secp256k1_gx = 2
  secp256k1_gy = 12
  secp256k1_n = 31
  KeyIds = {alice_bob, carol_dave}
  PresignIds = {first}
  Hashes = {9, 60}
  NonzeroDraws = {2, 19}
  Draws = {3}
  TripleDraws = {3}
  NDEBUG = TRUE
  Leftovers = {0}
  AnyKey = TRUE
  None = None
INVARIANT SignedVerifiesUnderGivenKey
