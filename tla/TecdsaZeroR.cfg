SPECIFICATION Spec
CONSTANTS
  secp256k1_p = 13
  secp256k1_a = 0
  secp256k1_b = 7
  secp256k1_gx = 7
  secp256k1_gy = 5
  secp256k1_n = 7
  KeyIds = {alice_bob}
  PresignIds = {first}
  Hashes = {11}
  NonzeroDraws = {3, 5}
  Draws = {1, 6}
  TripleDraws = {1, 6}
  NDEBUG = TRUE
  Leftovers = {0, 3}
  AnyKey = FALSE
  None = None
INVARIANT SignedRIsPositive
CHECK_DEADLOCK FALSE
