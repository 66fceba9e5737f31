SPECIFICATION Spec
CONSTANTS
  secp256k1_p = 13
  secp256k1_a = 0
  secp256k1_b = 7
  secp256k1_gx = 7
  secp256k1_gy = 5
  secp256k1_n = 7
  KeyIds = {alice, eve}
  Hashes = {2, 9, 11}
  Draws = {0, 3, 5}
  Nonces = {2, 4, 6}
  None = None
INVARIANT TypeOK
INVARIANT SignaturesVerify
INVARIANT SignaturesAreFunctions
PROPERTY ImplementsStandardSigner
PROPERTY SigningEnds
