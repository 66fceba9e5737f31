SPECIFICATION VerifySpec
CONSTANTS
  secp256k1_p = 43
  secp256k1_a = 0
  secp256k1_b = 7
  secp256k1_gx = 2
  secp256k1_gy = 12
  secp256k1_n = 31
  Keys = {0, 5, 20}
  Digests = {9, 60}
  Beyond = 2
INVARIANT AcceptsExactlySignatures
CHECK_DEADLOCK FALSE
