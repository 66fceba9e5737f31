SPECIFICATION Spec
CONSTANTS
  secp256k1_p = 11
  secp256k1_a = 0
  secp256k1_b = 7
  secp256k1_gx = 2
  secp256k1_gy = 2
  secp256k1_n = 12
  MaxScalar = 26
INVARIANT TypeOK
INVARIANT AccumulatorsTrackBits
INVARIANT AccumulatorsObeyGroupLaws
INVARIANT ReturnsMultiple
CHECK_DEADLOCK FALSE
