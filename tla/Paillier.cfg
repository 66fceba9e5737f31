SPECIFICATION Spec
CONSTANTS
  PrimeBits = {3, 5}
  Plaintexts = {1, 34, 35, 600}
  Factors = {0, 7}
  MaxWork = 105
INVARIANT TypeOK
INVARIANT MuExists
INVARIANT DecryptsToPlaintext
INVARIANT EncryptionIsInjective
PROPERTY KeygenEnds
CHECK_DEADLOCK FALSE
