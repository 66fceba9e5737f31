SPECIFICATION MulSpec
CONSTANT q = 3
INVARIANT ProductIsShared
INVARIANT OpeningHidesShares
CHECK_DEADLOCK FALSE
