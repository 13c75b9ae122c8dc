\* The bulk moves from every placing of the keys. A move ends, so the system stops.
SPECIFICATION Spec
CONSTANTS
  k1 = k1  k2 = k2  k3 = k3  k4 = k4  k5 = k5  k6 = k6
  NoKey = NoKey
  Keys <- MCKeys
  Bup = 2
  KickTimes = 3
  Hash1 <- MCHash1
  Hash2 <- MCHash2
  Len1 = 4
  Len2 = 4
  MinC2 = 4
INVARIANTS
  KeysPlaced
  OutcomeIsPour
SYMMETRY MCSymmetry
CHECK_DEADLOCK FALSE
