\* A map that fills up and grows once.
CONSTANTS
  k1 = k1
  k2 = k2
  k3 = k3
  k4 = k4
  k5 = k5
  v1 = v1
  v2 = v2
  NULL = NULL
  JUNK = JUNK
  Keys <- FiveKeys
  Vals <- TwoVals
  Hash <- FiveHashes
  CAP = 4
  MAXCAP = 6
SPECIFICATION Spec
SYMMETRY ValSymmetry
CONSTRAINT EntryBound
INVARIANTS GetIsLookup GrowthFindsRoom
PROPERTY OthersKept
