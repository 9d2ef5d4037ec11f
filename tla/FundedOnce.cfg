SPECIFICATION Spec
CONSTANTS
  Key = {k1, k2, k3}
  MaxManuscripts = 1
  MaxVersion = 3
  PUBLICATION_FEE = 1
  Savings = {2}
  MaxAttempts = 3
  Invocation = {i1, i2}
SYMMETRY RunSymmetry
INVARIANT FundedOnce
CHECK_DEADLOCK FALSE
