SPECIFICATION OperatorSpec
CONSTANTS
  a1 = a1
  k1 = k1
  k2 = k2
  k3 = k3
  k4 = k4
  k5 = k5
  k6 = k6
  w1 = w1
  w2 = w2
  w3 = w3
  f1 = f1
  f2 = f2
  Author = {a1}
  Address = {a1, k1, k2, k3, k4, k5, k6}
  GeneratedKeys <- SixKeys
  Funder = funder
  Registry = registry
  Cid = {c1}
  Field = {f1, f2}
  Score = {30, 31}
  PLAGIARISM_THRESHOLD = 30
  PUBLICATION_FEE = 100
  REVIEWER_INCENTIVE = 10
  INITIAL_SUPPLY = 0
  MaxManuscripts = 1
  MaxRequests = 2
  MaxNonce = 2
  ReviewerLists = {}
  Handler = {h1, h2}
  Wallet = {w1, w2, w3}
  VerifiedFor <- ThreeAndTwo
  MaxCrashes = 0
  MaxRedeliveries = 1
INVARIANT
  PanelKeysKept
CHECK_DEADLOCK FALSE
