SPECIFICATION DeskSpec
CONSTANTS
  a1 = a1
  x1 = x1
  y1 = y1
  z1 = z1
  x2 = x2
  y2 = y2
  z2 = z2
  Author = {a1}
  Address = {a1, x1, y1, z1, x2, y2, z2}
  Mine = {x1, x2}
  Main <- MainWallets
  Funder = funder
  Registry = registry
  Cid = {c1}
  Field = {f1}
  Score = {30, 31}
  PLAGIARISM_THRESHOLD = 30
  PUBLICATION_FEE = 100
  REVIEWER_INCENTIVE = 10
  INITIAL_SUPPLY = 100
  MaxManuscripts = 1
  MaxRequests = 2
  MaxNonce = 3
  ReviewerLists <- Panels
  MaxBlock = 2
  MaxReviews = 2
  Withdrawal = {i1, i2}
SYMMETRY WithdrawalSymmetry
CHECK_DEADLOCK FALSE
INVARIANTS
  ConfirmedIsOnChain
  KeysOfPanelHeld
  AssignmentsTellTheRound
  ReportsUnderTheirVersion
  ShownMarksDecide
  WithdrawnIsMoved
PROPERTIES
  ReviewOfItsRound
  ReasonIsTrue
