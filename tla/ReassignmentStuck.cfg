SPECIFICATION SpecWithScript
CONSTANTS
  a1 = a1
  r1 = r1
  r2 = r2
  r3 = r3
  r4 = r4
  Author = {a1}
  Address = {a1, r1, r2, r3, r4}
  Funder = funder
  Registry = registry
  Cid = {c1}
  Field = {f1}
  Score = {30, 31}
  PLAGIARISM_THRESHOLD = 30
  PUBLICATION_FEE = 100
  REVIEWER_INCENTIVE = 10
  INITIAL_SUPPLY = 100
  MaxManuscripts = 1
  MaxRequests = 2
  MaxNonce = 2
  ReviewerLists <- OnePanel
  ReassignLists <- OtherPanels
INVARIANT
  VerdictAchievable
CHECK_DEADLOCK FALSE
