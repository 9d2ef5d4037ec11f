SPECIFICATION Spec
CONSTANTS
  a1 = a1
  r1 = r1
  r2 = r2
  r3 = r3
  r4 = r4
  Author = {a1}
  Address = {a1, r1, r2, r3, r4}
  Funder = funder
  Registry = registry
  Cid = {c1, c2}
  Field = {f1}
  Score = {30, 31}
  PLAGIARISM_THRESHOLD = 30
  PUBLICATION_FEE = 100
  REVIEWER_INCENTIVE = 10
  INITIAL_SUPPLY = 100
  MaxManuscripts = 1
  MaxRequests = 2
  MaxNonce = 2
  ReviewerLists <- TwoPanels
INVARIANTS
  TypeOK
  OnlyCheckedContentAdvances
  TallyMatchesReviews
  PanelCanFinish
  PublishedOnce
PROPERTIES
  SettledStays
  ImplementsReviewProcess
  ImplementsLifecycle
CHECK_DEADLOCK FALSE
