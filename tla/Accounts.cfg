SPECIFICATION Spec
SYMMETRY AccountSymmetry
CONSTANTS
  User = {u1, u2}
  Wallet = {w1, w2}
  Subject = {s1}
  FieldSet = {f1, f2}
  None = None
  Job = {j1, j2}
  Decision = {d1, d2}
  MaxRequests = 2
  MaxJobs = 3
  MaxClicks = 3
INVARIANTS
  TypeOK
  VerifiedWasGranted
  OneOwner
  BindingKept
  ApprovedIsReviewer
  OnePending
  ToldIsDecided
  RejectedIsNotGranted
  ShownFieldsAreOnChain
