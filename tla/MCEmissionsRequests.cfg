SPECIFICATION FairSpec
CONSTANTS
  None = None
  Factor <- MCFactor
  CarrierWallet <- MCCarrierWallet
  Now = 3
  Submission <- MCSubmission
  Posted <- MCPosted
  Request = {r1, r2}
  Job = {j1, j2}
  Auditor = {a1, a2}
  Session = {s1, s2}
  DefaultFrom = "default"
  Poster = "poster"
  MaxFailures = 1
INVARIANTS
  RequestsTypeOK
  ActivitiesConserved
  TokensMatchRequests
  EvidenceUsed
PROPERTIES
  AssignedOnce
  VerdictStands
  RequestsProcessed
CHECK_DEADLOCK FALSE
