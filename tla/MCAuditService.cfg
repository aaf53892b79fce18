SPECIFICATION ServiceSpec
CONSTANTS
  TxID = {t1, t2, t3}
  Worker = {w1, w2}
  r1 = r1
  r2 = r2
  Record = {r1, r2}
  Batch <- OverlappingBatches
  Stage <- StageNames
  Faults <- AllFaults
  MaxFaults = 2
  Token <- Tokens
  None = None
  Absent = Absent
  Null = Null
  Undefined = Undefined
SYMMETRY Symmetry
INVARIANTS LocksMatchStages OneRequestPerAudit AuditTrail FinishedIsRecorded NoSharedMint TokensAccountedFor
