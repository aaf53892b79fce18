SPECIFICATION ServiceSpec
CONSTANTS
  TxID = {t1, t2}
  Worker = {w1, w2}
  r1 = r1
  r2 = r2
  Record = {r1, r2}
  Batch <- OverlappingBatches
  Stage <- StageNames
  Faults <- Retryable
  MaxFaults = 1
  Token <- Tokens
  None = None
  Absent = Absent
  Null = Null
  Undefined = Undefined
SYMMETRY Symmetry
INVARIANT OneTokenPerRecord
