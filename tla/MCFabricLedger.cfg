SPECIFICATION FabricSpec
CONSTANTS
  TxID = {t1, t2}
  r1 = r1
  r2 = r2
  Record = {r1, r2}
  Token = {k1}
  Stage = {"stage"}
  Batch <- OverlappingBatches
  Slot = {s1, s2}
  None = None
  Absent = Absent
  Null = Null
  Undefined = Undefined
SYMMETRY Symmetry
INVARIANTS ProposalsReproduce IndexMatchesLocks
PROPERTIES ImplementsDataLock LockDiscipline FinishedIsFinal AuditedStaysAudited
CHECK_DEADLOCK FALSE
