--------------------------- MODULE MCAuditService ---------------------------
(* Two requests at a time, on two audits whose batches of records overlap.  All  *)
(* kinds of fault, or (Retryable) only those after which the audit can go on.    *)
EXTENDS AuditService, TLC

CONSTANTS r1, r2

OverlappingBatches == {{r1}, {r2}, {r1, r2}}

StageNames == Stages
AllFaults == FaultKind
Retryable == {"readFails", "stageFails", "stageLost", "issueFails", "issueLost"}
Tokens == 1 .. (Cardinality(TxID) + MaxFaults)

Symmetry == Permutations(TxID) \cup Permutations(Worker)
=============================================================================
