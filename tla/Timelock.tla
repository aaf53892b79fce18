------------------------------- MODULE Timelock -------------------------------
(***************************************************************************)
(* The timelock that executes what the Governor, its admin, has queued:    *)
(* not before the transaction's eta and not later than the grace period    *)
(* after it.  A transaction is known by its contents and its eta.  Time is *)
(* the block of DAOToken.  The transactions by which the timelock would    *)
(* change its own delay or admin are left out.                             *)
(***************************************************************************)
EXTENDS Integers

CONSTANTS Delay, GracePeriod
ASSUME TimelockAssumption == Delay \in Nat \ {0} /\ GracePeriod \in Nat \ {0}

VARIABLE queuedTransactions

CanQueue(tx, now) == tx.eta >= now + Delay
QueueTransaction(tx) == queuedTransactions' = queuedTransactions \cup {tx}

CancelTransaction(tx) == queuedTransactions' = queuedTransactions \ {tx}

CanExecute(tx, now) == tx \in queuedTransactions /\ tx.eta <= now /\ now <= tx.eta + GracePeriod
ExecuteTransaction(tx) == queuedTransactions' = queuedTransactions \ {tx}
=============================================================================
