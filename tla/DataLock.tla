------------------------------ MODULE DataLock ------------------------------
(***************************************************************************)
(* The datalock chaincode (fabric/chaincode/datalock): transactions that   *)
(* span Fabric and another ledger, advanced stage by stage, and the locks  *)
(* they hold on the records of a data chaincode meanwhile.                 *)
(*                                                                         *)
(* Clients may submit any invocation at any time in any order, to this     *)
(* chaincode and straight to the data chaincode: nothing here relies on    *)
(* the order of stages the application server follows (AuditService).  One *)
(* invocation is atomic, and one that returns an error changes nothing;    *)
(* FabricLedger shows what that rests on.                                  *)
(***************************************************************************)
EXTENDS EmissionsRecord

CONSTANTS
  TxID,   \* ids clients give their transactions
  Stage,  \* names clients give their stages
  None    \* no transaction, no lock, no call, nothing stored

VARIABLES
  tx,        \* TxID -> the transaction stored under this id
  lock,      \* Record -> the transaction holding the lock state of this uuid
  lockIndex  \* the composite keys txID~lockID

dlVars == <<tx, lock, lockIndex>>
vars == <<tx, lock, lockIndex, tokenId>>

TxState == {"PROCESSING", "NOT-PROCESSING", "FINISHED"}

StageData == [storage : Token \cup {None}, output : (SUBSET Record) \cup {None}]

Transaction ==
  [state : TxState, stage : Stage \cup {""}, data : [Stage -> StageData \cup {None}]]

\* An invocation of the data chaincode wrapped in a lock or an unlock: the keys
\* whose locks datalock checks, and the uuids passed on in the parameters.
LockCall == [keys : SUBSET Record, uuids : SUBSET Record]
FreeCall == [keys : SUBSET Record, uuids : SUBSET Record, token : Token]

StageUpdateInput ==
  [tx_id : TxID, name : Stage, storage : Token \cup {None},
   data_locks : LockCall \cup {None}, data_free : FreeCall \cup {None}, is_last : BOOLEAN]

ASSUME NoneAssumption ==
  None \notin TxID \cup Token \cup StageData \cup Transaction \cup LockCall \cup FreeCall
ASSUME StageAssumption == "" \notin Stage

TypeOK ==
  /\ EmissionsTypeOK
  /\ tx \in [TxID -> Transaction \cup {None}]
  /\ lock \in [Record -> TxID \cup {None}]
  /\ lockIndex \subseteq TxID \X Record

Init ==
  /\ EmissionsInit
  /\ tx = [t \in TxID |-> None]
  /\ lock = [r \in Record |-> None]
  /\ lockIndex = {}

-----------------------------------------------------------------------------
InState(t, s) == tx[t] # None /\ tx[t].state = s

NewTransaction ==
  [state |-> "PROCESSING", stage |-> "", data |-> [s \in Stage |-> None]]

\* Mutation: only a transaction being processed refuses to start.
CanStartFinished(t) == ~InState(t, "PROCESSING")

\* Mutation: a transaction being processed can be started again.
CanStartProcessing(t) == ~InState(t, "FINISHED")

CanStart(t) == tx[t] = None \/ InState(t, "NOT-PROCESSING")

Started(t) ==
  IF tx[t] = None THEN NewTransaction ELSE [tx[t] EXCEPT !.state = "PROCESSING"]

StartTransitionProcess(t) ==
  /\ CanStart(t)
  /\ tx' = [tx EXCEPT ![t] = Started(t)]
  /\ UNCHANGED <<lock, lockIndex, tokenId>>

\* Ending a finished transaction succeeds and changes nothing.
CanEnd(t) == InState(t, "PROCESSING") \/ InState(t, "FINISHED")

Ended(t) ==
  IF tx[t].state = "FINISHED" THEN tx[t] ELSE [tx[t] EXCEPT !.state = "NOT-PROCESSING"]

EndTransitionProcess(t) ==
  /\ CanEnd(t)
  /\ tx' = [tx EXCEPT ![t] = Ended(t)]
  /\ UNCHANGED <<lock, lockIndex, tokenId>>

-----------------------------------------------------------------------------
\* Mutation: the keys are not checked before the data chaincode is called.
LockSucceedsUnchecked(call) == call # None => GetValidEmissionsSucceeds(call.uuids)

\* A key that is locked refuses the call, whoever holds the lock.
LockSucceeds(call) ==
  call # None => /\ \A k \in call.keys : lock[k] = None
                 /\ GetValidEmissionsSucceeds(call.uuids)

\* Mutation: a lock of any transaction will do.
UnlockSucceedsAnyHolder(t, call) ==
  call # None => /\ \A k \in call.keys : lock[k] # None
                 /\ UpdateEmissionsMintedTokenSucceeds(call.uuids)

UnlockSucceeds(t, call) ==
  call # None => /\ \A k \in call.keys : lock[k] = t
                 /\ UpdateEmissionsMintedTokenSucceeds(call.uuids)

\* The keys the data chaincode returns are the ones locked and freed, not the keys
\* that were checked.
Locked(call) == IF call = None THEN {} ELSE GetValidEmissions(call.uuids)
Freed(call) == IF call = None THEN {} ELSE call.uuids

StageUpdateSucceeds(in) ==
  /\ InState(in.tx_id, "PROCESSING")
  /\ LockSucceeds(in.data_locks)
  /\ UnlockSucceeds(in.tx_id, in.data_free)

\* What getValidEmissions returns to store is kept with the stage; the method that
\* frees returns nothing to keep.
StageEntry(in) ==
  [storage |-> in.storage,
   output |-> IF in.data_locks = None THEN None ELSE Locked(in.data_locks)]

\* The stage name is taken as given: no order of stages is checked.
Staged(in) ==
  [state |-> IF in.is_last THEN "FINISHED" ELSE tx[in.tx_id].state,
   stage |-> in.name,
   data |-> IF in.storage = None /\ in.data_locks = None
            THEN tx[in.tx_id].data
            ELSE [tx[in.tx_id].data EXCEPT ![in.name] = StageEntry(in)]]

StageUpdate(in) ==
  /\ StageUpdateSucceeds(in)
  /\ LET locked == Locked(in.data_locks)
         freed == Freed(in.data_free)
     IN /\ lock' = [r \in Record |-> IF r \in freed THEN None
                                     ELSE IF r \in locked THEN in.tx_id ELSE lock[r]]
        /\ lockIndex' = (lockIndex \cup {in.tx_id} \X locked) \ ({in.tx_id} \X freed)
        /\ tokenId' = IF in.data_free = None THEN tokenId
                      ELSE WithToken(freed, in.data_free.token)
  /\ tx' = [tx EXCEPT ![in.tx_id] = Staged(in)]

-----------------------------------------------------------------------------
\* Every caller in the repository has datalock check exactly the uuids it passes on.
ClientStageUpdate ==
  LET locks == {[keys |-> U, uuids |-> U] : U \in Batch}
      frees == {[keys |-> U, uuids |-> U, token |-> k] : U \in Batch, k \in Token}
  IN [tx_id : TxID, name : Stage, storage : Token \cup {None},
      data_locks : locks \cup {None}, data_free : frees \cup {None}, is_last : BOOLEAN]

Next ==
  \/ \E t \in TxID : StartTransitionProcess(t)
  \/ \E t \in TxID : EndTransitionProcess(t)
  \/ \E in \in ClientStageUpdate : StageUpdate(in)
  \/ EmissionsNext /\ UNCHANGED dlVars

Spec == Init /\ [][Next]_vars

-----------------------------------------------------------------------------
\* The composite keys (lock-state.go: putLockState, deleteLockState) list exactly the
\* locks that are held, each under its holder: a lock freed in another transaction's
\* name would leave its index entry behind.
IndexMatchesLocks == lockIndex = {p \in TxID \X Record : lock[p[2]] = p[1]}

\* A lock never passes straight from one transaction to another, and it is taken or
\* given up only while the transaction concerned is being processed: not by another
\* transaction's stage, not after its end, not once it is finished (locker.go: lock,
\* unlock; method.go: stageUpdate).
LockDiscipline ==
  [][\A r \in Record : lock'[r] # lock[r] =>
        \E t \in TxID : {lock[r], lock'[r]} = {t, None} /\ InState(t, "PROCESSING")]_vars

\* Once is_last was committed the transaction is closed: no invocation reopens it or
\* changes its stage data (tx.go: txState; method.go: stageUpdate).
FinishedIsFinal ==
  [][\A t \in TxID : InState(t, "FINISHED") => tx'[t] = tx[t]]_vars

\* A record that was marked as audited never becomes valid for an audit again, whatever
\* mix of methods clients call (emissionsRecordContract.ts).
AuditedStaysAudited ==
  [][\A r \in Record : tokenId[r] \notin {Absent, Null} => tokenId'[r] \notin {Absent, Null}]_vars
=============================================================================
