-------------------------- MODULE FabricLedgerProofs --------------------------
(***************************************************************************)
(* What holds of the datalock chaincode for any number of transactions,    *)
(* records, stages and tokens, and any clients that have it check the      *)
(* uuids they pass on (ClientStageUpdate); and, in the second part, that   *)
(* the ledger with any number of overlapping invocations implements it.    *)
(* The argument: a proposal in flight has lost no key it read (PendingOK   *)
(* keeps the read set, Reproduces what follows from it), what a method     *)
(* decides and writes depends on those keys only (the *Frame lemmas), so   *)
(* at its commit the proposal does what the method would do at once        *)
(* (CommitIsStep).                                                         *)
(***************************************************************************)
EXTENDS FabricLedger, TLAPS

-----------------------------------------------------------------------------
(* The chaincodes, with a method at a time. *)

\* Any stage update that has datalock check the uuids it passes on.
CheckedStageUpdate ==
  {in \in StageUpdateInput :
     /\ in.data_locks # None => in.data_locks.keys = in.data_locks.uuids
     /\ in.data_free # None => in.data_free.keys = in.data_free.uuids}

\* The clients' stage updates are such.
LEMMA ClientsAreChecked == ClientStageUpdate \subseteq CheckedStageUpdate
  BY BatchAssumption
     DEF ClientStageUpdate, CheckedStageUpdate, StageUpdateInput, LockCall, FreeCall

\* The set of uuids the data chaincode reports as valid is among those passed.
LEMMA LockedAreRecords ==
  ASSUME NEW in \in CheckedStageUpdate
  PROVE  /\ Locked(in.data_locks) \subseteq Record
         /\ Freed(in.data_free) \subseteq Record
         /\ in.tx_id \in TxID
         /\ in.name \in Stage
         /\ in.storage \in Token \cup {None}
         /\ in.data_free # None => in.data_free.token \in Token
  BY DEF CheckedStageUpdate, StageUpdateInput, LockCall, FreeCall, Locked, Freed,
         GetValidEmissions

\* A stage update leaves a well-formed transaction behind.
LEMMA StagedIsTransaction ==
  ASSUME TypeOK, NEW in \in CheckedStageUpdate, StageUpdateSucceeds(in)
  PROVE  Staged(in) \in Transaction
  <1> DEFINE t == tx[in.tx_id]
  <1>1. t \in Transaction
    BY LockedAreRecords DEF TypeOK, StageUpdateSucceeds, InState
  <1>2. StageEntry(in) \in StageData
    BY LockedAreRecords DEF StageEntry, StageData
  <1>3. [t.data EXCEPT ![in.name] = StageEntry(in)] \in [Stage -> StageData \cup {None}]
    BY <1>1, <1>2, LockedAreRecords DEF Transaction
  <1>4. Staged(in).state \in TxState
    BY <1>1 DEF Staged, Transaction, TxState
  <1>5. QED
    BY <1>1, <1>3, <1>4, LockedAreRecords DEF Staged, Transaction

\* Stage updates keep the type.
LEMMA StageKeepsType ==
  ASSUME TypeOK, NEW in \in CheckedStageUpdate, StageUpdate(in)
  PROVE  TypeOK'
<1>1. tx' \in [TxID -> Transaction \cup {None}]
  BY StagedIsTransaction, LockedAreRecords DEF TypeOK, StageUpdate
<1>2. lock' \in [Record -> TxID \cup {None}]
  BY LockedAreRecords DEF TypeOK, StageUpdate
<1>3. lockIndex' \subseteq TxID \X Record
  BY LockedAreRecords DEF TypeOK, StageUpdate
<1>4. EmissionsTypeOK'
  BY LockedAreRecords
     DEF TypeOK, StageUpdate, EmissionsTypeOK, WithToken, TokenField
<1>5. QED
  BY <1>1, <1>2, <1>3, <1>4 DEF TypeOK

\* Every step of the chaincodes keeps the type.
LEMMA TypeInductive ==
  ASSUME TypeOK, [Next]_vars
  PROVE  TypeOK'
<1>1. ASSUME NEW t \in TxID, StartTransitionProcess(t) PROVE TypeOK'
  <2>1. Started(t) \in Transaction
    BY <1>1 DEF TypeOK, StartTransitionProcess, Started, NewTransaction, CanStart, InState,
                Transaction, TxState
  <2>2. QED
    BY <1>1, <2>1 DEF TypeOK, StartTransitionProcess, EmissionsTypeOK
<1>2. ASSUME NEW t \in TxID, EndTransitionProcess(t) PROVE TypeOK'
  <2>1. Ended(t) \in Transaction
    BY <1>2 DEF TypeOK, EndTransitionProcess, Ended, CanEnd, InState, Transaction, TxState
  <2>2. QED
    BY <1>2, <2>1 DEF TypeOK, EndTransitionProcess, EmissionsTypeOK
<1>3. ASSUME NEW in \in ClientStageUpdate, StageUpdate(in) PROVE TypeOK'
  BY <1>3, StageKeepsType, ClientsAreChecked
<1>4. ASSUME EmissionsNext, UNCHANGED dlVars PROVE TypeOK'
  BY <1>4 DEF TypeOK, dlVars, EmissionsNext, RecordEmissions, UpdateEmissionsRecord,
              UpdateEmissionsMintedToken, WithToken, EmissionsTypeOK, TokenField
<1>5. CASE UNCHANGED vars
  BY <1>5 DEF TypeOK, vars, EmissionsTypeOK
<1>6. QED
  BY <1>1, <1>2, <1>3, <1>4, <1>5 DEF Next

\* The state of the chaincodes always has its type.
THEOREM TypeCorrect == Spec => []TypeOK
<1>1. Init => TypeOK
  BY DEF Init, TypeOK, EmissionsInit, EmissionsTypeOK, TokenField
<1>2. TypeOK /\ [Next]_vars => TypeOK'
  BY TypeInductive
<1>3. QED
  BY <1>1, <1>2, PTL DEF Spec

-----------------------------------------------------------------------------
\* What a client's stage update may do to a lock: take a free one, or give up its own.
\* It rests on datalock checking the very uuids the data chaincode is called with.
LEMMA StageLocks ==
  ASSUME TypeOK, NEW in \in CheckedStageUpdate, StageUpdateSucceeds(in)
  PROVE  /\ \A r \in Locked(in.data_locks) : lock[r] = None
         /\ \A r \in Freed(in.data_free) : lock[r] = in.tx_id
         /\ Locked(in.data_locks) \cap Freed(in.data_free) = {}
  <1>1. \A r \in Locked(in.data_locks) : lock[r] = None
    BY DEF CheckedStageUpdate, StageUpdateSucceeds, LockSucceeds, Locked, GetValidEmissions
  <1>2. \A r \in Freed(in.data_free) : lock[r] = in.tx_id
    BY DEF CheckedStageUpdate, StageUpdateSucceeds, UnlockSucceeds, Freed
  <1>3. QED
    BY <1>1, <1>2, LockedAreRecords, NoneAssumption

\* The index keys list the locks that are held, under their holders.
THEOREM IndexCorrect == Spec => []IndexMatchesLocks
<1>1. Init => IndexMatchesLocks
  BY NoneAssumption DEF Init, IndexMatchesLocks
<1>2. TypeOK /\ IndexMatchesLocks /\ [Next]_vars => IndexMatchesLocks'
  <2> SUFFICES ASSUME TypeOK, IndexMatchesLocks, [Next]_vars PROVE IndexMatchesLocks'
    OBVIOUS
  <2>1. ASSUME NEW in \in ClientStageUpdate, StageUpdate(in) PROVE IndexMatchesLocks'
    <3> DEFINE locked == Locked(in.data_locks)
               freed == Freed(in.data_free)
    <3>1. /\ locked \subseteq Record /\ freed \subseteq Record /\ in.tx_id \in TxID
          /\ \A r \in locked : lock[r] = None
          /\ \A r \in freed : lock[r] = in.tx_id
      BY <2>1, ClientsAreChecked, StageLocks, LockedAreRecords DEF StageUpdate
    <3>2. \A t \in TxID, r \in Record : <<t, r>> \in lockIndex' <=> lock'[r] = t
      <4> SUFFICES ASSUME NEW t \in TxID, NEW r \in Record
                   PROVE  <<t, r>> \in lockIndex' <=> lock'[r] = t
        OBVIOUS
      <4>1. <<t, r>> \in lockIndex <=> lock[r] = t
        BY DEF IndexMatchesLocks
      <4>2. <<t, r>> \in lockIndex' <=>
              (<<t, r>> \in lockIndex \/ (t = in.tx_id /\ r \in locked))
                /\ ~(t = in.tx_id /\ r \in freed)
        BY <2>1 DEF StageUpdate
      <4>3. lock'[r] = IF r \in freed THEN None ELSE IF r \in locked THEN in.tx_id ELSE lock[r]
        BY <2>1 DEF StageUpdate
      <4>4. QED
        BY <3>1, <4>1, <4>2, <4>3, NoneAssumption
    <3>3. lockIndex' \subseteq TxID \X Record
      BY <2>1, <3>1 DEF TypeOK, StageUpdate
    <3>4. QED
      BY <3>2, <3>3 DEF IndexMatchesLocks
  <2>2. CASE UNCHANGED <<lock, lockIndex>>
    BY <2>2 DEF IndexMatchesLocks
  <2>3. QED
    BY <2>1, <2>2 DEF Next, vars, dlVars, StartTransitionProcess, EndTransitionProcess
<1>3. QED
  BY <1>1, <1>2, TypeCorrect, PTL DEF Spec

-----------------------------------------------------------------------------
\* A lock changes only between free and held by a transaction that is being processed.
THEOREM LocksDisciplined == Spec => LockDiscipline
<1> DEFINE Step(r) == lock'[r] # lock[r] =>
             \E t \in TxID : {lock[r], lock'[r]} = {t, None} /\ InState(t, "PROCESSING")
<1>1. TypeOK /\ [Next]_vars => [\A r \in Record : Step(r)]_vars
  <2> SUFFICES ASSUME TypeOK, Next, NEW r \in Record PROVE Step(r)
    OBVIOUS
  <2>1. ASSUME NEW in \in ClientStageUpdate, StageUpdate(in) PROVE Step(r)
    <3>1. /\ r \in Locked(in.data_locks) => lock[r] = None
          /\ r \in Freed(in.data_free) => lock[r] = in.tx_id
          /\ in.tx_id \in TxID
          /\ InState(in.tx_id, "PROCESSING")
      BY <2>1, ClientsAreChecked, StageLocks, LockedAreRecords DEF StageUpdate, StageUpdateSucceeds
    <3>2. lock'[r] = IF r \in Freed(in.data_free) THEN None
                     ELSE IF r \in Locked(in.data_locks) THEN in.tx_id ELSE lock[r]
      BY <2>1 DEF StageUpdate
    <3>3. QED
      BY <3>1, <3>2
  <2>2. CASE UNCHANGED lock
    BY <2>2
  <2>3. QED
    BY <2>1, <2>2 DEF Next, dlVars, StartTransitionProcess, EndTransitionProcess
<1>2. QED
  BY <1>1, TypeCorrect, PTL DEF Spec, LockDiscipline

\* No invocation touches a finished transaction: starting it and advancing it are
\* refused, and ending it puts nothing back.
THEOREM FinishedForGood == Spec => FinishedIsFinal
<1> DEFINE Step(t) == InState(t, "FINISHED") => tx'[t] = tx[t]
<1>1. TypeOK /\ [Next]_vars => [\A t \in TxID : Step(t)]_vars
  <2> SUFFICES ASSUME TypeOK, Next, NEW t \in TxID, InState(t, "FINISHED")
               PROVE  tx'[t] = tx[t]
    OBVIOUS
  <2>1. ASSUME NEW u \in TxID, StartTransitionProcess(u) PROVE tx'[t] = tx[t]
    BY <2>1 DEF StartTransitionProcess, CanStart, InState, TypeOK
  <2>2. ASSUME NEW u \in TxID, EndTransitionProcess(u) PROVE tx'[t] = tx[t]
    BY <2>2 DEF EndTransitionProcess, Ended, InState, TypeOK
  <2>3. ASSUME NEW in \in ClientStageUpdate, StageUpdate(in) PROVE tx'[t] = tx[t]
    <3>1. t # in.tx_id
      BY <2>3 DEF StageUpdate, StageUpdateSucceeds, InState
    <3>2. QED
      BY <2>3, <3>1 DEF StageUpdate, TypeOK
  <2>4. QED
    BY <2>1, <2>2, <2>3 DEF Next, dlVars
<1>2. QED
  BY <1>1, TypeCorrect, PTL DEF Spec, FinishedIsFinal

\* Every method that writes a record already there writes a token id or drops the field;
\* only a record that is absent is written with null.
THEOREM AuditedForGood == Spec => AuditedStaysAudited
<1> DEFINE Step(r) == tokenId[r] \notin {Absent, Null} => tokenId'[r] \notin {Absent, Null}
<1>1. TypeOK /\ [Next]_vars => [\A r \in Record : Step(r)]_vars
  <2> SUFFICES ASSUME TypeOK, Next, NEW r \in Record, tokenId[r] \notin {Absent, Null}
               PROVE  tokenId'[r] \notin {Absent, Null}
    OBVIOUS
  <2>1. ASSUME NEW in \in ClientStageUpdate, StageUpdate(in)
        PROVE  tokenId'[r] \notin {Absent, Null}
    BY <2>1, ClientsAreChecked, LockedAreRecords, FieldAssumption DEF StageUpdate, WithToken
  <2>2. ASSUME EmissionsNext PROVE tokenId'[r] \notin {Absent, Null}
    BY <2>2, FieldAssumption
       DEF EmissionsNext, RecordEmissions, UpdateEmissionsRecord, Recorded,
           UpdateEmissionsMintedToken, WithToken, TypeOK, EmissionsTypeOK
  <2>3. QED
    BY <2>1, <2>2 DEF Next, StartTransitionProcess, EndTransitionProcess
<1>2. QED
  BY <1>1, TypeCorrect, PTL DEF Spec, AuditedStaysAudited

-----------------------------------------------------------------------------
(* The ledger. *)

\* The inductive invariant; quantifying over the invocations keeps what is read now
\* apart from what is read in the next state.
PendingOK ==
  /\ pending = [s \in Slot |-> pending[s]]
  /\ \A s \in Slot : pending[s] # None =>
       /\ pending[s].op \in Invocation
       /\ pending[s].reads = ReadSet(pending[s].op)

Reproduces(op) ==
  \A s \in Slot : pending[s] # None /\ pending[s].op = op =>
    Succeeds(op) /\ pending[s].writes = WriteSet(op)

FabricInv == TypeOK /\ PendingOK /\ \A op \in Invocation : Reproduces(op)

-----------------------------------------------------------------------------
\* The seven methods, with the arguments each takes.
LEMMA InvocationCases ==
  ASSUME NEW op \in Invocation
  PROVE  \/ op.fn = "startTransitionProcess" /\ op.tx_id \in TxID
         \/ op.fn = "endTransitionProcess" /\ op.tx_id \in TxID
         \/ op.fn = "stageUpdate" /\ op.in \in ClientStageUpdate
         \/ op.fn = "recordEmissions" /\ op.uuid \in Record
         \/ /\ op.fn = "updateEmissionsRecord" /\ op.uuid \in Record
            /\ op.token \in Token \cup {Undefined}
         \/ /\ op.fn = "updateEmissionsMintedToken" /\ op.uuids \in Batch
            /\ op.token \in Token
  BY DEF Invocation

\* Writing nothing leaves a function alone.
LEMMA OverwriteNothing ==
  ASSUME NEW S, NEW f, f = [x \in S |-> f[x]]
  PROVE  Overwrite(f, NoWrites) = f
  BY DEF Overwrite, NoWrites

\* Writing one key is EXCEPT.
LEMMA OverwriteOne ==
  ASSUME NEW S, NEW f, f = [x \in S |-> f[x]], NEW k, NEW v
  PROVE  Overwrite(f, Single(k, v)) = [f EXCEPT ![k] = v]
  BY DEF Overwrite, Single

\* The variables are functions on their keys.
LEMMA StateFunctions ==
  ASSUME TypeOK
  PROVE  /\ tx = [t \in TxID |-> tx[t]]
         /\ lock = [r \in Record |-> lock[r]]
         /\ tokenId = [r \in Record |-> tokenId[r]]
  BY DEF TypeOK, EmissionsTypeOK

\* What the commit of a write set does to the committed state.
Applied(w) ==
  /\ tx' = Overwrite(tx, w.tx)
  /\ lock' = Overwrite(lock, w.lock)
  /\ lockIndex' = {p \in TxID \X Record :
                     IF p \in DOMAIN w.index THEN w.index[p] ELSE p \in lockIndex}
  /\ tokenId' = Overwrite(tokenId, w.record)

\* A write set that touches no index key leaves the index alone.
LEMMA NoIndexWrites ==
  ASSUME TypeOK
  PROVE  {p \in TxID \X Record :
            IF p \in DOMAIN NoWrites THEN NoWrites[p] ELSE p \in lockIndex} = lockIndex
  BY DEF TypeOK, NoWrites

\* The write sets of the two transition methods do what the atomic methods do.
LEMMA StartApplied ==
  ASSUME TypeOK, NEW t \in TxID, CanStart(t), Applied(StartWrites(t))
  PROVE  StartTransitionProcess(t)
  BY StateFunctions, OverwriteNothing, OverwriteOne, NoIndexWrites
     DEF Applied, StartWrites, Writes, StartTransitionProcess

\* Ending a finished transaction writes nothing, which is what Ended says too.
LEMMA EndApplied ==
  ASSUME TypeOK, NEW t \in TxID, CanEnd(t), Applied(EndWrites(t))
  PROVE  EndTransitionProcess(t)
<1>1. UNCHANGED <<lock, lockIndex, tokenId>>
  BY StateFunctions, OverwriteNothing, NoIndexWrites DEF Applied, EndWrites, Writes
<1>2. CASE tx[t].state = "FINISHED"
  <2>1. tx' = tx
    BY <1>2, StateFunctions, OverwriteNothing DEF Applied, EndWrites, Writes
  <2>2. QED
    BY <1>1, <1>2, <2>1, StateFunctions DEF EndTransitionProcess, Ended
<1>3. CASE tx[t].state # "FINISHED"
  <2>1. tx' = [tx EXCEPT ![t] = Ended(t)]
    BY <1>3, StateFunctions, OverwriteOne DEF Applied, EndWrites, Writes
  <2>2. QED
    BY <1>1, <2>1 DEF EndTransitionProcess
<1>4. QED
  BY <1>2, <1>3

\* The keys a stage update writes are those StageUpdate changes.
LEMMA StageApplied ==
  ASSUME TypeOK, NEW in \in ClientStageUpdate, StageUpdateSucceeds(in),
         Applied(StageWrites(in))
  PROVE  StageUpdate(in)
<1> DEFINE t == in.tx_id
           locked == Locked(in.data_locks)
           freed == Freed(in.data_free)
           touched == locked \cup freed
<1>1. /\ t \in TxID /\ locked \subseteq Record /\ freed \subseteq Record
      /\ in.data_free = None => freed = {}
  BY ClientsAreChecked, LockedAreRecords DEF Freed
<1>2. tx' = [tx EXCEPT ![t] = Staged(in)]
  BY StateFunctions, OverwriteOne DEF Applied, StageWrites, Writes
<1>3. lock' = [r \in Record |-> IF r \in freed THEN None
                                ELSE IF r \in locked THEN t ELSE lock[r]]
  <2>1. lock' = Overwrite(lock, [r \in touched |-> IF r \in freed THEN None ELSE t])
    BY DEF Applied, StageWrites, Writes
  <2>2. QED
    BY <2>1, StateFunctions DEF Overwrite
<1>4. lockIndex' = (lockIndex \cup {t} \X locked) \ ({t} \X freed)
  <2>1. lockIndex' = {p \in TxID \X Record : IF p \in {t} \X touched THEN p[2] \notin freed
                                             ELSE p \in lockIndex}
    BY DEF Applied, StageWrites, Writes
  <2>2. lockIndex \subseteq TxID \X Record
    BY DEF TypeOK
  <2>3. ASSUME NEW u \in TxID, NEW r \in Record
        PROVE  <<u, r>> \in lockIndex' <=>
                 <<u, r>> \in (lockIndex \cup {t} \X locked) \ ({t} \X freed)
    BY <2>1
  <2>4. QED
    BY <1>1, <2>1, <2>2, <2>3
<1>5. tokenId' = IF in.data_free = None THEN tokenId ELSE WithToken(freed, in.data_free.token)
  <2>1. tokenId' = Overwrite(tokenId, [r \in freed |-> in.data_free.token])
    BY DEF Applied, StageWrites, Writes
  <2>2. QED
    BY <1>1, <2>1, StateFunctions DEF Overwrite, WithToken
<1>6. QED
  BY <1>2, <1>3, <1>4, <1>5 DEF StageUpdate

\* A write to emissions records alone.
LEMMA RecordsApplied ==
  ASSUME TypeOK, NEW U \in SUBSET Record, NEW k, Applied(RecordWrites(U, k))
  PROVE  /\ UNCHANGED dlVars
         /\ tokenId' = WithToken(U, k)
<1>1. UNCHANGED dlVars
  BY StateFunctions, OverwriteNothing, NoIndexWrites DEF Applied, RecordWrites, Writes, dlVars
<1>2. tokenId' = Overwrite(tokenId, [r \in U |-> k])
  BY DEF Applied, RecordWrites, Writes
<1>3. QED
  BY <1>1, <1>2, StateFunctions DEF Overwrite, WithToken

\* Committing what a method would write now is a step of the atomic datalock.
LEMMA CommitIsStep ==
  ASSUME TypeOK, NEW op \in Invocation, Succeeds(op), Applied(WriteSet(op))
  PROVE  Next
<1>1. CASE op.fn = "startTransitionProcess"
  BY <1>1, InvocationCases, StartApplied DEF Succeeds, WriteSet, Next
<1>2. CASE op.fn = "endTransitionProcess"
  BY <1>2, InvocationCases, EndApplied DEF Succeeds, WriteSet, Next
<1>3. CASE op.fn = "stageUpdate"
  BY <1>3, InvocationCases, StageApplied DEF Succeeds, WriteSet, Next
<1>4. CASE op.fn = "recordEmissions"
  <2>1. op.uuid \in Record /\ ~Recorded(op.uuid) /\ Applied(RecordWrites({op.uuid}, Null))
    BY <1>4, InvocationCases DEF Succeeds, WriteSet
  <2>2. UNCHANGED dlVars /\ tokenId' = WithToken({op.uuid}, Null)
    BY <2>1, RecordsApplied
  <2>3. RecordEmissions(op.uuid)
    BY <2>1, <2>2, StateFunctions DEF RecordEmissions, WithToken
  <2>4. QED
    BY <2>1, <2>2, <2>3 DEF Next, EmissionsNext
<1>5. CASE op.fn = "updateEmissionsRecord"
  <2>1. /\ op.uuid \in Record /\ op.token \in Token \cup {Undefined} /\ Recorded(op.uuid)
        /\ Applied(RecordWrites({op.uuid}, op.token))
    BY <1>5, InvocationCases DEF Succeeds, WriteSet
  <2>2. UNCHANGED dlVars /\ tokenId' = WithToken({op.uuid}, op.token)
    BY <2>1, RecordsApplied
  <2>3. UpdateEmissionsRecord(op.uuid, op.token)
    BY <2>1, <2>2, StateFunctions DEF UpdateEmissionsRecord, WithToken
  <2>4. QED
    BY <2>1, <2>2, <2>3 DEF Next, EmissionsNext
<1>6. CASE op.fn = "updateEmissionsMintedToken"
  <2>1. /\ op.uuids \in Batch /\ op.uuids \subseteq Record /\ op.token \in Token
        /\ UpdateEmissionsMintedTokenSucceeds(op.uuids)
        /\ Applied(RecordWrites(op.uuids, op.token))
    BY <1>6, InvocationCases, BatchAssumption DEF Succeeds, WriteSet
  <2>2. UNCHANGED dlVars /\ tokenId' = WithToken(op.uuids, op.token)
    BY <2>1, RecordsApplied
  <2>3. UpdateEmissionsMintedToken(op.uuids, op.token)
    BY <2>1, <2>2 DEF UpdateEmissionsMintedToken
  <2>4. QED
    BY <2>1, <2>2, <2>3 DEF Next, EmissionsNext
<1>7. QED
  BY <1>1, <1>2, <1>3, <1>4, <1>5, <1>6, InvocationCases

-----------------------------------------------------------------------------
\* No key that a proposal has read was written.
Unread(reads) ==
  /\ \A t \in reads.tx : tx'[t] = tx[t]
  /\ \A r \in reads.lock : lock'[r] = lock[r]
  /\ \A r \in reads.record : tokenId'[r] = tokenId[r]

\* What startTransitionProcess and endTransitionProcess decide and write depends on the
\* transaction alone.
LEMMA TransitionFrame ==
  ASSUME NEW t, tx'[t] = tx[t]
  PROVE  /\ CanStart(t)' <=> CanStart(t)
         /\ CanEnd(t)' <=> CanEnd(t)
         /\ StartWrites(t)' = StartWrites(t)
         /\ EndWrites(t)' = EndWrites(t)
  BY DEF CanStart, CanEnd, InState, StartWrites, EndWrites, Started, Ended

\* What stageUpdate decides and writes depends on its transaction, on the locks of the
\* keys it checks and on the records of the uuids it passes on.
LEMMA StageFrame ==
  ASSUME NEW in \in ClientStageUpdate, Unread(StageReads(in))
  PROVE  /\ StageUpdateSucceeds(in)' <=> StageUpdateSucceeds(in)
         /\ StageWrites(in)' = StageWrites(in)
<1>1. tx'[in.tx_id] = tx[in.tx_id]
  BY DEF Unread, StageReads, Reads
<1>2. /\ in.data_locks # None => \A r \in in.data_locks.keys : lock'[r] = lock[r]
      /\ in.data_free # None => \A r \in in.data_free.keys : lock'[r] = lock[r]
  BY DEF Unread, StageReads, Reads, KeysOf
<1>3. /\ in.data_locks # None => \A r \in in.data_locks.uuids : tokenId'[r] = tokenId[r]
      /\ in.data_free # None => \A r \in in.data_free.uuids : tokenId'[r] = tokenId[r]
  BY DEF Unread, StageReads, Reads, UuidsOf
<1>4. Locked(in.data_locks)' = Locked(in.data_locks)
  BY <1>3 DEF Locked, GetValidEmissions
<1>5. StageUpdateSucceeds(in)' <=> StageUpdateSucceeds(in)
  BY <1>1, <1>2, <1>3
     DEF StageUpdateSucceeds, InState, LockSucceeds, UnlockSucceeds, GetValidEmissionsSucceeds,
         UpdateEmissionsMintedTokenSucceeds, Recorded
<1>6. Staged(in)' = Staged(in)
  BY <1>1, <1>4 DEF Staged, StageEntry
<1>7. StageWrites(in)' = StageWrites(in)
  BY <1>4, <1>6 DEF StageWrites, Freed
<1>8. QED
  BY <1>5, <1>7

\* The same for every method: the read set decides.
LEMMA ReadsDecide ==
  ASSUME NEW op \in Invocation, Unread(ReadSet(op))
  PROVE  /\ Succeeds(op)' <=> Succeeds(op)
         /\ WriteSet(op)' = WriteSet(op)
<1>1. CASE op.fn \in {"startTransitionProcess", "endTransitionProcess"}
  <2>1. tx'[op.tx_id] = tx[op.tx_id]
    BY <1>1 DEF Unread, ReadSet, Reads
  <2>2. QED
    BY <1>1, <2>1, TransitionFrame DEF Succeeds, WriteSet
<1>2. CASE op.fn = "stageUpdate"
  <2>1. op.in \in ClientStageUpdate /\ Unread(StageReads(op.in))
    BY <1>2, InvocationCases DEF ReadSet
  <2>2. QED
    BY <1>2, <2>1, StageFrame DEF Succeeds, WriteSet
<1>3. CASE op.fn \in {"recordEmissions", "updateEmissionsRecord"}
  <2>1. tokenId'[op.uuid] = tokenId[op.uuid]
    BY <1>3 DEF Unread, ReadSet, Reads
  <2>2. QED
    BY <1>3, <2>1 DEF Succeeds, WriteSet, Recorded, RecordWrites
<1>4. CASE op.fn = "updateEmissionsMintedToken"
  <2>1. \A r \in op.uuids : tokenId'[r] = tokenId[r]
    BY <1>4 DEF Unread, ReadSet, Reads
  <2>2. QED
    BY <1>4, <2>1
       DEF Succeeds, WriteSet, Recorded, RecordWrites, UpdateEmissionsMintedTokenSucceeds
<1>5. QED
  BY <1>1, <1>2, <1>3, <1>4, InvocationCases

-----------------------------------------------------------------------------
\* The keys a method reads are keys of the committed state.
LEMMA ReadsInState ==
  ASSUME NEW op \in Invocation
  PROVE  /\ ReadSet(op).tx \subseteq TxID
         /\ ReadSet(op).lock \subseteq Record
         /\ ReadSet(op).record \subseteq Record
<1>1. CASE op.fn = "stageUpdate"
  <2>1. /\ op.in.tx_id \in TxID
        /\ KeysOf(op.in.data_locks) \subseteq Record /\ KeysOf(op.in.data_free) \subseteq Record
        /\ UuidsOf(op.in.data_locks) \subseteq Record /\ UuidsOf(op.in.data_free) \subseteq Record
    BY <1>1, InvocationCases, BatchAssumption DEF ClientStageUpdate, KeysOf, UuidsOf
  <2>2. QED
    BY <1>1, <2>1 DEF ReadSet, StageReads, Reads
<1>2. CASE op.fn # "stageUpdate"
  BY <1>2, InvocationCases, BatchAssumption DEF ReadSet, Reads
<1>3. QED
  BY <1>1, <1>2

\* A commit that does not conflict with a proposal has written no key it read.
LEMMA NoConflictUnread ==
  ASSUME TypeOK, NEW op \in Invocation, NEW w, Applied(w), ~Overlap(w, ReadSet(op))
  PROVE  Unread(ReadSet(op))
<1>1. \A t \in ReadSet(op).tx : tx'[t] = tx[t]
  BY ReadsInState, StateFunctions DEF Applied, Overlap, Overwrite
<1>2. \A r \in ReadSet(op).lock : lock'[r] = lock[r]
  BY ReadsInState, StateFunctions DEF Applied, Overlap, Overwrite
<1>3. \A r \in ReadSet(op).record : tokenId'[r] = tokenId[r]
  BY ReadsInState, StateFunctions DEF Applied, Overlap, Overwrite
<1>4. QED
  BY <1>1, <1>2, <1>3 DEF Unread

\* The commit of a proposal in flight is a step of the datalock.
LEMMA CommitRefines ==
  ASSUME FabricInv, NEW s \in Slot, Commit(s)
  PROVE  Next /\ Applied(pending[s].writes)
<1>1. PICK op \in Invocation : op = pending[s].op
  BY DEF FabricInv, PendingOK, Commit
<1>2. Succeeds(op) /\ pending[s].writes = WriteSet(op)
  BY <1>1 DEF FabricInv, Reproduces, Commit
<1>3. Applied(pending[s].writes)
  BY DEF Commit, Applied
<1>4. QED
  BY <1>1, <1>2, <1>3, CommitIsStep DEF FabricInv

\* Endorsing and losing proposals leaves the committed state alone; committing them is a
\* step of the datalock.
LEMMA StepRefines ==
  ASSUME FabricInv, [FabricNext]_fabricVars
  PROVE  [Next]_vars
  BY CommitRefines DEF FabricNext, Endorse, Lose, fabricVars, vars

\* Endorsing adds a proposal that is right now; a commit drops the proposals it conflicts
\* with, and changes nothing the others have read.
LEMMA FabricInductive ==
  ASSUME FabricInv, [FabricNext]_fabricVars
  PROVE  FabricInv'
<1>1. TypeOK'
  BY StepRefines, TypeInductive DEF FabricInv
<1>2. ASSUME NEW s \in Slot, NEW op \in Invocation, Endorse(s, op)
      PROVE  PendingOK' /\ \A o \in Invocation : Reproduces(o)'
  <2>1. /\ pending' = [pending EXCEPT ![s] =
                         [op |-> op, reads |-> ReadSet(op), writes |-> WriteSet(op)]]
        /\ Succeeds(op)
        /\ UNCHANGED vars
    BY <1>2 DEF Endorse
  <2>2. PendingOK'
    BY <2>1 DEF FabricInv, PendingOK
  <2>3. ASSUME NEW o \in Invocation PROVE Reproduces(o)'
    <3>1. Unread(ReadSet(o))
      BY <2>1 DEF Unread, vars
    <3>2. (Succeeds(o)' <=> Succeeds(o)) /\ WriteSet(o)' = WriteSet(o)
      BY <3>1, ReadsDecide
    <3>3. QED
      BY <2>1, <3>2 DEF FabricInv, PendingOK, Reproduces
  <2>4. QED
    BY <2>2, <2>3
<1>3. ASSUME NEW s \in Slot, Commit(s)
      PROVE  PendingOK' /\ \A o \in Invocation : Reproduces(o)'
  <2>1. pending' = [q \in Slot |-> IF q = s \/ Conflict(s, q) THEN None ELSE pending[q]]
    BY <1>3 DEF Commit
  <2>2. PendingOK'
    BY <2>1 DEF FabricInv, PendingOK
  <2>3. ASSUME NEW o \in Invocation PROVE Reproduces(o)'
    <3>1. SUFFICES ASSUME NEW q \in Slot, pending'[q] # None, pending'[q].op = o
                   PROVE  Succeeds(o)' /\ pending'[q].writes = WriteSet(o)'
      BY DEF Reproduces
    <3>2. pending'[q] = pending[q] /\ ~Conflict(s, q)
      BY <2>1, <3>1
    <3>3. Succeeds(o) /\ pending[q].writes = WriteSet(o) /\ pending[q].reads = ReadSet(o)
      BY <3>1, <3>2 DEF FabricInv, PendingOK, Reproduces
    <3>4. ~Overlap(pending[s].writes, ReadSet(o))
      BY <3>1, <3>2, <3>3 DEF Conflict
    <3>5. Unread(ReadSet(o))
      BY <1>3, <3>4, CommitRefines, NoConflictUnread DEF FabricInv
    <3>6. QED
      BY <3>2, <3>3, <3>5, ReadsDecide
  <2>4. QED
    BY <2>2, <2>3
<1>4. ASSUME pending' \in {[pending EXCEPT ![s] = None] : s \in Slot} \cup {pending},
             UNCHANGED vars
      PROVE  PendingOK' /\ \A o \in Invocation : Reproduces(o)'
  <2>1. PendingOK'
    BY <1>4 DEF FabricInv, PendingOK
  <2>2. ASSUME NEW o \in Invocation PROVE Reproduces(o)'
    <3>1. Unread(ReadSet(o))
      BY <1>4 DEF Unread, vars
    <3>2. (Succeeds(o)' <=> Succeeds(o)) /\ WriteSet(o)' = WriteSet(o)
      BY <3>1, ReadsDecide
    <3>3. QED
      BY <1>4, <3>2 DEF FabricInv, PendingOK, Reproduces
  <2>3. QED
    BY <2>1, <2>2
<1>5. PendingOK' /\ \A o \in Invocation : Reproduces(o)'
  BY <1>2, <1>3, <1>4 DEF FabricNext, Lose, fabricVars, vars
<1>6. QED
  BY <1>1, <1>5 DEF FabricInv

\* The inductive invariant holds.
LEMMA FabricInvariant == FabricSpec => []FabricInv
<1>1. FabricInit => FabricInv
  <2>1. Init => TypeOK
    BY DEF Init, TypeOK, EmissionsInit, EmissionsTypeOK, TokenField
  <2>2. QED
    BY <2>1 DEF FabricInit, FabricInv, PendingOK, Reproduces
<1>2. FabricInv /\ [FabricNext]_fabricVars => FabricInv'
  BY FabricInductive
<1>3. QED
  BY <1>1, <1>2, PTL DEF FabricSpec

\* A proposal that can still commit would be endorsed again, with the same writes.
THEOREM ProposalsCorrect == FabricSpec => []ProposalsReproduce
<1>1. FabricInv => ProposalsReproduce
  BY DEF FabricInv, PendingOK, Reproduces, ProposalsReproduce
<1>2. QED
  BY <1>1, FabricInvariant, PTL

\* Overlapping invocations, conflicts and lost proposals included, the ledger behaves as
\* the datalock whose invocations are atomic; so the theorems about it hold of the ledger.
THEOREM LedgerImplementsDataLock == FabricSpec => ImplementsDataLock
<1>1. FabricInit => Init
  BY DEF FabricInit
<1>2. FabricInv /\ [FabricNext]_fabricVars => [Next]_vars
  BY StepRefines
<1>3. QED
  BY <1>1, <1>2, FabricInvariant, PTL DEF FabricSpec, Spec, ImplementsDataLock
=============================================================================
