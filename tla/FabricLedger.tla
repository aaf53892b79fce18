---------------------------- MODULE FabricLedger ----------------------------
(***************************************************************************)
(* How Fabric runs the invocations DataLock takes to be atomic.  An        *)
(* invocation is simulated on a peer: the chaincode reads the committed    *)
(* world state and its writes are only collected.  The endorsed proposal   *)
(* is ordered and committed later, after any number of others, unless a    *)
(* key it has read was written in between (a multiversion read conflict):  *)
(* then it has no effect.  The chaincodes rest on this when they read a    *)
(* lock or a transaction, decide, and write.                               *)
(*                                                                         *)
(* What a chaincode reads and writes is in the repository; the peer and    *)
(* the orderer are external.  A proposal that has read a key leaves the    *)
(* flight as soon as another commits a write to that key: the version it   *)
(* read is gone for good, and it will be marked invalid when its turn      *)
(* comes.  So no version numbers are kept.  A proposal may also be lost on *)
(* the way to the orderer.                                                 *)
(*                                                                         *)
(* The committed state is DataLock's own variables, so that this module    *)
(* implements DataLock is FabricSpec => Spec.                              *)
(***************************************************************************)
EXTENDS DataLock

CONSTANT Slot   \* the invocations that can be in flight at a time

VARIABLE pending   \* Slot -> the endorsed proposal, not yet committed

fabricVars == <<tx, lock, lockIndex, tokenId, pending>>

Overwrite(f, g) == [x \in DOMAIN f |-> IF x \in DOMAIN g THEN g[x] ELSE f[x]]

NoWrites == [x \in {} |-> None]
Single(x, v) == [y \in {x} |-> v]

\* The keys of the world state come in three kinds that are read back - transactions,
\* lock states, emissions records - and the index keys, which are only written.
Reads(ts, ls, rs) == [tx |-> ts, lock |-> ls, record |-> rs]
Writes(t, l, i, r) == [tx |-> t, lock |-> l, index |-> i, record |-> r]

Overlap(writes, reads) ==
  \/ DOMAIN writes.tx \cap reads.tx # {}
  \/ DOMAIN writes.lock \cap reads.lock # {}
  \/ DOMAIN writes.record \cap reads.record # {}

-----------------------------------------------------------------------------
(* Simulation: what each method reads and writes on the present world state. *)

StartWrites(t) == Writes(Single(t, Started(t)), NoWrites, NoWrites, NoWrites)

\* The transaction is put back only when it was being processed.
EndWrites(t) ==
  Writes(IF tx[t].state = "FINISHED" THEN NoWrites ELSE Single(t, Ended(t)),
         NoWrites, NoWrites, NoWrites)

KeysOf(call) == IF call = None THEN {} ELSE call.keys
UuidsOf(call) == IF call = None THEN {} ELSE call.uuids

StageReads(in) ==
  Reads({in.tx_id}, KeysOf(in.data_locks) \cup KeysOf(in.data_free),
        UuidsOf(in.data_locks) \cup UuidsOf(in.data_free))

\* Where a stage both locks and frees a key the later write, the deletion, stands.
StageWrites(in) ==
  LET t == in.tx_id
      freed == Freed(in.data_free)
      touched == Locked(in.data_locks) \cup freed
  IN Writes(Single(t, Staged(in)),
            [r \in touched |-> IF r \in freed THEN None ELSE t],
            [p \in {t} \X touched |-> p[2] \notin freed],
            [r \in freed |-> in.data_free.token])

RecordWrites(uuids, k) == Writes(NoWrites, NoWrites, NoWrites, [r \in uuids |-> k])

\* An invocation: the chaincode method and its arguments.
Invocation ==
  [fn : {"startTransitionProcess", "endTransitionProcess"}, tx_id : TxID]
    \cup [fn : {"stageUpdate"}, in : ClientStageUpdate]
    \cup [fn : {"recordEmissions"}, uuid : Record]
    \cup [fn : {"updateEmissionsRecord"}, uuid : Record, token : Token \cup {Undefined}]
    \cup [fn : {"updateEmissionsMintedToken"}, uuids : Batch, token : Token]

\* Mutation: the emissions chaincode does not look whether the record is there.
SucceedsBlind(op) ==
  CASE op.fn = "startTransitionProcess" -> CanStart(op.tx_id)
    [] op.fn = "endTransitionProcess" -> CanEnd(op.tx_id)
    [] op.fn = "stageUpdate" -> StageUpdateSucceeds(op.in)
    [] op.fn = "recordEmissions" -> TRUE
    [] op.fn = "updateEmissionsRecord" -> Recorded(op.uuid)
    [] op.fn = "updateEmissionsMintedToken" -> UpdateEmissionsMintedTokenSucceeds(op.uuids)

Succeeds(op) ==
  CASE op.fn = "startTransitionProcess" -> CanStart(op.tx_id)
    [] op.fn = "endTransitionProcess" -> CanEnd(op.tx_id)
    [] op.fn = "stageUpdate" -> StageUpdateSucceeds(op.in)
    [] op.fn = "recordEmissions" -> ~Recorded(op.uuid)
    [] op.fn = "updateEmissionsRecord" -> Recorded(op.uuid)
    [] op.fn = "updateEmissionsMintedToken" -> UpdateEmissionsMintedTokenSucceeds(op.uuids)

\* Mutation: the emissions chaincode puts a record without getting it first.
ReadSetBlind(op) ==
  CASE op.fn \in {"startTransitionProcess", "endTransitionProcess"} -> Reads({op.tx_id}, {}, {})
    [] op.fn = "stageUpdate" -> StageReads(op.in)
    [] op.fn \in {"recordEmissions", "updateEmissionsRecord", "updateEmissionsMintedToken"} ->
         Reads({}, {}, {})

\* Mutation: the lock states are looked up outside the transaction, on a peer's query.
ReadSetUntracked(op) ==
  CASE op.fn \in {"startTransitionProcess", "endTransitionProcess"} -> Reads({op.tx_id}, {}, {})
    [] op.fn = "stageUpdate" -> [StageReads(op.in) EXCEPT !.lock = {}]
    [] op.fn \in {"recordEmissions", "updateEmissionsRecord"} -> Reads({}, {}, {op.uuid})
    [] op.fn = "updateEmissionsMintedToken" -> Reads({}, {}, op.uuids)

ReadSet(op) ==
  CASE op.fn \in {"startTransitionProcess", "endTransitionProcess"} -> Reads({op.tx_id}, {}, {})
    [] op.fn = "stageUpdate" -> StageReads(op.in)
    [] op.fn \in {"recordEmissions", "updateEmissionsRecord"} -> Reads({}, {}, {op.uuid})
    [] op.fn = "updateEmissionsMintedToken" -> Reads({}, {}, op.uuids)

WriteSet(op) ==
  CASE op.fn = "startTransitionProcess" -> StartWrites(op.tx_id)
    [] op.fn = "endTransitionProcess" -> EndWrites(op.tx_id)
    [] op.fn = "stageUpdate" -> StageWrites(op.in)
    [] op.fn = "recordEmissions" -> RecordWrites({op.uuid}, Null)
    [] op.fn = "updateEmissionsRecord" -> RecordWrites({op.uuid}, op.token)
    [] op.fn = "updateEmissionsMintedToken" -> RecordWrites(op.uuids, op.token)

-----------------------------------------------------------------------------
FabricInit == Init /\ pending = [s \in Slot |-> None]

Endorse(s, op) ==
  /\ pending[s] = None
  /\ Succeeds(op)
  /\ pending' = [pending EXCEPT ![s] =
                   [op |-> op, reads |-> ReadSet(op), writes |-> WriteSet(op)]]
  /\ UNCHANGED vars

Conflict(s, q) == pending[q] # None /\ Overlap(pending[s].writes, pending[q].reads)

Commit(s) ==
  /\ pending[s] # None
  /\ LET w == pending[s].writes
     IN /\ tx' = Overwrite(tx, w.tx)
        /\ lock' = Overwrite(lock, w.lock)
        /\ lockIndex' = {p \in TxID \X Record :
                           IF p \in DOMAIN w.index THEN w.index[p] ELSE p \in lockIndex}
        /\ tokenId' = Overwrite(tokenId, w.record)
  /\ pending' = [q \in Slot |-> IF q = s \/ Conflict(s, q) THEN None ELSE pending[q]]

\* Never ordered: the submission was lost.
Lose(s) ==
  /\ pending[s] # None
  /\ pending' = [pending EXCEPT ![s] = None]
  /\ UNCHANGED vars

FabricNext ==
  \/ \E s \in Slot, op \in Invocation : Endorse(s, op)
  \/ \E s \in Slot : Commit(s)
  \/ \E s \in Slot : Lose(s)

FabricSpec == FabricInit /\ [][FabricNext]_fabricVars

-----------------------------------------------------------------------------
\* A proposal that can still commit would be endorsed again now, with the same writes:
\* the keys a chaincode method reads decide everything it does, though it commits long
\* after it read them.
ProposalsReproduce ==
  \A s \in Slot : pending[s] # None =>
    Succeeds(pending[s].op) /\ pending[s].writes = WriteSet(pending[s].op)

\* "DataLock uses the same facts, such that a single process with a unique id can only
\* acquire lock" (datalock/README.md:3): though the invocations in flight overlap, every
\* step of the ledger is a step of the atomic datalock or leaves its state alone.
ImplementsDataLock == Spec
=============================================================================
